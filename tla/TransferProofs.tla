--------------------------- MODULE TransferProofs ---------------------------
(***************************************************************************)
(* The safety of Transfer for any number of receivers, slices, retries and *)
(* faults, in half and in full duplex: IInv is inductive, it implies the   *)
(* safety properties, and every step is a step of ReliableMulticast.       *)
(***************************************************************************)
EXTENDS Transfer, FiniteSetTheorems, SequenceTheorems, TLAPS

-----------------------------------------------------------------------------
(* Queues of packets                                                        *)

(* What the network does to a queue brings in no packet from elsewhere. *)
Shuffled(old, new) == \A S : old \in Seq(S) => new \in Seq(S)

(* Taking the first packet brings in none. *)
LEMMA TailShuffled ==
    ASSUME NEW T, NEW s \in Seq(T), s # << >>
    PROVE  Shuffled(s, Tail(s)) /\ Head(s) \in T
  BY HeadTailProperties DEF Shuffled

(* Losing all packets brings in none. *)
LEMMA EmptyShuffled ==
    ASSUME NEW s
    PROVE  Shuffled(s, << >>)
  BY EmptySeq DEF Shuffled

(* Repeating the first packet brings in none. *)
LEMMA TwiceShuffled ==
    ASSUME NEW T, NEW s \in Seq(T), s # << >>
    PROVE  Shuffled(s, <<Head(s)>> \o s)
<1> SUFFICES ASSUME NEW S, s \in Seq(S)
             PROVE  <<Head(s)>> \o s \in Seq(S)
  BY DEF Shuffled
<1>1. Head(s) \in S
  BY HeadTailProperties
<1>2. <<Head(s)>> \in Seq(S)
  BY <1>1
<1> QED
  BY <1>2, ConcatProperties

(* Swapping the first two packets brings in none. *)
LEMMA SwapShuffled ==
    ASSUME NEW T, NEW s \in Seq(T), Len(s) > 1
    PROVE  Shuffled(s, <<s[2], s[1]>> \o SubSeq(s, 3, Len(s)))
<1> SUFFICES ASSUME NEW S, s \in Seq(S)
             PROVE  <<s[2], s[1]>> \o SubSeq(s, 3, Len(s)) \in Seq(S)
  BY DEF Shuffled
<1>1. Len(s) \in Nat /\ \A i \in 1 .. Len(s) : s[i] \in S
  BY LenProperties, ElementOfSeq
<1>2. <<s[2], s[1]>> \in Seq(S)
  BY <1>1
<1>3. SubSeq(s, 3, Len(s)) \in Seq(S)
  BY <1>1, SubSeqProperties
<1> QED
  BY <1>2, <1>3, ConcatProperties

-----------------------------------------------------------------------------
(* The operations on a slice                                                *)

(* A slot is empty exactly when it holds no slice number. *)
LEMMA SlotEmpty ==
    ASSUME IInv
    PROVE  /\ xmit = NoSlice <=> xmit.no = -1
           /\ rexmit = NoSlice <=> rexmit.no = -1
  BY BoundsAssumption DEF IInv, SlotInv, NoSlice, SliceNos

(* Sets of receivers can be counted. *)
LEMMA ReceiversCount ==
    ASSUME NEW S \in SUBSET Receivers
    PROVE  IsFiniteSet(S) /\ Cardinality(S) \in Nat
  BY ReceiversAssumption, FS_Subset, FS_CardinalityType

(* markParticipantAnswered counts a client once. *)
LEMMA MarkAnsweredFacts ==
    ASSUME NEW sl \in SliceType, sl.nrAnswered = Cardinality(sl.answered),
           NEW r \in Receivers
    PROVE  /\ MarkAnswered(sl, r) \in SliceType
           /\ MarkAnswered(sl, r).nrAnswered =
                 Cardinality(MarkAnswered(sl, r).answered)
           /\ MarkAnswered(sl, r).answered = sl.answered \cup {r}
           /\ MarkAnswered(sl, r).ready = sl.ready
           /\ MarkAnswered(sl, r).nrReady = sl.nrReady
           /\ MarkAnswered(sl, r).no = sl.no
           /\ MarkAnswered(sl, r).blocks = sl.blocks
<1>1. CASE r \in sl.answered
  BY <1>1 DEF MarkAnswered
<1>2. CASE r \notin sl.answered
  <2>1. Cardinality(sl.answered \cup {r}) = sl.nrAnswered + 1
    BY <1>2, FS_AddElement, ReceiversCount DEF SliceType
  <2> DEFINE new == [sl EXCEPT !.answered = @ \cup {r}, !.nrAnswered = @ + 1]
  <2>2. MarkAnswered(sl, r) = new
    BY <1>2 DEF MarkAnswered
  <2>3. new \in SliceType
    <3>1. sl.nrAnswered + 1 \in Nat /\ sl.answered \cup {r} \in SUBSET Receivers
      BY DEF SliceType
    <3> QED
      BY <3>1 DEF SliceType
  <2>4. /\ new.answered = sl.answered \cup {r}
        /\ new.nrAnswered = sl.nrAnswered + 1
        /\ new.ready = sl.ready /\ new.nrReady = sl.nrReady
        /\ new.no = sl.no /\ new.blocks = sl.blocks
    BY DEF SliceType
  <2> QED
    BY <2>1, <2>2, <2>3, <2>4
<1> QED
  BY <1>1, <1>2

(* handleOk keeps the counters of the slice equal to its sets. *)
LEMMA MarkReadyFacts ==
    ASSUME NEW sl \in SliceType, SliceCounts(sl), NEW r \in Receivers,
           r \in participants
    PROVE  /\ MarkReady(sl, r) \in SliceType /\ SliceCounts(MarkReady(sl, r))
           /\ MarkReady(sl, r).no = sl.no
           /\ MarkReady(sl, r).blocks = sl.blocks
           /\ MarkReady(sl, r).ready = sl.ready \cup {r}
<1>1. CASE r \in sl.ready
  <2>1. sl.ready \cup {r} = sl.ready
    BY <1>1
  <2> QED
    BY <1>1, <2>1 DEF MarkReady
<1>2. CASE r \notin sl.ready
  <2> DEFINE new == [sl EXCEPT !.ready = @ \cup {r}, !.nrReady = @ + 1]
  <2>1. Cardinality(sl.ready \cup {r}) = sl.nrReady + 1
    BY <1>2, FS_AddElement, ReceiversCount DEF SliceType, SliceCounts
  <2>2. MarkReady(sl, r) = MarkAnswered(new, r)
    BY <1>2 DEF MarkReady
  <2>3. new \in SliceType
    <3>1. sl.nrReady + 1 \in Nat /\ sl.ready \cup {r} \in SUBSET Receivers
      BY DEF SliceType
    <3> QED
      BY <3>1 DEF SliceType
  <2>4. /\ new.ready = sl.ready \cup {r} /\ new.nrReady = sl.nrReady + 1
        /\ new.answered = sl.answered /\ new.nrAnswered = sl.nrAnswered
        /\ new.no = sl.no /\ new.blocks = sl.blocks
    BY DEF SliceType
  <2>5. new.nrAnswered = Cardinality(new.answered)
    BY <2>4 DEF SliceCounts
  <2> HIDE DEF new
  <2>6. /\ MarkReady(sl, r) \in SliceType
        /\ MarkReady(sl, r).answered = sl.answered \cup {r}
        /\ MarkReady(sl, r).nrAnswered = Cardinality(sl.answered \cup {r})
        /\ MarkReady(sl, r).ready = sl.ready \cup {r}
        /\ MarkReady(sl, r).nrReady = sl.nrReady + 1
        /\ MarkReady(sl, r).no = sl.no
        /\ MarkReady(sl, r).blocks = sl.blocks
    <3>1. /\ MarkAnswered(new, r) \in SliceType
          /\ MarkAnswered(new, r).nrAnswered =
                Cardinality(MarkAnswered(new, r).answered)
          /\ MarkAnswered(new, r).answered = new.answered \cup {r}
          /\ MarkAnswered(new, r).ready = new.ready
          /\ MarkAnswered(new, r).nrReady = new.nrReady
          /\ MarkAnswered(new, r).no = new.no
          /\ MarkAnswered(new, r).blocks = new.blocks
      BY <2>3, <2>5, MarkAnsweredFacts
    <3> QED
      BY <2>2, <2>4, <3>1
  <2> QED
    BY <2>1, <2>6 DEF SliceCounts
<1> QED
  BY <1>1, <1>2

(* handleRetransmit counts an answer, and nobody becomes ready. *)
LEMMA MarkMissingFacts ==
    ASSUME NEW sl \in SliceType, SliceCounts(sl), NEW r \in Receivers,
           NEW missing \in SUBSET Nat
    PROVE  /\ MarkMissing(sl, r, missing) \in SliceType
           /\ SliceCounts(MarkMissing(sl, r, missing))
           /\ MarkMissing(sl, r, missing).no = sl.no
           /\ MarkMissing(sl, r, missing).blocks = sl.blocks
           /\ MarkMissing(sl, r, missing).ready = sl.ready
<1> DEFINE new == [sl EXCEPT !.rxmitMap = @ \cup missing, !.needRxmit = TRUE]
<1>1. MarkMissing(sl, r, missing) = MarkAnswered(new, r)
  BY DEF MarkMissing
<1>2. new \in SliceType
  BY DEF SliceType
<1>3. /\ new.ready = sl.ready /\ new.nrReady = sl.nrReady
      /\ new.answered = sl.answered /\ new.nrAnswered = sl.nrAnswered
      /\ new.no = sl.no /\ new.blocks = sl.blocks
  BY DEF SliceType
<1>4. new.nrAnswered = Cardinality(new.answered)
  BY <1>3 DEF SliceCounts
<1> HIDE DEF new
<1> QED
  BY <1>1, <1>2, <1>3, <1>4, MarkAnsweredFacts DEF SliceCounts

(* handleDisconnect1 takes the client out of sets and counters alike. *)
LEMMA ForgetFacts ==
    ASSUME NEW sl \in SliceType, SliceCounts(sl), NEW r \in Receivers
    PROVE  /\ Forget(sl, r) \in SliceType
           /\ Forget(sl, r).nrReady = Cardinality(sl.ready \ {r})
           /\ Forget(sl, r).nrAnswered = Cardinality(sl.answered \ {r})
           /\ Forget(sl, r).ready = sl.ready \ {r}
           /\ Forget(sl, r).answered = sl.answered \ {r}
           /\ Forget(sl, r).no = sl.no /\ Forget(sl, r).blocks = sl.blocks
           /\ Forget(sl, r).state = sl.state
           /\ Forget(sl, r).nextBlock = sl.nextBlock
<1>1. Cardinality(sl.ready \ {r}) =
         IF r \in sl.ready THEN sl.nrReady - 1 ELSE sl.nrReady
  BY FS_RemoveElement, ReceiversCount DEF SliceType, SliceCounts
<1>2. Cardinality(sl.answered \ {r}) =
         IF r \in sl.answered THEN sl.nrAnswered - 1 ELSE sl.nrAnswered
  BY FS_RemoveElement, ReceiversCount DEF SliceType, SliceCounts
<1>3. Cardinality(sl.ready \ {r}) \in Nat /\ Cardinality(sl.answered \ {r}) \in Nat
  BY ReceiversCount DEF SliceType
<1>4. Forget(sl, r) = [sl EXCEPT !.ready = sl.ready \ {r},
                                 !.nrReady = Cardinality(sl.ready \ {r}),
                                 !.answered = sl.answered \ {r},
                                 !.nrAnswered = Cardinality(sl.answered \ {r})]
  BY <1>1, <1>2 DEF Forget, SliceType
<1>5. Forget(sl, r) \in SliceType
  BY <1>3, <1>4 DEF SliceType
<1> QED
  BY <1>4, <1>5 DEF SliceType

(* The empty slot has the type of a slice. *)
LEMMA NoSliceTyped == NoSlice \in SliceType
  BY DEF NoSlice, SliceType

(* A client that leaves changes nothing in an empty slot. *)
LEMMA ForgetNoSlice ==
    ASSUME NEW r
    PROVE  Forget(NoSlice, r) = NoSlice
<1>1. /\ NoSlice.ready = {} /\ NoSlice.nrReady = 0
      /\ NoSlice.answered = {} /\ NoSlice.nrAnswered = 0
  BY DEF NoSlice
<1>2. \A sl \in SliceType :
         [sl EXCEPT !.ready = sl.ready, !.nrReady = sl.nrReady,
                    !.answered = sl.answered, !.nrAnswered = sl.nrAnswered] = sl
  BY DEF SliceType
<1> QED
  BY <1>1, <1>2, NoSliceTyped DEF Forget

(* sendReqack lets everybody who is ready count as having answered. *)
LEMMA AskedFacts ==
    ASSUME NEW sl \in SliceType, SliceCounts(sl)
    PROVE  /\ Asked(sl) \in SliceType /\ SliceCounts(Asked(sl))
           /\ Asked(sl).no = sl.no /\ Asked(sl).blocks = sl.blocks
           /\ Asked(sl).ready = sl.ready
  BY DEF Asked, SliceType, SliceCounts

-----------------------------------------------------------------------------
(* What a step must respect                                                 *)

(* The slice numbers compared below are numbers. *)
LEMMA Numbers ==
    ASSUME TypeOK
    PROVE  Unasked \in Int /\ Acked \in Int /\ sliceNo \in Int
  BY BoundsAssumption DEF TypeOK, SliceType, Unasked, Acked

(* The slices asked about lie between the acknowledged ones and the next. *)
LEMMA Order ==
    ASSUME IInv
    PROVE  /\ Acked \in {Unasked - 1, Unasked}
           /\ Unasked \in {sliceNo - 1, sliceNo}
           /\ ~SN => Acked >= sliceNo - 1
  BY Numbers DEF IInv, SlotInv, Acked, Unasked

(* A packet on its way stays one that the sender may have sent. *)
LEMMA PacketsKept ==
    ASSUME TypeOK, TypeOK', sliceNo' >= sliceNo, Unasked' >= Unasked, NEW f
    PROVE  PacketsOf(f) \subseteq PacketsOf(f)'
<1>1. Unasked \in Int /\ sliceNo \in Int /\ Unasked' \in Int /\ sliceNo' \in Int
  BY Numbers DEF TypeOK, Unasked, SliceType
<1>2. \A p \in PacketType : p.no \in Int
  BY BoundsAssumption DEF PacketType, SliceNos
<1> QED
  BY <1>1, <1>2 DEF PacketsOf

(* An answer stays true as long as the receiver keeps its slices. *)
LEMMA AnswersKept ==
    ASSUME TypeOK, TypeOK', Unasked' >= Unasked, NEW r,
           \A n \in SliceNos : Holds(r, n) => Holds(r, n)'
    PROVE  AnswersOf(r) \subseteq AnswersOf(r)'
<1>1. Unasked \in Int /\ Unasked' \in Int
  BY Numbers DEF TypeOK, Unasked, SliceType
<1>2. \A a \in AnswerType : a.no \in SliceNos /\ a.no \in Int
  BY BoundsAssumption DEF AnswerType, SliceNos
<1> QED
  BY <1>1, <1>2 DEF AnswersOf

(* A step of the sender leaves the receivers alone; what it does to its own
   slices and what it sends decides whether the invariant survives. *)
LEMMA SenderStep ==
    ASSUME IInv, UNCHANGED receiverVars, UNCHANGED faults,
           pc' \in {"top", "messages", "make", "done"},
           participants' \subseteq participants,
           xmit' \in SliceType, rexmit' \in SliceType,
           sliceNo' \in sliceNo .. NrSlices + 1, atEnd' \in BOOLEAN,
           toReceiver' \in [Receivers -> Seq(PacketType)],
           toSender' = [r \in Receivers |-> toSender'[r]],
           \A r \in Receivers : Shuffled(toSender[r], toSender'[r]),
           Unasked' >= Unasked,
           CountsAgree', SlotInv', FileInv', AckedMeansReceived',
           \A r \in rexmit'.ready : Holds(r, rexmit'.no)
    PROVE  IInv'
<1>1. TypeOK'
  <2>1. sliceNo' \in 0 .. NrSlices + 1
    BY BoundsAssumption DEF IInv, TypeOK
  <2>2. toSender' \in [Receivers -> Seq(AnswerType)]
    BY DEF IInv, TypeOK, Shuffled
  <2> QED
    BY <2>1, <2>2 DEF IInv, TypeOK, receiverVars
<1>2. \A r, n : Holds(r, n)' <=> Holds(r, n)
  BY DEF Holds, receiverVars
<1>3. AnswerInv'
  <2>1. \A r \in Receivers : toSender'[r] \in Seq(AnswersOf(r)')
    <3> TAKE r \in Receivers
    <3>1. toSender'[r] \in Seq(AnswersOf(r))
      BY DEF IInv, AnswerInv, Shuffled
    <3>2. AnswersOf(r) \subseteq AnswersOf(r)'
      BY <1>1, <1>2, AnswersKept DEF IInv
    <3> QED
      BY <3>1, <3>2, SeqMonotonic
  <2>2. \A r \in rexmit'.ready : Holds(r, rexmit.no)'
    BY <1>2 DEF Holds, receiverVars
  <2> QED
    BY <2>1, <2>2 DEF AnswerInv
<1>4. PrefixInv'
  BY DEF IInv, PrefixInv, Holds, receiverVars
<1>5. ~SN => SurvivorsServed'
  BY DEF IInv, SurvivorsServed, receiverVars
<1> QED
  BY <1>1, <1>3, <1>4, <1>5 DEF IInv

(* What the network, or a death, does: packets are removed, repeated or
   overtaken, and nobody's slices change. *)
LEMMA NetworkStep ==
    ASSUME IInv, UNCHANGED <<pc, senderVars, current, received, size, got>>,
           faults' \in 0 .. MaxFaults,
           status' \in [Receivers -> {"running", "closing", "finished",
                                      "failed", "dead"}],
           \A r \in participants : status'[r] = "failed" => status[r] = "failed",
           toReceiver' = [r \in Receivers |-> toReceiver'[r]],
           toSender' = [r \in Receivers |-> toSender'[r]],
           \A r \in Receivers : /\ Shuffled(toReceiver[r], toReceiver'[r])
                                /\ Shuffled(toSender[r], toSender'[r])
    PROVE  IInv'
<1>1. TypeOK'
  <2>1. toSender' \in [Receivers -> Seq(AnswerType)]
    BY DEF IInv, TypeOK, Shuffled
  <2>2. toReceiver' \in [Receivers -> Seq(PacketType)]
    BY DEF IInv, TypeOK, Shuffled
  <2> QED
    BY <2>1, <2>2 DEF IInv, TypeOK, senderVars
<1>2. CountsAgree' /\ SlotInv' /\ PrefixInv' /\ AckedMeansReceived'
  <2>1. CountsAgree'
    BY DEF IInv, CountsAgree, SliceCounts, senderVars
  <2>2. SlotInv'
    BY DEF IInv, SlotInv, Unasked, senderVars
  <2>3. PrefixInv'
    BY DEF IInv, PrefixInv, Holds
  <2>4. AckedMeansReceived'
    BY DEF IInv, AckedMeansReceived, Acked, senderVars
  <2> QED
    BY <2>1, <2>2, <2>3, <2>4
<1>3. FileInv'
  <2>1. PICK f \in [SliceNos -> BlockCounts \cup {0}] : FileIs(f)
    BY DEF IInv, FileInv
  <2>2. PacketsOf(f)' = PacketsOf(f)
    BY DEF PacketsOf, Unasked, senderVars
  <2>3. \A r \in Receivers : toReceiver'[r] \in Seq(PacketsOf(f)')
    BY <2>1, <2>2 DEF FileIs, Shuffled
  <2>4. FileIs(f)'
    BY <2>1, <2>3 DEF FileIs, senderVars
  <2> QED
    BY <2>4 DEF FileInv
<1>4. AnswerInv'
  <2>1. \A r : AnswersOf(r)' = AnswersOf(r)
    BY DEF AnswersOf, Unasked, Holds, senderVars
  <2>2. \A r \in Receivers : toSender'[r] \in Seq(AnswersOf(r)')
    BY <2>1 DEF IInv, AnswerInv, Shuffled
  <2>3. \A r \in rexmit'.ready : Holds(r, rexmit.no)'
    BY DEF IInv, AnswerInv, Holds, senderVars
  <2> QED
    BY <2>2, <2>3 DEF AnswerInv
<1>5. ~SN => SurvivorsServed'
  BY DEF IInv, SurvivorsServed, senderVars
<1> QED
  BY <1>1, <1>2, <1>3, <1>4, <1>5 DEF IInv

(* A step of a receiver leaves the sender alone; what it knows of the file
   may only grow, and what it answers must be true. *)
LEMMA ReceiverStep ==
    ASSUME IInv, UNCHANGED <<pc, senderVars, faults>>,
           status' \in [Receivers -> {"running", "closing", "finished",
                                      "failed", "dead"}],
           current' \in [Receivers -> SliceNos],
           received' \in [Receivers -> -1 .. NrSlices],
           size' \in [Receivers -> [SliceNos -> Nat \cup {Unknown}]],
           got' \in [Receivers -> [SliceNos -> SUBSET Nat]],
           \A r \in Receivers : received'[r] >= received[r],
           \A r \in participants : status'[r] = "failed" => SN \/ status[r] = "failed",
           \A r \in Receivers : \A n \in SliceNos : Holds(r, n) => Holds(r, n)',
           \A f : FileIs(f) =>
              \A r \in Receivers : \A n \in SliceNos :
                 size'[r][n] # Unknown => size'[r][n] = f[n] /\ n < sliceNo,
           toReceiver' = [r \in Receivers |-> toReceiver'[r]],
           \A r \in Receivers : Shuffled(toReceiver[r], toReceiver'[r]),
           toSender' \in [Receivers -> Seq(AnswerType)],
           \A r \in Receivers : toSender'[r] \in Seq(AnswersOf(r)'),
           PrefixInv'
    PROVE  IInv'
<1>1. TypeOK'
  <2>1. toReceiver' \in [Receivers -> Seq(PacketType)]
    BY DEF IInv, TypeOK, Shuffled
  <2> QED
    BY <2>1 DEF IInv, TypeOK, senderVars
<1>2. CountsAgree' /\ SlotInv'
  <2>1. CountsAgree'
    BY DEF IInv, CountsAgree, SliceCounts, senderVars
  <2>2. SlotInv'
    BY DEF IInv, SlotInv, Unasked, senderVars
  <2> QED
    BY <2>1, <2>2
<1>3. FileInv'
  <2>1. PICK f \in [SliceNos -> BlockCounts \cup {0}] : FileIs(f)
    BY DEF IInv, FileInv
  <2>2. PacketsOf(f)' = PacketsOf(f)
    BY DEF PacketsOf, Unasked, senderVars
  <2>3. \A r \in Receivers : toReceiver'[r] \in Seq(PacketsOf(f)')
    BY <2>1, <2>2 DEF FileIs, Shuffled
  <2>4. \A r \in Receivers : \A n \in SliceNos :
           size'[r][n] # Unknown => size'[r][n] = f[n] /\ n < sliceNo'
    BY <2>1 DEF senderVars
  <2>5. FileIs(f)'
    BY <2>1, <2>3, <2>4 DEF FileIs, senderVars
  <2> QED
    BY <2>5 DEF FileInv
<1>4. AnswerInv'
  <2>1. \A r \in rexmit'.ready : Holds(r, rexmit.no)'
    <3> TAKE r \in rexmit'.ready
    <3>1. Holds(r, rexmit.no) /\ rexmit' = rexmit
      BY DEF IInv, AnswerInv, senderVars
    <3>2. r \in Receivers /\ rexmit.no \in SliceNos
      BY <3>1 DEF IInv, TypeOK, SliceType, Holds
    <3> QED
      BY <3>1, <3>2
  <2> QED
    BY <2>1 DEF AnswerInv
<1>5. AckedMeansReceived'
  <2>1. participants' = participants /\ Acked' = Acked
    BY DEF senderVars, Acked
  <2> SUFFICES ASSUME NEW r \in participants
               PROVE  received'[r] >= Acked' - 1
    BY <2>1 DEF AckedMeansReceived
  <2>2. /\ r \in Receivers /\ received[r] \in Int /\ received'[r] \in Int
        /\ received'[r] >= received[r]
    BY BoundsAssumption DEF IInv, TypeOK
  <2>3. Acked \in Int /\ received[r] >= Acked - 1
    BY Numbers DEF IInv, AckedMeansReceived
  <2> QED
    BY <2>1, <2>2, <2>3
<1>6. ~SN => SurvivorsServed'
  BY DEF IInv, SurvivorsServed, senderVars
<1> QED
  BY <1>1, <1>2, <1>3, <1>4, <1>5, <1>6 DEF IInv

(* setSliceBytes, the new blocks and advanceReceivedPointer keep what the
   receiver had and find the end of the longest complete prefix. *)
LEMMA UpdateFacts ==
    ASSUME IInv, NEW r \in Receivers, NEW n \in SliceNos, NEW sz \in Nat,
           NEW blocks \in SUBSET Nat, Update(r, n, sz, blocks),
           Holds(r, n) => Complete(sz, blocks)
    PROVE  /\ status' \in [Receivers -> {"running", "closing", "finished",
                                         "failed", "dead"}]
           /\ current' \in [Receivers -> SliceNos]
           /\ received' \in [Receivers -> -1 .. NrSlices]
           /\ size' \in [Receivers -> [SliceNos -> Nat \cup {Unknown}]]
           /\ got' \in [Receivers -> [SliceNos -> SUBSET Nat]]
           /\ \A q \in Receivers : received'[q] >= received[q]
           /\ \A q \in Receivers : status'[q] = "failed" => status[q] = "failed"
           /\ \A q \in Receivers : \A k \in SliceNos :
                 /\ Holds(q, k) => Holds(q, k)'
                 /\ size'[q][k] = IF q = r /\ k = n THEN sz ELSE size[q][k]
           /\ Holds(r, n)' <=> Complete(sz, blocks)
           /\ PrefixInv'
           /\ \E last \in received[r] .. NrSlices :
                 received' = [received EXCEPT ![r] = last]
<1> DEFINE Has(k) == IF k = n THEN Complete(sz, blocks)
                     ELSE Complete(size[r][k], got[r][k])
<1>1. PICK last \in received[r] .. NrSlices :
         /\ \A k \in received[r] + 1 .. last : Has(k)
         /\ last < NrSlices => ~Has(last + 1)
         /\ received' = [received EXCEPT ![r] = last]
         /\ status' = [status EXCEPT ![r] =
               IF last > received[r] /\ (IF last = n THEN sz ELSE size[r][last]) = 0
               THEN "closing" ELSE @]
  BY DEF Update, Advance
<1> HIDE DEF Has
<1>2. /\ size' = [size EXCEPT ![r][n] = sz]
      /\ got' = [got EXCEPT ![r][n] = blocks]
      /\ current' = [current EXCEPT ![r] = IF n > @ THEN n ELSE @]
  BY DEF Update
<1>3. TypeOK
  BY DEF IInv
<1>4. /\ received[r] \in -1 .. NrSlices /\ last \in -1 .. NrSlices
      /\ last >= received[r]
  BY <1>3, BoundsAssumption DEF TypeOK
<1>5. /\ status' \in [Receivers -> {"running", "closing", "finished",
                                    "failed", "dead"}]
      /\ \A q \in Receivers : status'[q] = "failed" => status[q] = "failed"
  BY <1>1, <1>3 DEF TypeOK
<1>6. /\ current' \in [Receivers -> SliceNos]
      /\ received' \in [Receivers -> -1 .. NrSlices]
  BY <1>1, <1>2, <1>3, <1>4 DEF TypeOK
<1>7. size' \in [Receivers -> [SliceNos -> Nat \cup {Unknown}]]
  BY <1>2, <1>3 DEF TypeOK
<1>8. got' \in [Receivers -> [SliceNos -> SUBSET Nat]]
  BY <1>2, <1>3 DEF TypeOK
<1>9. \A q \in Receivers : received'[q] >= received[q]
  BY <1>1, <1>3, <1>4 DEF TypeOK
<1>10. \A q \in Receivers : \A k \in SliceNos :
          /\ size'[q][k] = IF q = r /\ k = n THEN sz ELSE size[q][k]
          /\ got'[q][k] = IF q = r /\ k = n THEN blocks ELSE got[q][k]
  BY <1>2, <1>3 DEF TypeOK
<1>11. \A k \in SliceNos : Has(k) <=> Holds(r, k)'
  BY <1>10 DEF Has, Holds
<1>12. \A q \in Receivers : \A k \in SliceNos : Holds(q, k) => Holds(q, k)'
  BY <1>10 DEF Holds
<1>13. \A q \in Receivers : q # r => \A k : Holds(q, k)' <=> Holds(q, k)
  BY <1>10 DEF Holds
<1>14. PrefixInv'
  <2> SUFFICES ASSUME NEW q \in Receivers
               PROVE  (/\ received[q] <= current[q]
                       /\ \A k \in SliceNos : size[q][k] # Unknown => k <= current[q]
                       /\ \A k \in 0 .. received[q] : Holds(q, k)
                       /\ ~Holds(q, received[q] + 1))'
    BY DEF PrefixInv
  <2>1. /\ received[q] <= current[q]
        /\ \A k \in SliceNos : size[q][k] # Unknown => k <= current[q]
        /\ \A k \in 0 .. received[q] : Holds(q, k)
        /\ ~Holds(q, received[q] + 1)
    BY DEF IInv, PrefixInv
  <2>2. CASE q # r
    <3>1. received'[q] = received[q] /\ current'[q] = current[q]
      BY <1>1, <1>2, <1>3, <2>2 DEF TypeOK
    <3>2. \A k \in SliceNos : size'[q][k] = size[q][k]
      BY <1>10, <2>2
    <3>3. \A k : Holds(q, k) => Holds(q, k)'
      BY <1>13, <2>2
    <3>4. ~Holds(q, received[q] + 1)'
      <4> DEFINE next == received[q] + 1
      <4>1. next \in SliceNos => size'[q][next] = size[q][next] /\ got'[q][next] = got[q][next]
        BY <1>10, <2>2
      <4> QED
        BY <2>1, <3>1, <4>1 DEF Holds
    <3> QED
      BY <2>1, <3>1, <3>2, <3>3, <3>4
  <2>3. CASE q = r
    <3>1. received'[q] = last
      BY <1>1, <1>3, <2>3 DEF TypeOK
    <3>2. /\ current'[q] \in Int /\ current'[q] >= n /\ current'[q] >= current[q]
          /\ current[q] \in Int /\ n \in Int
      BY <1>2, <1>3, <2>3, BoundsAssumption DEF TypeOK, SliceNos
    <3>3. \A k \in SliceNos : size'[q][k] # Unknown => k <= current'[q]
      BY <1>10, <2>1, <3>2, BoundsAssumption DEF SliceNos
    <3>4. \A k \in 0 .. last : Holds(q, k)'
      <4> TAKE k \in 0 .. last
      <4>1. k \in SliceNos
        BY <1>4, BoundsAssumption DEF SliceNos
      <4>2. CASE k <= received[r]
        BY <1>4, <1>12, <2>1, <2>3, <4>1, <4>2
      <4>3. CASE k > received[r]
        BY <1>1, <1>4, <1>11, <2>3, <4>1, <4>3
      <4> QED
        BY <1>4, <4>2, <4>3
    <3>5. ~Holds(q, last + 1)'
      <4>1. last + 1 \in SliceNos => last < NrSlices
        BY <1>4, BoundsAssumption DEF SliceNos
      <4> QED
        BY <1>1, <1>11, <2>3, <4>1 DEF Holds
    <3>6. last <= current'[q]
      <4>1. CASE last = received[r]
        BY <2>1, <2>3, <3>2, <4>1, <1>4
      <4>2. CASE last > received[r]
        <5>1. last \in SliceNos /\ last \in 0 .. last
          BY <1>4, <4>2, BoundsAssumption DEF SliceNos
        <5>2. size'[q][last] # Unknown
          BY <3>4, <5>1 DEF Holds, Complete
        <5> QED
          BY <3>3, <5>1, <5>2
      <4> QED
        BY <1>4, <4>1, <4>2
    <3> QED
      BY <3>1, <3>3, <3>4, <3>5, <3>6 DEF Holds
  <2> QED
    BY <2>2, <2>3
<1>15. Holds(r, n)' <=> Complete(sz, blocks)
  BY <1>10 DEF Holds
<1> QED
  BY <1>1, <1>5, <1>6, <1>7, <1>8, <1>9, <1>10, <1>12, <1>14, <1>15

(* A step of the sender that neither takes up, asks about nor frees a slice *)
LEMMA SameSlices ==
    ASSUME IInv, UNCHANGED <<receiverVars, faults, sliceNo, atEnd>>,
           participants' \subseteq participants,
           pc' \in {"top", "messages", "make", "done"},
           pc' \in {"messages", "make"} =>
              pc \in {"messages", "make"} /\ xmit'.state = xmit.state,
           xmit' \in SliceType, rexmit' \in SliceType, CountsAgree',
           xmit = NoSlice => xmit' = NoSlice,
           rexmit = NoSlice => rexmit' = NoSlice,
           xmit'.no = xmit.no, xmit'.blocks = xmit.blocks,
           rexmit'.no = rexmit.no, rexmit'.blocks = rexmit.blocks,
           xmit # NoSlice => /\ xmit'.state \in {"new", "xmitted"}
                             /\ xmit'.ready = {} /\ xmit'.answered = {}
                             /\ xmit'.nextBlock <= xmit'.blocks,
           \A r \in rexmit'.ready : Holds(r, rexmit.no),
           toSender' = [r \in Receivers |-> toSender'[r]],
           \A r \in Receivers : Shuffled(toSender[r], toSender'[r]),
           toReceiver' = [r \in Receivers |-> toReceiver'[r]],
           \A f : FileIs(f) =>
              \A r \in Receivers : toReceiver'[r] \in Seq(PacketsOf(f))
    PROVE  IInv' /\ Acked' = Acked
<1>1. /\ xmit = NoSlice <=> xmit' = NoSlice
      /\ rexmit = NoSlice <=> rexmit' = NoSlice
  BY SlotEmpty DEF NoSlice
<1>2. Unasked' = Unasked /\ Acked' = Acked
  BY <1>1 DEF Unasked, Acked
<1>3. SlotInv'
  <2>1. xmit' # NoSlice => /\ xmit'.no = sliceNo' - 1 /\ xmit'.no \in SliceNos
                           /\ xmit'.state \in {"new", "xmitted"}
                           /\ xmit'.ready = {} /\ xmit'.answered = {}
                           /\ xmit'.nextBlock <= xmit'.blocks
    BY <1>1 DEF IInv, SlotInv
  <2>2. rexmit' # NoSlice => rexmit'.no = Unasked' - 1 /\ rexmit'.no \in SliceNos
    BY <1>1, <1>2 DEF IInv, SlotInv
  <2>3. ~SN => xmit' = NoSlice \/ rexmit' = NoSlice
    BY <1>1 DEF IInv, SlotInv
  <2>4. pc' \in {"messages", "make"} /\ rexmit' = NoSlice => xmit'.state # "xmitted"
    BY <1>1 DEF IInv, SlotInv
  <2>5. sliceNo' = NrSlices + 1 => atEnd'
    BY DEF IInv, SlotInv
  <2> QED
    BY <2>1, <2>2, <2>3, <2>4, <2>5 DEF SlotInv
<1>4. PICK f \in [SliceNos -> BlockCounts \cup {0}] : FileIs(f)
  BY DEF IInv, FileInv
<1>5. PacketsOf(f)' = PacketsOf(f)
  BY <1>2 DEF PacketsOf
<1>6. FileInv'
  <2>1. FileIs(f)'
    BY <1>1, <1>4, <1>5 DEF FileIs, receiverVars
  <2> QED
    BY <2>1 DEF FileInv
<1>7. toReceiver' \in [Receivers -> Seq(PacketType)]
  <2>1. \A r \in Receivers : toReceiver'[r] \in Seq(PacketType)
    <3> TAKE r \in Receivers
    <3>1. toReceiver'[r] \in Seq(PacketsOf(f)) /\ PacketsOf(f) \subseteq PacketType
      BY <1>4 DEF PacketsOf
    <3> QED
      BY <3>1, SeqMonotonic
  <2> QED
    BY <2>1
<1>8. AckedMeansReceived'
  BY <1>2 DEF IInv, AckedMeansReceived, receiverVars
<1>9. sliceNo' \in sliceNo .. NrSlices + 1 /\ atEnd' \in BOOLEAN
  BY BoundsAssumption DEF IInv, TypeOK
<1>10. Unasked' >= Unasked
  BY <1>2, Numbers DEF IInv
<1>11. \A r \in rexmit'.ready : Holds(r, rexmit'.no)
  OBVIOUS
<1>12. IInv'
  BY <1>3, <1>6, <1>7, <1>8, <1>9, <1>10, <1>11, SenderStep
<1> QED
  BY <1>2, <1>12

(* handleNextMessage takes an answer that the sender may trust. *)
LEMMA HandleFacts ==
    ASSUME IInv, NEW r \in Receivers, NEW kind, Handle(r, kind)
    PROVE  /\ Head(toSender[r]) \in AnswersOf(r)
           /\ Head(toSender[r]) \in AnswerType
           /\ Head(toSender[r]).kind = kind
           /\ toSender' = [q \in Receivers |-> toSender'[q]]
           /\ \A q \in Receivers : Shuffled(toSender[q], toSender'[q])
           /\ UNCHANGED <<receiverVars, faults, sliceNo, atEnd, toReceiver>>
<1>1. /\ toSender[r] # << >> /\ Head(toSender[r]).kind = kind
      /\ toSender' = [toSender EXCEPT ![r] = Tail(@)]
      /\ UNCHANGED <<receiverVars, faults, sliceNo, atEnd, toReceiver>>
  BY DEF Handle
<1>2. toSender[r] \in Seq(AnswersOf(r)) /\ AnswersOf(r) \subseteq AnswerType
  BY DEF IInv, AnswerInv, AnswersOf
<1>3. Head(toSender[r]) \in AnswersOf(r) /\ Shuffled(toSender[r], Tail(toSender[r]))
  BY <1>1, <1>2, TailShuffled
<1>4. toSender \in [Receivers -> Seq(AnswerType)]
  BY DEF IInv, TypeOK
<1>5. \A q \in Receivers : Shuffled(toSender[q], toSender'[q])
  BY <1>1, <1>3, <1>4 DEF Shuffled
<1> QED
  BY <1>1, <1>2, <1>3, <1>4, <1>5

(* Packets that are only shuffled, or left alone, are still of the file. *)
LEMMA SamePackets ==
    ASSUME UNCHANGED toReceiver, NEW f, FileIs(f)
    PROVE  \A r \in Receivers : toReceiver'[r] \in Seq(PacketsOf(f))
  BY DEF FileIs

(* LoopAgain goes to the top or leaves the loop. *)
LEMMA LoopAgainFacts ==
    ASSUME NEW left, LoopAgain(left)
    PROVE  pc' \in {"top", "done"}
  BY DEF LoopAgain

-----------------------------------------------------------------------------
(* The steps of the sender                                                  *)

(* An answer is never for the slice being transmitted: nobody was asked. *)
LEMMA NotInXmit ==
    ASSUME IInv, NEW r, NEW a \in AnswersOf(r), a.kind # "disconnect"
    PROVE  ~InXmit(a.no) /\ a.no \in SliceNos
<1>1. a.no < Unasked /\ a.no \in SliceNos
  BY DEF AnswersOf, AnswerType
<1>2. a.no \in Int /\ a.no >= 0
  BY <1>1, BoundsAssumption DEF SliceNos
<1>3. CASE xmit = NoSlice
  BY <1>1, <1>2, <1>3 DEF InXmit, NoSlice
<1>4. CASE xmit # NoSlice
  BY <1>1, <1>2, <1>4 DEF InXmit, Unasked
<1> QED
  BY <1>1, <1>3, <1>4

(* handleOk: the client really holds the slice, so it may count as ready. *)
LEMMA HandleOkStep ==
    ASSUME IInv, NEW r \in Receivers, HandleOk(r)
    PROVE  IInv' /\ Acked' = Acked
<1> DEFINE m == Head(toSender[r])
<1>1. Handle(r, "ok") /\ LoopAgain(participants) /\ participants' = participants
  BY DEF HandleOk
<1>2. /\ m \in AnswersOf(r) /\ m.kind = "ok"
      /\ toSender' = [q \in Receivers |-> toSender'[q]]
      /\ \A q \in Receivers : Shuffled(toSender[q], toSender'[q])
      /\ UNCHANGED <<receiverVars, faults, sliceNo, atEnd, toReceiver>>
  BY <1>1, HandleFacts
<1>3. ~InXmit(m.no) /\ m.no \in SliceNos /\ Holds(r, m.no)
  BY <1>2, NotInXmit DEF AnswersOf
<1>4. xmit' = xmit
  BY <1>3 DEF HandleOk
<1>5. \/ rexmit' = rexmit
      \/ /\ r \in participants /\ rexmit.no = m.no
         /\ rexmit' = MarkReady(rexmit, r)
  BY DEF HandleOk, InRexmit
<1>6. rexmit \in SliceType /\ SliceCounts(rexmit) /\ SliceCounts(xmit)
  BY DEF IInv, TypeOK, CountsAgree
<1>7. /\ rexmit' \in SliceType
      /\ rexmit'.no = rexmit.no /\ rexmit'.blocks = rexmit.blocks
      /\ rexmit = NoSlice => rexmit' = NoSlice
      /\ \A q \in rexmit'.ready : q \in rexmit.ready \/ (q = r /\ rexmit.no = m.no)
      /\ SliceCounts(rexmit)'
  <2>1. CASE rexmit' = rexmit
    BY <1>1, <1>6, <2>1 DEF SliceCounts
  <2>2. CASE /\ r \in participants /\ rexmit.no = m.no
             /\ rexmit' = MarkReady(rexmit, r)
    <3>1. /\ MarkReady(rexmit, r) \in SliceType /\ SliceCounts(MarkReady(rexmit, r))
          /\ MarkReady(rexmit, r).no = rexmit.no
          /\ MarkReady(rexmit, r).blocks = rexmit.blocks
          /\ MarkReady(rexmit, r).ready = rexmit.ready \cup {r}
      BY <1>6, <2>2, MarkReadyFacts
    <3>2. rexmit # NoSlice
      BY <1>3, <2>2, BoundsAssumption DEF NoSlice, SliceNos
    <3> QED
      BY <1>1, <2>2, <3>1, <3>2 DEF SliceCounts
  <2> QED
    BY <1>5, <2>1, <2>2
<1>8. CountsAgree'
  BY <1>1, <1>4, <1>6, <1>7 DEF CountsAgree, SliceCounts
<1>9. \A q \in rexmit'.ready : Holds(q, rexmit.no)
  BY <1>3, <1>7 DEF IInv, AnswerInv
<1>10. pc' \in {"top", "done"}
  BY <1>1, LoopAgainFacts
<1>11. /\ xmit' \in SliceType
       /\ xmit # NoSlice => /\ xmit'.state \in {"new", "xmitted"}
                            /\ xmit'.ready = {} /\ xmit'.answered = {}
                            /\ xmit'.nextBlock <= xmit'.blocks
  BY <1>4 DEF IInv, TypeOK, SlotInv
<1>12. toReceiver' = [q \in Receivers |-> toReceiver'[q]]
  BY <1>2 DEF IInv, TypeOK
<1>13. \A f : FileIs(f) =>
          \A q \in Receivers : toReceiver'[q] \in Seq(PacketsOf(f))
  BY <1>2, SamePackets
<1> HIDE DEF m
<1> QED
  BY <1>1, <1>2, <1>4, <1>7, <1>8, <1>9, <1>10, <1>11, <1>12, <1>13, SameSlices

(* handleRetransmit: nobody becomes ready. *)
LEMMA HandleRetransmitStep ==
    ASSUME IInv, NEW r \in Receivers, HandleRetransmit(r)
    PROVE  IInv' /\ Acked' = Acked
<1> DEFINE m == Head(toSender[r])
<1>1. /\ Handle(r, "retransmit") /\ LoopAgain(participants)
      /\ participants' = participants
  BY DEF HandleRetransmit
<1>2. /\ m \in AnswersOf(r) /\ m \in AnswerType /\ m.kind = "retransmit"
      /\ toSender' = [q \in Receivers |-> toSender'[q]]
      /\ \A q \in Receivers : Shuffled(toSender[q], toSender'[q])
      /\ UNCHANGED <<receiverVars, faults, sliceNo, atEnd, toReceiver>>
  BY <1>1, HandleFacts
<1>3. ~InXmit(m.no) /\ m.no \in SliceNos /\ m.missing \in SUBSET Nat
  BY <1>2, NotInXmit DEF AnswerType
<1>4. xmit' = xmit
  BY <1>3 DEF HandleRetransmit
<1>5. \/ rexmit' = rexmit
      \/ rexmit.no = m.no /\ rexmit' = MarkMissing(rexmit, r, m.missing)
  BY DEF HandleRetransmit, InRexmit
<1>6. rexmit \in SliceType /\ SliceCounts(rexmit) /\ SliceCounts(xmit)
  BY DEF IInv, TypeOK, CountsAgree
<1>7. /\ rexmit' \in SliceType
      /\ rexmit'.no = rexmit.no /\ rexmit'.blocks = rexmit.blocks
      /\ rexmit = NoSlice => rexmit' = NoSlice
      /\ rexmit'.ready = rexmit.ready
      /\ SliceCounts(rexmit)'
  <2>1. CASE rexmit' = rexmit
    BY <1>1, <1>6, <2>1 DEF SliceCounts
  <2>2. CASE rexmit.no = m.no /\ rexmit' = MarkMissing(rexmit, r, m.missing)
    <3> DEFINE new == MarkMissing(rexmit, r, m.missing)
    <3>1. /\ new \in SliceType /\ SliceCounts(new)
          /\ new.no = rexmit.no /\ new.blocks = rexmit.blocks
          /\ new.ready = rexmit.ready
      BY <1>3, <1>6, MarkMissingFacts
    <3>2. rexmit # NoSlice
      BY <1>3, <2>2, BoundsAssumption DEF NoSlice, SliceNos
    <3>3. rexmit' = new
      BY <2>2
    <3> HIDE DEF new
    <3> QED
      BY <1>1, <3>1, <3>2, <3>3 DEF SliceCounts
  <2> QED
    BY <1>5, <2>1, <2>2
<1>8. CountsAgree'
  BY <1>1, <1>4, <1>6, <1>7 DEF CountsAgree, SliceCounts
<1>9. \A q \in rexmit'.ready : Holds(q, rexmit.no)
  BY <1>7 DEF IInv, AnswerInv
<1>10. pc' \in {"top", "done"}
  BY <1>1, LoopAgainFacts
<1>11. /\ xmit' \in SliceType
       /\ xmit # NoSlice => /\ xmit'.state \in {"new", "xmitted"}
                            /\ xmit'.ready = {} /\ xmit'.answered = {}
                            /\ xmit'.nextBlock <= xmit'.blocks
  BY <1>4 DEF IInv, TypeOK, SlotInv
<1>12. toReceiver' = [q \in Receivers |-> toReceiver'[q]]
  BY <1>2 DEF IInv, TypeOK
<1>13. \A f : FileIs(f) =>
          \A q \in Receivers : toReceiver'[q] \in Seq(PacketsOf(f))
  BY <1>2, SamePackets
<1> HIDE DEF m
<1> QED
  BY <1>1, <1>2, <1>4, <1>7, <1>8, <1>9, <1>10, <1>11, <1>12, <1>13, SameSlices

(* handleDisconnect: the client leaves both slots and the participants. *)
LEMMA HandleDisconnectStep ==
    ASSUME IInv, NEW r \in Receivers, HandleDisconnect(r)
    PROVE  IInv' /\ Acked' = Acked
<1>1. /\ Handle(r, "disconnect") /\ LoopAgain(participants')
      /\ participants' = participants \ {r}
      /\ xmit' = Forget(xmit, r) /\ rexmit' = Forget(rexmit, r)
  BY DEF HandleDisconnect
<1>2. /\ toSender' = [q \in Receivers |-> toSender'[q]]
      /\ \A q \in Receivers : Shuffled(toSender[q], toSender'[q])
      /\ UNCHANGED <<receiverVars, faults, sliceNo, atEnd, toReceiver>>
  BY <1>1, HandleFacts
<1>3. /\ rexmit \in SliceType /\ SliceCounts(rexmit)
      /\ xmit \in SliceType /\ SliceCounts(xmit)
  BY DEF IInv, TypeOK, CountsAgree
<1>4. /\ xmit' \in SliceType
      /\ xmit'.nrReady = Cardinality(xmit.ready \ {r})
      /\ xmit'.nrAnswered = Cardinality(xmit.answered \ {r})
      /\ xmit'.ready = xmit.ready \ {r} /\ xmit'.answered = xmit.answered \ {r}
      /\ xmit'.no = xmit.no /\ xmit'.blocks = xmit.blocks
      /\ xmit'.state = xmit.state /\ xmit'.nextBlock = xmit.nextBlock
  BY <1>1, <1>3, ForgetFacts
<1>5. /\ rexmit' \in SliceType
      /\ rexmit'.nrReady = Cardinality(rexmit.ready \ {r})
      /\ rexmit'.nrAnswered = Cardinality(rexmit.answered \ {r})
      /\ rexmit'.ready = rexmit.ready \ {r}
      /\ rexmit'.answered = rexmit.answered \ {r}
      /\ rexmit'.no = rexmit.no /\ rexmit'.blocks = rexmit.blocks
  BY <1>1, <1>3, ForgetFacts
<1>6. /\ xmit = NoSlice => xmit' = NoSlice
      /\ rexmit = NoSlice => rexmit' = NoSlice
  BY <1>1, ForgetNoSlice
<1>7. CountsAgree'
  <2>1. SliceCounts(xmit)'
    BY <1>1, <1>3, <1>4 DEF SliceCounts
  <2>2. SliceCounts(rexmit)'
    BY <1>1, <1>3, <1>5 DEF SliceCounts
  <2> QED
    BY <2>1, <2>2 DEF CountsAgree
<1>8. \A q \in rexmit'.ready : Holds(q, rexmit.no)
  BY <1>5 DEF IInv, AnswerInv
<1>9. pc' \in {"top", "done"}
  BY <1>1, LoopAgainFacts
<1>10. xmit # NoSlice => /\ xmit'.state \in {"new", "xmitted"}
                         /\ xmit'.ready = {} /\ xmit'.answered = {}
                         /\ xmit'.nextBlock <= xmit'.blocks
  BY <1>4 DEF IInv, SlotInv
<1>11. toReceiver' = [q \in Receivers |-> toReceiver'[q]]
  BY <1>2 DEF IInv, TypeOK
<1>12. \A f : FileIs(f) =>
          \A q \in Receivers : toReceiver'[q] \in Seq(PacketsOf(f))
  BY <1>2, SamePackets
<1>13. participants' \subseteq participants
  BY <1>1
<1> QED
  BY <1>2, <1>4, <1>5, <1>6, <1>7, <1>8, <1>9, <1>10, <1>11, <1>12, <1>13,
     SameSlices

(* A packet that is sent joins those under way to every live receiver. *)
LEMMA BroadcastFacts ==
    ASSUME NEW P, NEW packets \in Seq(P), Broadcast(packets)
    PROVE  /\ toReceiver' = [r \in Receivers |-> toReceiver'[r]]
           /\ \A r \in Receivers : toReceiver[r] \in Seq(P) => toReceiver'[r] \in Seq(P)
<1>1. toReceiver' = [r \in Receivers |->
                       IF Live(r) THEN toReceiver[r] \o packets ELSE << >>]
  BY DEF Broadcast
<1>2. \A r \in Receivers : toReceiver[r] \in Seq(P) =>
         toReceiver[r] \o packets \in Seq(P)
  BY ConcatProperties
<1>3. << >> \in Seq(P)
  BY EmptySeq
<1> QED
  BY <1>1, <1>2, <1>3

(* A REQACK for a slice that was asked about tells of the file. *)
LEMMA ReqAckFacts ==
    ASSUME IInv, NEW sl \in SliceType, sl.no = rexmit.no,
           sl.blocks = rexmit.blocks, rexmit # NoSlice, NEW f, FileIs(f)
    PROVE  <<ReqAck(sl)>> \in Seq(PacketsOf(f))
<1>1. /\ sl.no \in SliceNos /\ sl.no < Unasked /\ sl.no < sliceNo
      /\ sl.blocks = f[sl.no]
  <2>1. sl.no = Unasked - 1 /\ sl.no \in SliceNos /\ sl.blocks = f[sl.no]
    BY DEF IInv, SlotInv, FileIs
  <2>2. Unasked \in Int /\ sliceNo \in Int /\ Unasked \in {sliceNo - 1, sliceNo}
    BY Numbers, Order DEF IInv
  <2> QED
    BY <2>1, <2>2
<1>2. ReqAck(sl) \in PacketType
  BY <1>1 DEF ReqAck, PacketType, SliceType
<1>3. ReqAck(sl).no = sl.no /\ ReqAck(sl).blocks = sl.blocks
  BY DEF ReqAck
<1> QED
  BY <1>1, <1>2, <1>3 DEF PacketsOf

(* sendReqack for the slice in the retransmission slot *)
LEMMA AskAgainFacts ==
    ASSUME IInv
    PROVE  /\ AskAgain \in SliceType /\ SliceCounts(AskAgain)
           /\ AskAgain.no = rexmit.no /\ AskAgain.blocks = rexmit.blocks
           /\ AskAgain.ready = rexmit.ready
<1> DEFINE asked == Asked(rexmit)
<1>1. rexmit \in SliceType /\ SliceCounts(rexmit)
  BY DEF IInv, TypeOK, CountsAgree
<1>2. /\ asked \in SliceType /\ SliceCounts(asked)
      /\ asked.no = rexmit.no /\ asked.blocks = rexmit.blocks
      /\ asked.ready = rexmit.ready
  BY <1>1, AskedFacts
<1>3. AskAgain = [asked EXCEPT !.rxmitId = @ + 1]
  BY DEF AskAgain
<1> HIDE DEF asked
<1> QED
  BY <1>2, <1>3 DEF SliceType, SliceCounts

(* Asking once more, because everybody answered or nobody did *)
LEMMA AskAgainStep ==
    ASSUME IInv, rexmit # NoSlice, rexmit' = AskAgain,
           Broadcast(<<ReqAck(AskAgain)>>),
           pc' \in {"top", "make", "done"}, pc' = "make" => pc \in {"messages", "make"},
           UNCHANGED <<participants, xmit, sliceNo, atEnd, receiverVars,
                       toSender, faults>>
    PROVE  IInv' /\ Acked' = Acked
<1>1. /\ AskAgain \in SliceType /\ SliceCounts(AskAgain)
      /\ AskAgain.no = rexmit.no /\ AskAgain.blocks = rexmit.blocks
      /\ AskAgain.ready = rexmit.ready
  BY AskAgainFacts
<1>2. /\ rexmit' \in SliceType
      /\ rexmit'.no = rexmit.no /\ rexmit'.blocks = rexmit.blocks
      /\ rexmit'.ready = rexmit.ready
  BY <1>1
<1>3. CountsAgree'
  BY <1>1 DEF IInv, CountsAgree, SliceCounts
<1>4. \A q \in rexmit'.ready : Holds(q, rexmit.no)
  BY <1>2 DEF IInv, AnswerInv
<1>5. /\ xmit' \in SliceType
      /\ xmit # NoSlice => /\ xmit'.state \in {"new", "xmitted"}
                           /\ xmit'.ready = {} /\ xmit'.answered = {}
                           /\ xmit'.nextBlock <= xmit'.blocks
  BY DEF IInv, TypeOK, SlotInv
<1>6. /\ toSender' = [q \in Receivers |-> toSender'[q]]
      /\ \A q \in Receivers : Shuffled(toSender[q], toSender'[q])
  BY DEF IInv, TypeOK, Shuffled
<1>7. PICK f \in [SliceNos -> BlockCounts \cup {0}] : FileIs(f)
  BY DEF IInv, FileInv
<1>8. toReceiver' = [r \in Receivers |-> toReceiver'[r]]
  <2>1. <<ReqAck(AskAgain)>> \in Seq(PacketsOf(f))
    BY <1>1, <1>7, ReqAckFacts
  <2> QED
    BY <2>1, BroadcastFacts
<1>9. \A g : FileIs(g) =>
         \A q \in Receivers : toReceiver'[q] \in Seq(PacketsOf(g))
  <2> SUFFICES ASSUME NEW g, FileIs(g)
               PROVE  \A q \in Receivers : toReceiver'[q] \in Seq(PacketsOf(g))
    OBVIOUS
  <2>1. <<ReqAck(AskAgain)>> \in Seq(PacketsOf(g))
    BY <1>1, ReqAckFacts
  <2>2. \A q \in Receivers : toReceiver[q] \in Seq(PacketsOf(g))
    BY DEF FileIs
  <2> QED
    BY <2>1, <2>2, BroadcastFacts
<1> QED
  BY <1>2, <1>3, <1>4, <1>5, <1>6, <1>8, <1>9, SameSlices

(* A step that touches no slice and no packet *)
LEMMA IdleStep ==
    ASSUME IInv, pc' \in {"top", "messages", "make", "done"},
           pc' \in {"messages", "make"} => pc \in {"messages", "make"},
           UNCHANGED <<senderVars, receiverVars, toReceiver, toSender, faults>>
    PROVE  IInv' /\ Acked' = Acked
<1>1. CountsAgree'
  BY DEF IInv, CountsAgree, SliceCounts, senderVars
<1>2. \A q \in rexmit'.ready : Holds(q, rexmit.no)
  BY DEF IInv, AnswerInv, senderVars
<1>3. /\ xmit' \in SliceType /\ rexmit' \in SliceType
      /\ xmit # NoSlice => /\ xmit'.state \in {"new", "xmitted"}
                           /\ xmit'.ready = {} /\ xmit'.answered = {}
                           /\ xmit'.nextBlock <= xmit'.blocks
  BY DEF IInv, TypeOK, SlotInv, senderVars
<1>4. /\ toSender' = [q \in Receivers |-> toSender'[q]]
      /\ \A q \in Receivers : Shuffled(toSender[q], toSender'[q])
      /\ toReceiver' = [q \in Receivers |-> toReceiver'[q]]
  BY DEF IInv, TypeOK, Shuffled
<1>5. \A f : FileIs(f) =>
         \A q \in Receivers : toReceiver'[q] \in Seq(PacketsOf(f))
  BY SamePackets
<1> QED
  BY <1>1, <1>2, <1>3, <1>4, <1>5, SameSlices DEF senderVars

(* Where the loop waits, an unacknowledged slice is there to wait for. *)
LEMMA WaitingFacts == IInv => WaitHasSlice
  BY DEF IInv, SlotInv, WaitHasSlice, Waiting, PipeFree

(* Nothing to handle or retransmit: ask again if everybody answered. *)
LEMMA ProceedStep == IInv /\ Proceed => IInv' /\ Acked' = Acked
<1> SUFFICES ASSUME IInv, Proceed PROVE IInv' /\ Acked' = Acked
  OBVIOUS
<1>1. /\ pc = "messages" /\ pc' = "make"
      /\ UNCHANGED <<participants, xmit, sliceNo, atEnd, receiverVars, toSender,
                     faults>>
  BY DEF Proceed
<1>2. CASE rexmit # NoSlice /\ rexmit.nrAnswered = Cardinality(participants)
  <2>1. rexmit' = AskAgain /\ Broadcast(<<ReqAck(AskAgain)>>)
    BY <1>2 DEF Proceed
  <2> QED
    BY <1>1, <1>2, <2>1, AskAgainStep
<1>3. CASE ~(rexmit # NoSlice /\ rexmit.nrAnswered = Cardinality(participants))
  <2>1. UNCHANGED <<rexmit, toReceiver>>
    BY <1>3 DEF Proceed
  <2> QED
    BY <1>1, <2>1, IdleStep DEF senderVars
<1> QED
  BY <1>2, <1>3

(* The loop ends after the last slice. *)
LEMMA FinishStep == IInv /\ Finish => IInv' /\ Acked' = Acked
  BY IdleStep DEF Finish

(* Nobody is ready for the slice being transmitted, so those who are dropped
   leave no trace in either slot. *)
LEMMA TimeOutStep == IInv /\ TimeOut => IInv' /\ Acked' = Acked
<1> SUFFICES ASSUME IInv, TimeOut PROVE IInv' /\ Acked' = Acked
  OBVIOUS
<1>1. /\ pc' \in {"top", "done"} /\ rexmit # NoSlice
      /\ UNCHANGED <<xmit, sliceNo, atEnd, receiverVars, toSender, faults>>
  BY WaitingFacts, LoopAgainFacts DEF TimeOut, WaitHasSlice
<1>2. CASE rexmit.rxmitId > Retries
  <2>1. /\ participants' = participants \ Dropped
        /\ UNCHANGED <<rexmit, toReceiver>>
    BY <1>2 DEF TimeOut
  <2>2. CountsAgree'
    <3>1. rexmit.ready \subseteq participants'
      BY <2>1 DEF IInv, CountsAgree, SliceCounts, Dropped
    <3>2. xmit.ready = {}
      BY DEF IInv, SlotInv, NoSlice
    <3> QED
      BY <1>1, <2>1, <3>1, <3>2 DEF IInv, CountsAgree, SliceCounts
  <2>3. \A q \in rexmit'.ready : Holds(q, rexmit.no)
    BY <2>1 DEF IInv, AnswerInv
  <2>4. /\ xmit' \in SliceType /\ rexmit' \in SliceType
        /\ xmit # NoSlice => /\ xmit'.state \in {"new", "xmitted"}
                             /\ xmit'.ready = {} /\ xmit'.answered = {}
                             /\ xmit'.nextBlock <= xmit'.blocks
    BY <1>1, <2>1 DEF IInv, TypeOK, SlotInv
  <2>5. /\ toSender' = [q \in Receivers |-> toSender'[q]]
        /\ \A q \in Receivers : Shuffled(toSender[q], toSender'[q])
        /\ toReceiver' = [q \in Receivers |-> toReceiver'[q]]
    BY <1>1, <2>1 DEF IInv, TypeOK, Shuffled
  <2>6. \A f : FileIs(f) =>
           \A q \in Receivers : toReceiver'[q] \in Seq(PacketsOf(f))
    BY <2>1, SamePackets
  <2> QED
    BY <1>1, <2>1, <2>2, <2>3, <2>4, <2>5, <2>6, SameSlices
<1>3. CASE ~(rexmit.rxmitId > Retries)
  <2>1. /\ rexmit' = AskAgain /\ Broadcast(<<ReqAck(AskAgain)>>)
        /\ UNCHANGED participants
    BY <1>3 DEF TimeOut
  <2> QED
    BY <1>1, <2>1, AskAgainStep
<1> QED
  BY <1>2, <1>3

(* A block of a slice in either slot is a packet of the file. *)
LEMMA DataFacts ==
    ASSUME IInv, NEW sl \in {xmit, rexmit}, sl # NoSlice, NEW b \in Nat,
           NEW f, FileIs(f)
    PROVE  Data(sl, b) \in PacketsOf(f)
<1>1. sl \in SliceType /\ sl.no \in SliceNos /\ sl.blocks = f[sl.no]
  BY DEF IInv, TypeOK, SlotInv, FileIs
<1>2. sl.no < sliceNo
  <2>1. Unasked \in Int /\ sliceNo \in Int /\ Unasked \in {sliceNo - 1, sliceNo}
    BY Numbers, Order DEF IInv
  <2>2. sl.no \in {sliceNo - 1, Unasked - 1}
    BY DEF IInv, SlotInv
  <2> QED
    BY <2>1, <2>2
<1>3. Data(sl, b) \in PacketType
  BY <1>1 DEF Data, PacketType, SliceType
<1> QED
  BY <1>1, <1>2, <1>3 DEF Data, PacketsOf

(* doRetransmissions sends blocks of the slice that was asked about. *)
LEMMA RetransmitStep == IInv /\ Retransmit => IInv' /\ Acked' = Acked
<1> SUFFICES ASSUME IInv, Retransmit PROVE IInv' /\ Acked' = Acked
  OBVIOUS
<1> DEFINE resent == (rexmit.rxmitMap \cap 0 .. rexmit.blocks - 1)
                        \ rexmit.isXmittedMap
           packets(s) == [i \in 1 .. Cardinality(resent) |-> Data(rexmit, s[i])]
<1>1. PICK s \in Ascending(resent) : Broadcast(packets(s))
  BY DEF Retransmit
<1>2. /\ rexmit' = [rexmit EXCEPT !.needRxmit = FALSE,
                                  !.isXmittedMap = @ \cup resent]
      /\ pc' \in {"top", "done"}
      /\ UNCHANGED <<participants, xmit, sliceNo, atEnd, receiverVars, toSender,
                     faults>>
  BY LoopAgainFacts DEF Retransmit
<1>3. rexmit \in SliceType /\ SliceCounts(rexmit) /\ rexmit # NoSlice
  BY DEF IInv, TypeOK, CountsAgree, Retransmit, NoSlice
<1>4. resent \in SUBSET Nat
  BY <1>3 DEF SliceType
<1>5. Cardinality(resent) \in Nat
  <2>1. IsFiniteSet(0 .. rexmit.blocks - 1)
    BY <1>3, FS_Interval DEF SliceType
  <2> QED
    BY <2>1, FS_Subset, FS_CardinalityType
<1>6. \A i \in 1 .. Cardinality(resent) : s[i] \in Nat
  BY <1>1, <1>4 DEF Ascending
<1>7. \A f : FileIs(f) => packets(s) \in Seq(PacketsOf(f))
  <2> SUFFICES ASSUME NEW f, FileIs(f)
               PROVE  packets(s) \in Seq(PacketsOf(f))
    OBVIOUS
  <2>1. \A i \in 1 .. Cardinality(resent) : Data(rexmit, s[i]) \in PacketsOf(f)
    BY <1>3, <1>6, DataFacts
  <2> HIDE DEF resent
  <2> QED
    BY <1>5, <2>1
<1>8. /\ rexmit' \in SliceType
      /\ rexmit'.no = rexmit.no /\ rexmit'.blocks = rexmit.blocks
      /\ rexmit'.ready = rexmit.ready /\ rexmit'.answered = rexmit.answered
      /\ rexmit'.nrReady = rexmit.nrReady
      /\ rexmit'.nrAnswered = rexmit.nrAnswered
  <2>1. rexmit.isXmittedMap \cup resent \in SUBSET Nat
    BY <1>3, <1>4 DEF SliceType
  <2> HIDE DEF resent
  <2> QED
    BY <1>2, <1>3, <2>1 DEF SliceType
<1> HIDE DEF resent, packets
<1>9. CountsAgree'
  BY <1>2, <1>8 DEF IInv, CountsAgree, SliceCounts
<1>10. \A q \in rexmit'.ready : Holds(q, rexmit.no)
  BY <1>8 DEF IInv, AnswerInv
<1>11. /\ xmit' \in SliceType
       /\ xmit # NoSlice => /\ xmit'.state \in {"new", "xmitted"}
                            /\ xmit'.ready = {} /\ xmit'.answered = {}
                            /\ xmit'.nextBlock <= xmit'.blocks
  BY <1>2 DEF IInv, TypeOK, SlotInv
<1>12. /\ toSender' = [q \in Receivers |-> toSender'[q]]
       /\ \A q \in Receivers : Shuffled(toSender[q], toSender'[q])
  BY <1>2 DEF IInv, TypeOK, Shuffled
<1>13. PICK f \in [SliceNos -> BlockCounts \cup {0}] : FileIs(f)
  BY DEF IInv, FileInv
<1>14. toReceiver' = [q \in Receivers |-> toReceiver'[q]]
  BY <1>1, <1>7, <1>13, BroadcastFacts
<1>15. \A g : FileIs(g) =>
          \A q \in Receivers : toReceiver'[q] \in Seq(PacketsOf(g))
  BY <1>1, <1>7, BroadcastFacts DEF FileIs
<1> QED
  BY <1>2, <1>3, <1>8, <1>9, <1>10, <1>11, <1>12, <1>14, <1>15, SameSlices

(* sendSlice sends blocks of the slice just made. *)
LEMMA SendSliceStep == IInv /\ SendSlice => IInv' /\ Acked' = Acked
<1> SUFFICES ASSUME IInv, SendSlice PROVE IInv' /\ Acked' = Acked
  OBVIOUS
<1> DEFINE packets(n) == [i \in 1 .. n - xmit.nextBlock |->
                             Data(xmit, xmit.nextBlock + i - 1)]
<1>1. PICK n \in xmit.nextBlock .. xmit.blocks :
         /\ xmit' = [xmit EXCEPT !.nextBlock = n,
                                 !.state = IF n = xmit.blocks THEN "xmitted" ELSE @]
         /\ Broadcast(packets(n))
  BY DEF SendSlice
<1>2. /\ pc' \in {"top", "done"}
      /\ UNCHANGED <<participants, rexmit, sliceNo, atEnd, receiverVars, toSender,
                     faults>>
  BY LoopAgainFacts DEF SendSlice
<1>3. /\ xmit \in SliceType /\ SliceCounts(xmit) /\ xmit # NoSlice
      /\ xmit.state = "new" /\ xmit.ready = {} /\ xmit.answered = {}
  BY DEF IInv, TypeOK, CountsAgree, SlotInv, SendSlice, NoSlice
<1>4. n \in Nat /\ xmit.nextBlock \in Nat /\ n - xmit.nextBlock \in Nat
  BY <1>3 DEF SliceType
<1>5. \A f : FileIs(f) => packets(n) \in Seq(PacketsOf(f))
  <2> SUFFICES ASSUME NEW f, FileIs(f)
               PROVE  packets(n) \in Seq(PacketsOf(f))
    OBVIOUS
  <2>1. \A i \in 1 .. n - xmit.nextBlock :
           Data(xmit, xmit.nextBlock + i - 1) \in PacketsOf(f)
    <3> TAKE i \in 1 .. n - xmit.nextBlock
    <3>1. xmit.nextBlock + i - 1 \in Nat
      BY <1>4
    <3> QED
      BY <1>3, <3>1, DataFacts
  <2> DEFINE len == n - xmit.nextBlock
             packet(i) == Data(xmit, xmit.nextBlock + i - 1)
  <2>2. len \in Nat /\ \A i \in 1 .. len : packet(i) \in PacketsOf(f)
    BY <1>4, <2>1
  <2>3. packets(n) = [i \in 1 .. len |-> packet(i)]
    OBVIOUS
  <2> HIDE DEF len, packet, packets
  <2>4. [i \in 1 .. len |-> packet(i)] \in Seq(PacketsOf(f))
    BY <2>2
  <2> QED
    BY <2>3, <2>4
<1>6. /\ xmit' \in SliceType
      /\ xmit'.no = xmit.no /\ xmit'.blocks = xmit.blocks
      /\ xmit'.ready = xmit.ready /\ xmit'.answered = xmit.answered
      /\ xmit'.nrReady = xmit.nrReady /\ xmit'.nrAnswered = xmit.nrAnswered
      /\ xmit'.state \in {"new", "xmitted"} /\ xmit'.nextBlock <= xmit'.blocks
  <2> DEFINE state == IF n = xmit.blocks THEN "xmitted" ELSE xmit.state
  <2>1. state \in {"new", "xmitted"}
    BY <1>3
  <2>2. xmit' = [xmit EXCEPT !.nextBlock = n, !.state = state]
    BY <1>1
  <2>3. n <= xmit.blocks
    BY <1>3, <1>4 DEF SliceType
  <2> HIDE DEF state
  <2> QED
    BY <1>3, <1>4, <2>1, <2>2, <2>3 DEF SliceType
<1> HIDE DEF packets
<1>7. CountsAgree'
  BY <1>2, <1>6 DEF IInv, CountsAgree, SliceCounts
<1>8. rexmit' \in SliceType /\ \A q \in rexmit'.ready : Holds(q, rexmit.no)
  BY <1>2 DEF IInv, TypeOK, AnswerInv
<1>9. /\ toSender' = [q \in Receivers |-> toSender'[q]]
      /\ \A q \in Receivers : Shuffled(toSender[q], toSender'[q])
  BY <1>2 DEF IInv, TypeOK, Shuffled
<1>10. PICK f \in [SliceNos -> BlockCounts \cup {0}] : FileIs(f)
  BY DEF IInv, FileInv
<1>11. toReceiver' = [q \in Receivers |-> toReceiver'[q]]
  BY <1>1, <1>5, <1>10, BroadcastFacts
<1>12. \A g : FileIs(g) =>
          \A q \in Receivers : toReceiver'[q] \in Seq(PacketsOf(g))
  BY <1>1, <1>5, BroadcastFacts DEF FileIs
<1> QED
  BY <1>2, <1>3, <1>6, <1>7, <1>8, <1>9, <1>11, <1>12, SameSlices

(* makeSlice: nobody has answered for a new slice. *)
LEMMA NewSliceFacts ==
    ASSUME NEW n \in SliceNos, NEW k \in Nat
    PROVE  /\ NewSlice(n, k) \in SliceType
           /\ NewSlice(n, k).no = n /\ NewSlice(n, k).blocks = k
           /\ NewSlice(n, k).state = "new" /\ NewSlice(n, k).nextBlock = 0
           /\ NewSlice(n, k).ready = {} /\ NewSlice(n, k).nrReady = 0
           /\ NewSlice(n, k).answered = {} /\ NewSlice(n, k).nrAnswered = 0
<1>1. n \in Int
  BY BoundsAssumption DEF SliceNos
<1> QED
  BY <1>1, NoSliceTyped DEF NewSlice, NoSlice, SliceType

(* The file grows by one slice, of which nobody has heard yet. *)
LEMMA MakeSliceStep == IInv /\ MakeSlice => IInv' /\ Acked' = Acked
<1> SUFFICES ASSUME IInv, MakeSlice PROVE IInv' /\ Acked' = Acked
  OBVIOUS
<1>1. PICK k \in IF sliceNo = NrSlices THEN {0} ELSE BlockCounts :
         xmit' = NewSlice(sliceNo, k) /\ atEnd' = (k = 0)
  BY DEF MakeSlice
<1>2. /\ xmit = NoSlice /\ ~atEnd /\ PipeFree
      /\ sliceNo' = sliceNo + 1 /\ pc = "make"
      /\ UNCHANGED <<pc, participants, rexmit, receiverVars, toReceiver, toSender,
                     faults>>
  BY DEF MakeSlice
<1>3. sliceNo \in SliceNos /\ sliceNo \in Int
  BY <1>2, BoundsAssumption DEF IInv, TypeOK, SlotInv, SliceNos
<1>4. k \in BlockCounts \cup {0} /\ k \in Nat
  BY <1>1, BlocksAssumption
<1>5. /\ xmit' \in SliceType /\ xmit' # NoSlice
      /\ xmit'.no = sliceNo /\ xmit'.blocks = k
      /\ xmit'.state = "new" /\ xmit'.nextBlock = 0
      /\ xmit'.ready = {} /\ xmit'.nrReady = 0
      /\ xmit'.answered = {} /\ xmit'.nrAnswered = 0
  <2>1. /\ NewSlice(sliceNo, k) \in SliceType
        /\ NewSlice(sliceNo, k).no = sliceNo /\ NewSlice(sliceNo, k).blocks = k
        /\ NewSlice(sliceNo, k).state = "new"
        /\ NewSlice(sliceNo, k).nextBlock = 0
        /\ NewSlice(sliceNo, k).ready = {} /\ NewSlice(sliceNo, k).nrReady = 0
        /\ NewSlice(sliceNo, k).answered = {}
        /\ NewSlice(sliceNo, k).nrAnswered = 0
    BY <1>3, <1>4, NewSliceFacts
  <2>2. NoSlice.state = "free"
    BY DEF NoSlice
  <2> QED
    BY <1>1, <2>1, <2>2
<1>6. Unasked = sliceNo /\ Unasked' = sliceNo /\ Acked' = Acked
  BY <1>2, <1>5 DEF Unasked, Acked
<1>7. CountsAgree'
  <2>1. SliceCounts(xmit)'
    BY <1>5, FS_EmptySet DEF SliceCounts
  <2>2. SliceCounts(rexmit)'
    BY <1>2 DEF IInv, CountsAgree, SliceCounts
  <2> QED
    BY <2>1, <2>2 DEF CountsAgree
<1>8. SlotInv'
  <2>1. xmit'.no = sliceNo' - 1 /\ xmit'.no \in SliceNos /\ xmit'.nextBlock <= xmit'.blocks
    BY <1>2, <1>3, <1>4, <1>5
  <2>2. rexmit' # NoSlice => rexmit'.no = Unasked' - 1 /\ rexmit'.no \in SliceNos
    BY <1>2, <1>6 DEF IInv, SlotInv
  <2>3. ~SN => rexmit' = NoSlice
    BY <1>2 DEF PipeFree
  <2>4. sliceNo' = NrSlices + 1 => atEnd'
    <3> HAVE sliceNo' = NrSlices + 1
    <3>1. sliceNo = NrSlices
      BY <1>2, <1>3, BoundsAssumption
    <3>2. k = 0
      BY <1>1, <3>1
    <3> QED
      BY <1>1, <3>2
  <2> QED
    BY <1>5, <2>1, <2>2, <2>3, <2>4 DEF SlotInv
<1>9. FileInv'
  <2>1. PICK f \in [SliceNos -> BlockCounts \cup {0}] : FileIs(f)
    BY DEF IInv, FileInv
  <2>2. \E g \in [SliceNos -> BlockCounts \cup {0}] :
           g[sliceNo] = k /\ \A n \in SliceNos : n < sliceNo => g[n] = f[n]
    <3> WITNESS [f EXCEPT ![sliceNo] = k] \in [SliceNos -> BlockCounts \cup {0}]
    <3> QED
      BY <1>3, BoundsAssumption DEF SliceNos
  <2>3. PICK g \in [SliceNos -> BlockCounts \cup {0}] :
           g[sliceNo] = k /\ \A n \in SliceNos : n < sliceNo => g[n] = f[n]
    BY <2>2
  <2>4. PacketsOf(f) \subseteq PacketsOf(g)'
    <3> SUFFICES ASSUME NEW p \in PacketsOf(f) PROVE p \in PacketsOf(g)'
      OBVIOUS
    <3>1. /\ p \in PacketType /\ p.no \in SliceNos /\ p.no \in Int
          /\ p.no < sliceNo /\ p.blocks = f[p.no]
          /\ p.kind = "reqack" => p.no < Unasked
      BY BoundsAssumption DEF PacketsOf, PacketType, SliceNos
    <3>2. p.no < sliceNo' /\ p.blocks = g[p.no]
      BY <1>2, <1>3, <2>3, <3>1
    <3> QED
      BY <1>6, <3>1, <3>2 DEF PacketsOf
  <2>5. \A r \in Receivers : toReceiver'[r] \in Seq(PacketsOf(g)')
    <3> TAKE r \in Receivers
    <3>1. toReceiver'[r] \in Seq(PacketsOf(f))
      BY <1>2, <2>1 DEF FileIs
    <3> QED
      BY <2>4, <3>1, SeqMonotonic
  <2>6. xmit'.blocks = g[xmit'.no]
    BY <1>5, <2>3
  <2>7. rexmit' # NoSlice => rexmit'.blocks = g[rexmit'.no]
    <3> SUFFICES ASSUME rexmit # NoSlice PROVE rexmit.blocks = g[rexmit.no]
      BY <1>2
    <3>1. rexmit.no = sliceNo - 1 /\ rexmit.no \in SliceNos
      BY <1>6 DEF IInv, SlotInv
    <3>2. rexmit.blocks = f[rexmit.no]
      BY <2>1 DEF FileIs
    <3> QED
      BY <1>3, <2>3, <3>1, <3>2
  <2>8. \A r \in Receivers : \A n \in SliceNos :
           size'[r][n] # Unknown => size'[r][n] = g[n] /\ n < sliceNo'
    <3> SUFFICES ASSUME NEW r \in Receivers, NEW n \in SliceNos,
                        size[r][n] # Unknown
                 PROVE  size[r][n] = g[n] /\ n < sliceNo'
      BY <1>2 DEF receiverVars
    <3>1. size[r][n] = f[n] /\ n < sliceNo /\ n \in Int
      BY <2>1, BoundsAssumption DEF FileIs, SliceNos
    <3> QED
      BY <1>2, <1>3, <2>3, <3>1
  <2>9. FileIs(g)'
    BY <2>5, <2>6, <2>7, <2>8 DEF FileIs
  <2> QED
    BY <2>9 DEF FileInv
<1>10. AckedMeansReceived'
  BY <1>2, <1>6 DEF IInv, AckedMeansReceived, receiverVars
<1>11. /\ pc' \in {"top", "messages", "make", "done"} /\ participants' \subseteq participants
       /\ rexmit' \in SliceType /\ atEnd' \in BOOLEAN
       /\ toReceiver' \in [Receivers -> Seq(PacketType)]
       /\ toSender' = [r \in Receivers |-> toSender'[r]]
       /\ \A r \in Receivers : Shuffled(toSender[r], toSender'[r])
  BY <1>1, <1>2 DEF IInv, TypeOK, Shuffled
<1>12. sliceNo' \in sliceNo .. NrSlices + 1 /\ Unasked' >= Unasked
  BY <1>2, <1>3, <1>6, BoundsAssumption DEF SliceNos
<1>13. \A r \in rexmit'.ready : Holds(r, rexmit'.no)
  BY <1>2 DEF IInv, AnswerInv
<1>14. IInv'
  BY <1>2, <1>5, <1>7, <1>8, <1>9, <1>10, <1>11, <1>12, <1>13, SenderStep
<1> QED
  BY <1>6, <1>14

(* If the counters say that everybody is ready, everybody is, and has the
   slice: its memory may go. *)
LEMMA ReadyMeansReceived ==
    ASSUME IInv, rexmit # NoSlice, AllReady
    PROVE  \A r \in participants : received[r] >= rexmit.no
<1>1. rexmit.ready = participants
  <2>1. participants \in SUBSET Receivers /\ IsFiniteSet(participants)
    BY ReceiversCount DEF IInv, TypeOK
  <2>2. rexmit.ready \in SUBSET participants
    BY DEF IInv, CountsAgree, SliceCounts
  <2>3. Cardinality(participants) = Cardinality(rexmit.ready)
    BY DEF IInv, CountsAgree, SliceCounts, AllReady
  <2> QED
    BY <2>1, <2>2, <2>3, FS_Subset
<1> SUFFICES ASSUME NEW r \in participants
             PROVE  received[r] >= rexmit.no
  OBVIOUS
<1>2. r \in Receivers /\ Holds(r, rexmit.no) /\ received[r] >= Acked - 1
  BY <1>1 DEF IInv, TypeOK, AnswerInv, AckedMeansReceived
<1>3. Acked = rexmit.no /\ rexmit.no \in Int /\ received[r] \in Int
  BY <1>2, BoundsAssumption DEF IInv, TypeOK, SliceType, Acked
<1>4. ~Holds(r, received[r] + 1)
  BY <1>2 DEF IInv, PrefixInv
<1>5. received[r] + 1 # rexmit.no
  BY <1>2, <1>4
<1> QED
  BY <1>2, <1>3, <1>5

(* What the sender frees everybody it serves has. *)
Frees == Acked' = Acked + 1 /\ \A r \in participants : received[r] >= Acked

(* The slice everybody has is freed; the transmitted one is asked about. *)
LEMMA CleanAndShiftStep == IInv /\ CleanAndShift => IInv' /\ (Acked' = Acked \/ Frees)
<1> SUFFICES ASSUME IInv, CleanAndShift
             PROVE  IInv' /\ (Acked' = Acked \/ Frees)
  OBVIOUS
<1> DEFINE kept == IF rexmit # NoSlice /\ AllReady THEN NoSlice ELSE rexmit
<1>1. /\ pc' = "messages"
      /\ UNCHANGED <<participants, sliceNo, atEnd, receiverVars, toSender, faults>>
  BY DEF CleanAndShift
<1>2. \/ /\ kept = NoSlice /\ xmit.state = "xmitted"
         /\ rexmit' = Asked(xmit) /\ xmit' = NoSlice
         /\ Broadcast(<<ReqAck(rexmit')>>)
      \/ /\ ~(kept = NoSlice /\ xmit.state = "xmitted")
         /\ rexmit' = kept /\ UNCHANGED <<xmit, toReceiver>>
  BY DEF CleanAndShift
<1>3. /\ xmit \in SliceType /\ rexmit \in SliceType
      /\ SliceCounts(xmit) /\ SliceCounts(rexmit)
      /\ Unasked \in Int /\ Acked \in Int /\ sliceNo \in Int
  BY Numbers DEF IInv, TypeOK, CountsAgree
<1>4. kept = rexmit \/ (rexmit # NoSlice /\ AllReady /\ kept = NoSlice)
  OBVIOUS
<1> HIDE DEF kept
<1>5. rexmit # NoSlice /\ AllReady => \A r \in participants : received[r] >= rexmit.no
  BY ReadyMeansReceived
<1>6. /\ pc' \in {"top", "messages", "make", "done"} /\ participants' \subseteq participants
      /\ sliceNo' \in sliceNo .. NrSlices + 1 /\ atEnd' \in BOOLEAN
      /\ toSender' = [r \in Receivers |-> toSender'[r]]
      /\ \A r \in Receivers : Shuffled(toSender[r], toSender'[r])
  BY <1>1, BoundsAssumption DEF IInv, TypeOK, Shuffled
<1>7. NoSlice \in SliceType /\ SliceCounts(NoSlice)' /\ NoSlice.ready = {}
      /\ NoSlice.state = "free" /\ NoSlice.no = -1
  BY NoSliceTyped, FS_EmptySet DEF NoSlice, SliceCounts
<1>8. CASE /\ kept = NoSlice /\ xmit.state = "xmitted"
           /\ rexmit' = Asked(xmit) /\ xmit' = NoSlice
           /\ Broadcast(<<ReqAck(rexmit')>>)
  <2>1. xmit # NoSlice
    BY <1>7, <1>8
  <2>2. /\ xmit.no = sliceNo - 1 /\ xmit.no \in SliceNos /\ xmit.ready = {}
        /\ Unasked = xmit.no
    BY <2>1 DEF IInv, SlotInv, Unasked
  <2>3. /\ rexmit' \in SliceType /\ SliceCounts(rexmit')
        /\ rexmit'.no = xmit.no /\ rexmit'.blocks = xmit.blocks
        /\ rexmit'.ready = {}
    <3>1. /\ Asked(xmit) \in SliceType /\ SliceCounts(Asked(xmit))
          /\ Asked(xmit).no = xmit.no /\ Asked(xmit).blocks = xmit.blocks
          /\ Asked(xmit).ready = xmit.ready
      BY <1>3, AskedFacts
    <3> QED
      BY <1>8, <2>2, <3>1
  <2>4. rexmit' # NoSlice
    BY <1>7, <2>2, <2>3, BoundsAssumption DEF SliceNos
  <2>5. Unasked' = sliceNo /\ Acked' = xmit.no
    BY <1>1, <1>8, <2>3, <2>4 DEF Unasked, Acked
  <2>6. CountsAgree'
    BY <1>1, <1>7, <1>8, <2>3 DEF CountsAgree, SliceCounts
  <2>7. SlotInv'
    BY <1>1, <1>7, <1>8, <2>2, <2>3, <2>4, <2>5 DEF IInv, SlotInv
  <2>8. PICK f \in [SliceNos -> BlockCounts \cup {0}] : FileIs(f)
    BY DEF IInv, FileInv
  <2>9. rexmit'.blocks = f[rexmit'.no]
    BY <2>1, <2>3, <2>8 DEF FileIs
  <2>10. PacketsOf(f) \subseteq PacketsOf(f)'
    <3>1. \A p \in PacketType : p.no \in Int
      BY BoundsAssumption DEF PacketType, SliceNos
    <3> QED
      BY <1>1, <1>3, <2>2, <2>5, <3>1 DEF PacketsOf
  <2>11. <<ReqAck(rexmit')>> \in Seq(PacketsOf(f)')
    <3>1. ReqAck(rexmit') \in PacketType
      BY <2>2, <2>3 DEF ReqAck, PacketType, SliceType
    <3>2. ReqAck(rexmit').no = xmit.no /\ ReqAck(rexmit').blocks = f[xmit.no]
      BY <2>3, <2>9 DEF ReqAck
    <3>3. xmit.no < sliceNo /\ xmit.no < Unasked' /\ sliceNo' = sliceNo
      BY <1>1, <1>3, <2>2, <2>5
    <3>4. ReqAck(rexmit') \in PacketsOf(f)'
      BY <3>1, <3>2, <3>3 DEF PacketsOf
    <3> QED
      BY <3>4
  <2>12. /\ toReceiver' = [r \in Receivers |-> toReceiver'[r]]
         /\ \A r \in Receivers : toReceiver'[r] \in Seq(PacketsOf(f)')
    <3>1. \A r \in Receivers : toReceiver[r] \in Seq(PacketsOf(f)')
      BY <2>8, <2>10, SeqMonotonic DEF FileIs
    <3> QED
      BY <1>8, <2>11, <3>1, BroadcastFacts
  <2>13. FileInv'
    <3>1. FileIs(f)'
      BY <1>1, <1>8, <2>8, <2>9, <2>12 DEF FileIs, receiverVars
    <3> QED
      BY <3>1 DEF FileInv
  <2>14. toReceiver' \in [Receivers -> Seq(PacketType)]
    <3>1. PacketsOf(f)' \subseteq PacketType
      BY DEF PacketsOf
    <3>2. \A r \in Receivers : toReceiver'[r] \in Seq(PacketType)
      BY <2>12, <3>1, SeqMonotonic
    <3> QED
      BY <2>12, <3>2
  <2>15. Acked' = Acked \/ Frees
    <3>1. CASE rexmit = NoSlice
      BY <2>1, <2>5, <3>1 DEF Acked
    <3>2. CASE rexmit # NoSlice
      <4>1. AllReady /\ rexmit.no = xmit.no - 1 /\ Acked = rexmit.no
        BY <1>4, <1>8, <2>2, <3>2 DEF IInv, SlotInv, Acked
      <4> QED
        BY <1>3, <1>5, <2>2, <2>5, <3>2, <4>1 DEF Frees
    <3> QED
      BY <3>1, <3>2
  <2>16. AckedMeansReceived'
    <3> SUFFICES ASSUME NEW r \in participants PROVE received[r] >= Acked' - 1
      BY <1>1 DEF AckedMeansReceived, receiverVars
    <3>1. received[r] \in Int /\ received[r] >= Acked - 1
      BY BoundsAssumption DEF IInv, TypeOK, AckedMeansReceived
    <3> QED
      BY <1>3, <2>15, <3>1 DEF Frees
  <2>17. \A r \in rexmit'.ready : Holds(r, rexmit'.no)
    BY <2>3
  <2>18. Unasked' >= Unasked
    BY <1>3, <2>2, <2>5
  <2>19. IInv'
    BY <1>1, <1>6, <1>7, <1>8, <2>3, <2>6, <2>7, <2>13, <2>14, <2>16, <2>17,
       <2>18, SenderStep
  <2> QED
    BY <2>15, <2>19
<1>9. CASE /\ ~(kept = NoSlice /\ xmit.state = "xmitted")
           /\ rexmit' = kept /\ UNCHANGED <<xmit, toReceiver>>
  <2>1. rexmit' \in SliceType /\ SliceCounts(rexmit)' /\ SliceCounts(xmit)'
    BY <1>1, <1>3, <1>4, <1>7, <1>9 DEF SliceCounts
  <2>2. CountsAgree'
    BY <2>1 DEF CountsAgree
  <2>3. Unasked' = Unasked
    BY <1>1, <1>9 DEF Unasked
  <2>4. SlotInv'
    <3>1. rexmit' # NoSlice => rexmit' = rexmit
      BY <1>4, <1>9
    <3>2. rexmit' = NoSlice => xmit'.state # "xmitted"
      BY <1>9
    <3> QED
      BY <1>1, <1>9, <2>3, <3>1, <3>2 DEF IInv, SlotInv
  <2>5. FileInv'
    <3>1. PICK f \in [SliceNos -> BlockCounts \cup {0}] : FileIs(f)
      BY DEF IInv, FileInv
    <3>2. PacketsOf(f)' = PacketsOf(f)
      BY <1>1, <2>3 DEF PacketsOf
    <3>3. rexmit' # NoSlice => rexmit'.blocks = f[rexmit'.no]
      BY <1>4, <1>9, <3>1 DEF FileIs
    <3>4. FileIs(f)'
      BY <1>1, <1>9, <3>1, <3>2, <3>3 DEF FileIs, receiverVars
    <3> QED
      BY <3>4 DEF FileInv
  <2>6. Acked' = Acked \/ Frees
    <3>1. CASE rexmit' = rexmit
      BY <1>1, <1>9, <3>1 DEF Acked
    <3>2. CASE rexmit # NoSlice /\ AllReady /\ rexmit' = NoSlice
      <4>1. Acked = rexmit.no /\ rexmit.no = Unasked - 1
        BY <3>2 DEF IInv, SlotInv, Acked
      <4>2. Acked' = Unasked
        BY <1>1, <1>9, <3>2 DEF Acked, Unasked
      <4> QED
        BY <1>3, <1>5, <3>2, <4>1, <4>2 DEF Frees
    <3> QED
      BY <1>4, <1>9, <3>1, <3>2
  <2>7. AckedMeansReceived'
    <3> SUFFICES ASSUME NEW r \in participants PROVE received[r] >= Acked' - 1
      BY <1>1 DEF AckedMeansReceived, receiverVars
    <3>1. received[r] \in Int /\ received[r] >= Acked - 1
      BY BoundsAssumption DEF IInv, TypeOK, AckedMeansReceived
    <3> QED
      BY <1>3, <2>6, <3>1 DEF Frees
  <2>8. \A r \in rexmit'.ready : Holds(r, rexmit'.no)
    BY <1>4, <1>7, <1>9 DEF IInv, AnswerInv
  <2>9. toReceiver' \in [Receivers -> Seq(PacketType)] /\ xmit' \in SliceType
    BY <1>3, <1>9 DEF IInv, TypeOK
  <2>10. IInv'
    BY <1>1, <1>3, <1>6, <2>1, <2>2, <2>3, <2>4, <2>5, <2>7, <2>8, <2>9, SenderStep
  <2> QED
    BY <2>6, <2>10
<1> QED
  BY <1>2, <1>8, <1>9

-----------------------------------------------------------------------------
(* The steps of the receivers                                               *)

(* What arrives tells of the file; in half duplex only of slices that a
   participant who has all acknowledged ones can take. *)
LEMMA PacketFacts ==
    ASSUME IInv, NEW r \in Receivers, toReceiver[r] # << >>, NEW f, FileIs(f)
    PROVE  LET m == Head(toReceiver[r]) IN
           /\ m \in PacketType /\ m.no \in SliceNos /\ m.no < sliceNo
           /\ m.blocks = f[m.no]
           /\ m.kind = "reqack" => m.no < Unasked
<1>1. toReceiver[r] \in Seq(PacketsOf(f))
  BY DEF FileIs
<1>2. Head(toReceiver[r]) \in PacketsOf(f)
  BY <1>1, HeadTailProperties
<1> QED
  BY <1>2 DEF PacketsOf, PacketType

(* One packet is taken from the front of a receiver's queue, or all are lost
   with the process. *)
LEMMA QueueShuffled ==
    ASSUME IInv, NEW r \in Receivers,
           \/ toReceiver[r] # << >> /\ toReceiver' = [toReceiver EXCEPT ![r] = Tail(@)]
           \/ toReceiver' = [toReceiver EXCEPT ![r] = << >>]
    PROVE  /\ toReceiver' = [q \in Receivers |-> toReceiver'[q]]
           /\ \A q \in Receivers : Shuffled(toReceiver[q], toReceiver'[q])
<1>1. toReceiver \in [Receivers -> Seq(PacketType)]
  BY DEF IInv, TypeOK
<1>2. toReceiver[r] # << >> => Shuffled(toReceiver[r], Tail(toReceiver[r]))
  BY <1>1, TailShuffled
<1>3. Shuffled(toReceiver[r], << >>)
  BY EmptyShuffled
<1>4. \A q : Shuffled(toReceiver[q], toReceiver[q])
  BY DEF Shuffled
<1> QED
  BY <1>1, <1>2, <1>3, <1>4

(* An answer joins those under way. *)
LEMMA AnswerFacts ==
    ASSUME IInv, NEW r \in Receivers, NEW kind, NEW n, NEW rxmit, NEW missing,
           Answer(r, kind, n, rxmit, missing),
           kind \in {"ok", "retransmit", "disconnect"}, n \in SliceNos,
           rxmit \in Nat, missing \in SUBSET Nat, Unasked' = Unasked,
           kind # "disconnect" => n < Unasked,
           kind = "ok" => Holds(r, n)',
           \A q \in Receivers : \A k \in SliceNos : Holds(q, k) => Holds(q, k)'
    PROVE  /\ toSender' \in [Receivers -> Seq(AnswerType)]
           /\ \A q \in Receivers : toSender'[q] \in Seq(AnswersOf(q)')
<1> DEFINE a == [kind |-> kind, no |-> n, rxmit |-> rxmit, missing |-> missing]
<1>1. toSender' = [toSender EXCEPT ![r] = Append(@, a)]
  BY DEF Answer
<1>2. a \in AnswerType /\ a.kind = kind /\ a.no = n
  BY DEF AnswerType
<1> HIDE DEF a
<1>3. a \in AnswersOf(r)'
  BY <1>2 DEF AnswersOf
<1>4. \A q \in Receivers : toSender[q] \in Seq(AnswersOf(q)')
  <2> TAKE q \in Receivers
  <2>1. AnswersOf(q) \subseteq AnswersOf(q)'
    <3>1. \A b \in AnswerType : b.no \in SliceNos
      BY DEF AnswerType
    <3> QED
      BY <3>1 DEF AnswersOf
  <2>2. toSender[q] \in Seq(AnswersOf(q))
    BY DEF IInv, AnswerInv
  <2> QED
    BY <2>1, <2>2, SeqMonotonic
<1>5. toSender \in [Receivers -> Seq(AnswerType)]
  BY DEF IInv, TypeOK
<1>6. \A q \in Receivers : toSender'[q] = IF q = r THEN Append(toSender[q], a) ELSE toSender[q]
  BY <1>1, <1>5
<1>7. \A q \in Receivers : toSender'[q] \in Seq(AnswersOf(q)')
  <2>1. toSender[r] \in Seq(AnswersOf(r)')
    BY <1>4
  <2>2. Append(toSender[r], a) \in Seq(AnswersOf(r)')
    BY <1>3, <2>1, AppendProperties
  <2> TAKE q \in Receivers
  <2>3. CASE q = r
    BY <1>6, <2>2, <2>3
  <2>4. CASE q # r
    BY <1>4, <1>6, <2>4
  <2> QED
    BY <2>3, <2>4
<1>8. Append(toSender[r], a) \in Seq(AnswerType)
  BY <1>2, <1>5, AppendProperties
<1>9. toSender' \in [Receivers -> Seq(AnswerType)]
  BY <1>1, <1>5, <1>8
<1> QED
  BY <1>7, <1>9

(* Nothing is answered: what is under way stays true. *)
LEMMA NoAnswerFacts ==
    ASSUME IInv, UNCHANGED toSender, Unasked' = Unasked,
           \A q \in Receivers : \A k \in SliceNos : Holds(q, k) => Holds(q, k)'
    PROVE  /\ toSender' \in [Receivers -> Seq(AnswerType)]
           /\ \A q \in Receivers : toSender'[q] \in Seq(AnswersOf(q)')
<1>1. \A q \in Receivers : toSender[q] \in Seq(AnswersOf(q)')
  <2> TAKE q \in Receivers
  <2>1. AnswersOf(q) \subseteq AnswersOf(q)'
    <3>1. \A b \in AnswerType : b.no \in SliceNos
      BY DEF AnswerType
    <3> QED
      BY <3>1 DEF AnswersOf
  <2>2. toSender[q] \in Seq(AnswersOf(q))
    BY DEF IInv, AnswerInv
  <2> QED
    BY <2>1, <2>2, SeqMonotonic
<1> QED
  BY <1>1 DEF IInv, TypeOK

(* In half duplex a participant can open every slice it hears of. *)
LEMMA CanAlwaysOpen ==
    ASSUME IInv, ~SN, NEW r \in participants, NEW n \in SliceNos,
           n < sliceNo, n > current[r]
    PROVE  CanOpen(r, n)
<1>1. /\ r \in Receivers /\ received[r] \in -1 .. NrSlices
      /\ current[r] \in SliceNos /\ received[r] \in Int
  BY BoundsAssumption DEF IInv, TypeOK
<1>2. current[r] \in Int /\ current[r] >= 0 /\ n \in Int
  BY <1>1, BoundsAssumption DEF SliceNos
<1>3. Acked >= sliceNo - 1 /\ Acked \in Int /\ sliceNo \in Int
  BY Order, Numbers DEF IInv
<1>4. received[r] >= Acked - 1
  BY DEF IInv, AckedMeansReceived
<1>5. received[r] <= current[r]
  BY <1>1 DEF IInv, PrefixInv
<1>6. n = received[r] + 1 /\ current[r] = received[r]
  BY <1>1, <1>2, <1>3, <1>4, <1>5
<1>7. size[r][current[r]] # Unknown
  <2>1. current[r] \in 0 .. received[r]
    BY <1>1, <1>2, <1>6
  <2>2. Holds(r, current[r])
    BY <1>1, <2>1 DEF IInv, PrefixInv
  <2> QED
    BY <2>2 DEF Holds, Complete
<1> QED
  BY <1>1, <1>6, <1>7 DEF CanOpen

(* What a step of receiver r hands to its writer: nothing, or more slices *)
Hands(r) == \E last \in received[r] .. NrSlices :
               received' = [received EXCEPT ![r] = last]

(* A process that ends, for whatever reason, knows what it knew. *)
LEMMA LeaveStep ==
    ASSUME IInv, NEW r \in Receivers, NEW how \in {"finished", "failed"},
           Leave(r, how), r \in participants /\ how = "failed" => SN,
           Answer(r, "disconnect", 0, 0, {}), UNCHANGED <<pc, senderVars, faults>>
    PROVE  IInv' /\ UNCHANGED received
<1>1. /\ status' = [status EXCEPT ![r] = how]
      /\ toReceiver' = [toReceiver EXCEPT ![r] = << >>]
      /\ UNCHANGED <<current, received, size, got>>
  BY DEF Leave
<1>2. status' \in [Receivers -> {"running", "closing", "finished", "failed", "dead"}]
  BY <1>1 DEF IInv, TypeOK
<1>3. \A q \in participants : status'[q] = "failed" => SN \/ status[q] = "failed"
  BY <1>1 DEF IInv, TypeOK
<1>4. \A q \in Receivers : \A n \in SliceNos : Holds(q, n) => Holds(q, n)'
  BY <1>1 DEF Holds
<1>5. PrefixInv'
  BY <1>1 DEF IInv, PrefixInv, Holds
<1>6. /\ toReceiver' = [q \in Receivers |-> toReceiver'[q]]
      /\ \A q \in Receivers : Shuffled(toReceiver[q], toReceiver'[q])
  BY <1>1, QueueShuffled
<1>7. /\ toSender' \in [Receivers -> Seq(AnswerType)]
      /\ \A q \in Receivers : toSender'[q] \in Seq(AnswersOf(q)')
  <2>1. Unasked' = Unasked /\ 0 \in SliceNos
    BY BoundsAssumption DEF Unasked, senderVars, SliceNos
  <2> QED
    BY <1>4, <2>1, AnswerFacts
<1>8. \A f : FileIs(f) =>
         \A q \in Receivers : \A n \in SliceNos :
            size'[q][n] # Unknown => size'[q][n] = f[n] /\ n < sliceNo
  BY <1>1 DEF FileIs
<1>9. \A q \in Receivers : received'[q] >= received[q]
  BY <1>1, BoundsAssumption DEF IInv, TypeOK
<1>10. /\ current' \in [Receivers -> SliceNos]
       /\ received' \in [Receivers -> -1 .. NrSlices]
       /\ size' \in [Receivers -> [SliceNos -> Nat \cup {Unknown}]]
       /\ got' \in [Receivers -> [SliceNos -> SUBSET Nat]]
  BY <1>1 DEF IInv, TypeOK
<1> QED
  BY <1>1, <1>2, <1>3, <1>4, <1>5, <1>6, <1>7, <1>8, <1>9, <1>10, ReceiverStep

(* Only in full duplex can a packet end a participant. *)
LEMMA ReceiveTooLateStep ==
    ASSUME IInv, NEW r \in Receivers, ReceiveTooLate(r)
    PROVE  IInv' /\ UNCHANGED received
<1> DEFINE m == Head(toReceiver[r])
<1>1. /\ toReceiver[r] # << >> /\ m.no > current[r] /\ ~CanOpen(r, m.no)
      /\ Leave(r, "failed") /\ Answer(r, "disconnect", 0, 0, {})
      /\ UNCHANGED <<pc, senderVars, faults>>
  BY DEF ReceiveTooLate
<1>2. PICK f \in [SliceNos -> BlockCounts \cup {0}] : FileIs(f)
  BY DEF IInv, FileInv
<1>3. m.no \in SliceNos /\ m.no < sliceNo
  BY <1>1, <1>2, PacketFacts
<1> HIDE DEF m
<1>4. r \in participants => SN
  BY <1>1, <1>3, CanAlwaysOpen
<1> QED
  BY <1>1, <1>4, LeaveStep

(* A receiver that has the whole file disconnects. *)
LEMMA ExitStep ==
    ASSUME IInv, NEW r \in Receivers, Exit(r)
    PROVE  IInv' /\ UNCHANGED received
  BY LeaveStep DEF Exit

(* A packet that changes what receiver r knows of slice n *)
LEMMA UpdateStep ==
    ASSUME IInv, NEW r \in Receivers, Take(r), NEW n \in SliceNos, n < sliceNo,
           NEW blocks \in SUBSET Nat, NEW sz \in Nat,
           \A f : FileIs(f) => sz = f[n],
           Update(r, n, sz, blocks), Holds(r, n) => Complete(sz, blocks),
           toSender' \in [Receivers -> Seq(AnswerType)],
           \A q \in Receivers : toSender'[q] \in Seq(AnswersOf(q)')
    PROVE  IInv' /\ Hands(r)
<1>1. /\ status' \in [Receivers -> {"running", "closing", "finished",
                                    "failed", "dead"}]
      /\ current' \in [Receivers -> SliceNos]
      /\ received' \in [Receivers -> -1 .. NrSlices]
      /\ size' \in [Receivers -> [SliceNos -> Nat \cup {Unknown}]]
      /\ got' \in [Receivers -> [SliceNos -> SUBSET Nat]]
      /\ \A q \in Receivers : received'[q] >= received[q]
      /\ \A q \in Receivers : status'[q] = "failed" => status[q] = "failed"
      /\ \A q \in Receivers : \A k \in SliceNos :
            /\ Holds(q, k) => Holds(q, k)'
            /\ size'[q][k] = IF q = r /\ k = n THEN sz ELSE size[q][k]
      /\ PrefixInv'
      /\ Hands(r)
  BY UpdateFacts DEF Hands
<1>2. /\ UNCHANGED <<pc, senderVars, faults>>
      /\ toReceiver[r] # << >> /\ toReceiver' = [toReceiver EXCEPT ![r] = Tail(@)]
  BY DEF Take
<1>3. /\ toReceiver' = [q \in Receivers |-> toReceiver'[q]]
      /\ \A q \in Receivers : Shuffled(toReceiver[q], toReceiver'[q])
  BY <1>2, QueueShuffled
<1>4. \A f : FileIs(f) =>
         \A q \in Receivers : \A k \in SliceNos :
            size'[q][k] # Unknown => size'[q][k] = f[k] /\ k < sliceNo
  <2> SUFFICES ASSUME NEW f, FileIs(f), NEW q \in Receivers, NEW k \in SliceNos,
                      size'[q][k] # Unknown
               PROVE  size'[q][k] = f[k] /\ k < sliceNo
    OBVIOUS
  <2>1. CASE q = r /\ k = n
    BY <1>1, <2>1
  <2>2. CASE ~(q = r /\ k = n)
    <3>1. size'[q][k] = size[q][k]
      BY <1>1, <2>2
    <3> QED
      BY <3>1 DEF FileIs
  <2> QED
    BY <2>1, <2>2
<1>5. \A q \in participants : status'[q] = "failed" => SN \/ status[q] = "failed"
  BY <1>1 DEF IInv, TypeOK
<1>6. \A q \in Receivers : \A k \in SliceNos : Holds(q, k) => Holds(q, k)'
  BY <1>1
<1>7. IInv'
  BY <1>1, <1>2, <1>3, <1>4, <1>5, <1>6, ReceiverStep
<1> QED
  BY <1>1, <1>7

(* A packet from which receiver r learns nothing but that a slice began *)
LEMMA NothingNewStep ==
    ASSUME IInv, NEW r \in Receivers, Take(r), NEW n \in SliceNos,
           UNCHANGED <<status, received, size, got>>,
           \/ UNCHANGED current
           \/ current' = [current EXCEPT ![r] = IF n > @ THEN n ELSE @],
           toSender' \in [Receivers -> Seq(AnswerType)],
           \A q \in Receivers : toSender'[q] \in Seq(AnswersOf(q)')
    PROVE  IInv'
<1>1. /\ UNCHANGED <<pc, senderVars, faults>>
      /\ toReceiver[r] # << >> /\ toReceiver' = [toReceiver EXCEPT ![r] = Tail(@)]
  BY DEF Take
<1>2. /\ toReceiver' = [q \in Receivers |-> toReceiver'[q]]
      /\ \A q \in Receivers : Shuffled(toReceiver[q], toReceiver'[q])
  BY <1>1, QueueShuffled
<1>3. current' \in [Receivers -> SliceNos]
  BY DEF IInv, TypeOK
<1>4. \A q \in Receivers : current[q] \in Int /\ current'[q] \in Int /\ current'[q] >= current[q]
  <2>1. \A q \in Receivers : current[q] \in Int /\ current'[q] \in Int /\ n \in Int
    BY <1>3, BoundsAssumption DEF IInv, TypeOK, SliceNos
  <2>2. \A q \in Receivers : \/ current'[q] = current[q]
                             \/ current'[q] = IF n > current[q] THEN n ELSE current[q]
    BY DEF IInv, TypeOK
  <2> QED
    BY <2>1, <2>2
<1>5. PrefixInv'
  <2> SUFFICES ASSUME NEW q \in Receivers
               PROVE  (/\ received[q] <= current[q]
                       /\ \A k \in SliceNos : size[q][k] # Unknown => k <= current[q]
                       /\ \A k \in 0 .. received[q] : Holds(q, k)
                       /\ ~Holds(q, received[q] + 1))'
    BY DEF PrefixInv
  <2>1. /\ received[q] <= current[q] /\ received[q] \in Int
        /\ \A k \in SliceNos : size[q][k] # Unknown => k <= current[q]
        /\ \A k \in 0 .. received[q] : Holds(q, k)
        /\ ~Holds(q, received[q] + 1)
    BY BoundsAssumption DEF IInv, TypeOK, PrefixInv
  <2>2. \A k \in SliceNos : k \in Int
    BY BoundsAssumption DEF SliceNos
  <2>3. (\A k \in 0 .. received[q] : Holds(q, k))' /\ ~Holds(q, received[q] + 1)'
    BY <2>1 DEF Holds
  <2> QED
    BY <1>4, <2>1, <2>2, <2>3
<1>6. \A q \in Receivers : \A k \in SliceNos : Holds(q, k) => Holds(q, k)'
  BY DEF Holds
<1>7. \A f : FileIs(f) =>
         \A q \in Receivers : \A k \in SliceNos :
            size'[q][k] # Unknown => size'[q][k] = f[k] /\ k < sliceNo
  BY DEF FileIs
<1>8. /\ \A q \in Receivers : received'[q] >= received[q]
      /\ \A q \in participants : status'[q] = "failed" => SN \/ status[q] = "failed"
  BY BoundsAssumption DEF IInv, TypeOK
<1>9. /\ status' \in [Receivers -> {"running", "closing", "finished",
                                    "failed", "dead"}]
      /\ received' \in [Receivers -> -1 .. NrSlices]
      /\ size' \in [Receivers -> [SliceNos -> Nat \cup {Unknown}]]
      /\ got' \in [Receivers -> [SliceNos -> SUBSET Nat]]
  BY DEF IInv, TypeOK
<1> QED
  BY <1>1, <1>2, <1>3, <1>5, <1>6, <1>7, <1>8, <1>9, ReceiverStep

(* processDataBlock keeps what is known and adds a block of the file. *)
LEMMA ReceiveDataStep ==
    ASSUME IInv, NEW r \in Receivers, ReceiveData(r)
    PROVE  IInv' /\ (Hands(r) \/ UNCHANGED received)
<1> DEFINE m == Head(toReceiver[r])
           blocks == got[r][m.no] \cup {m.block}
<1>1. /\ Take(r) /\ UNCHANGED toSender
      /\ IF Old(r, m.no) \/ m.block \in got[r][m.no]
            \/ Complete(size[r][m.no], got[r][m.no])
         THEN UNCHANGED receiverVars
         ELSE Update(r, m.no, m.blocks, blocks)
  BY DEF ReceiveData
<1>2. toReceiver[r] # << >> /\ Unasked' = Unasked
  BY <1>1 DEF Take, Unasked, senderVars
<1>3. PICK f \in [SliceNos -> BlockCounts \cup {0}] : FileIs(f)
  BY DEF IInv, FileInv
<1>4. m \in PacketType /\ m.no \in SliceNos /\ m.no < sliceNo
  BY <1>2, <1>3, PacketFacts
<1>5. \A g : FileIs(g) => m.blocks = g[m.no]
  BY <1>2, PacketFacts
<1>6. m.blocks \in Nat /\ blocks \in SUBSET Nat
  <2>1. m.blocks \in Nat /\ m.block \in Nat
    BY <1>4 DEF PacketType
  <2>2. got[r][m.no] \in SUBSET Nat
    BY <1>4 DEF IInv, TypeOK
  <2> QED
    BY <2>1, <2>2
<1>7. CASE UNCHANGED receiverVars
  <2>1. \A q \in Receivers : \A k \in SliceNos : Holds(q, k) => Holds(q, k)'
    BY <1>7 DEF Holds, receiverVars
  <2>2. /\ toSender' \in [Receivers -> Seq(AnswerType)]
        /\ \A q \in Receivers : toSender'[q] \in Seq(AnswersOf(q)')
    BY <1>1, <1>2, <2>1, NoAnswerFacts
  <2> QED
    BY <1>1, <1>4, <1>7, <2>2, NothingNewStep DEF receiverVars
<1>8. CASE /\ Update(r, m.no, m.blocks, blocks)
           /\ ~Complete(size[r][m.no], got[r][m.no])
  <2>1. ~Holds(r, m.no)
    BY <1>8 DEF Holds
  <2> HIDE DEF m, blocks
  <2>2. \A q \in Receivers : \A k \in SliceNos : Holds(q, k) => Holds(q, k)'
    BY <1>4, <1>6, <1>8, <2>1, UpdateFacts
  <2>3. /\ toSender' \in [Receivers -> Seq(AnswerType)]
        /\ \A q \in Receivers : toSender'[q] \in Seq(AnswersOf(q)')
    BY <1>1, <1>2, <2>2, NoAnswerFacts
  <2> QED
    BY <1>1, <1>4, <1>5, <1>6, <1>8, <2>1, <2>3, UpdateStep
<1> QED
  BY <1>1, <1>7, <1>8

(* Who says OK holds the slice: it has delivered it, or has all its blocks. *)
LEMMA ReceiveReqAckStep ==
    ASSUME IInv, NEW r \in Receivers, ReceiveReqAck(r)
    PROVE  IInv' /\ (Hands(r) \/ UNCHANGED received)
<1>m. PICK m : m = Head(toReceiver[r])
  OBVIOUS
<1>b. PICK blocks : blocks = got[r][m.no]
  OBVIOUS
<1> DEFINE missing == (0 .. m.blocks - 1) \ blocks
<1>1. /\ Take(r) /\ m.kind = "reqack"
      /\ \/ /\ UNCHANGED <<status, received, size, got, toSender>>
            /\ current' = [current EXCEPT ![r] = IF m.no > @ THEN m.no ELSE @]
         \/ /\ Old(r, m.no) /\ UNCHANGED receiverVars
            /\ Answer(r, "ok", m.no, 0, {})
         \/ /\ Update(r, m.no, m.blocks, blocks)
            /\ \/ /\ Complete(m.blocks, blocks)
                  /\ Answer(r, "ok", m.no, 0, {})
               \/ /\ ~Complete(m.blocks, blocks)
                  /\ Answer(r, "retransmit", m.no, m.rxmit, missing)
  BY <1>m, <1>b DEF ReceiveReqAck
<1>2. toReceiver[r] # << >> /\ Unasked' = Unasked
  BY <1>1 DEF Take, Unasked, senderVars
<1>3. PICK f \in [SliceNos -> BlockCounts \cup {0}] : FileIs(f)
  BY DEF IInv, FileInv
<1>4. /\ m \in PacketType /\ m.no \in SliceNos /\ m.no < sliceNo
      /\ m.no < Unasked /\ m.blocks = f[m.no]
  BY <1>m, <1>1, <1>2, <1>3, PacketFacts
<1>5. \A g : FileIs(g) => m.blocks = g[m.no]
  BY <1>m, <1>2, PacketFacts
<1>6. /\ m.blocks \in Nat /\ m.rxmit \in Nat
      /\ blocks \in SUBSET Nat /\ missing \in SUBSET Nat
  <2>1. m.blocks \in Nat /\ m.rxmit \in Nat
    BY <1>4 DEF PacketType
  <2>2. blocks \in SUBSET Nat
    BY <1>b, <1>4 DEF IInv, TypeOK
  <2>3. missing \in SUBSET Nat
    BY <2>1
  <2> QED
    BY <2>1, <2>2, <2>3
<1>7. Holds(r, m.no) => Complete(m.blocks, blocks)
  BY <1>b, <1>3, <1>4 DEF Holds, Complete, FileIs
<1>8. {} \in SUBSET Nat /\ 0 \in Nat
  OBVIOUS
<1> HIDE DEF missing
<1>9. CASE /\ UNCHANGED <<status, received, size, got, toSender>>
           /\ current' = [current EXCEPT ![r] = IF m.no > @ THEN m.no ELSE @]
  <2>1. \A q \in Receivers : \A k \in SliceNos : Holds(q, k) => Holds(q, k)'
    BY <1>9 DEF Holds
  <2>2. /\ toSender' \in [Receivers -> Seq(AnswerType)]
        /\ \A q \in Receivers : toSender'[q] \in Seq(AnswersOf(q)')
    BY <1>2, <1>9, <2>1, NoAnswerFacts
  <2> QED
    BY <1>1, <1>4, <1>9, <2>2, NothingNewStep
<1>10. CASE /\ Old(r, m.no) /\ UNCHANGED receiverVars
            /\ Answer(r, "ok", m.no, 0, {})
  <2>1. \A q \in Receivers : \A k \in SliceNos : Holds(q, k) => Holds(q, k)'
    BY <1>10 DEF Holds, receiverVars
  <2>2. Holds(r, m.no)
    <3>1. m.no \in 0 .. received[r]
      BY <1>4, <1>10, BoundsAssumption DEF IInv, TypeOK, SliceNos, Old
    <3> QED
      BY <3>1 DEF IInv, PrefixInv
  <2>3. /\ toSender' \in [Receivers -> Seq(AnswerType)]
        /\ \A q \in Receivers : toSender'[q] \in Seq(AnswersOf(q)')
    BY <1>2, <1>4, <1>8, <1>10, <2>1, <2>2, AnswerFacts
  <2> QED
    BY <1>1, <1>4, <1>10, <2>3, NothingNewStep DEF receiverVars
<1>11. CASE /\ Update(r, m.no, m.blocks, blocks)
            /\ \/ /\ Complete(m.blocks, blocks)
                  /\ Answer(r, "ok", m.no, 0, {})
               \/ /\ ~Complete(m.blocks, blocks)
                  /\ Answer(r, "retransmit", m.no, m.rxmit, missing)
  <2>1. /\ \A q \in Receivers : \A k \in SliceNos : Holds(q, k) => Holds(q, k)'
        /\ Holds(r, m.no)' <=> Complete(m.blocks, blocks)
    BY <1>4, <1>6, <1>7, <1>11, UpdateFacts
  <2>2. /\ toSender' \in [Receivers -> Seq(AnswerType)]
        /\ \A q \in Receivers : toSender'[q] \in Seq(AnswersOf(q)')
    <3>1. CASE Complete(m.blocks, blocks) /\ Answer(r, "ok", m.no, 0, {})
      BY <1>2, <1>4, <1>8, <2>1, <3>1, AnswerFacts
    <3>2. CASE Answer(r, "retransmit", m.no, m.rxmit, missing)
      BY <1>2, <1>4, <1>6, <2>1, <3>2, AnswerFacts
    <3> QED
      BY <1>11, <3>1, <3>2
  <2> QED
    BY <1>1, <1>4, <1>5, <1>6, <1>7, <1>11, <2>2, UpdateStep
<1> QED
  BY <1>1, <1>9, <1>10, <1>11

-----------------------------------------------------------------------------
(* The network                                                              *)

(* Faults remove, repeat and swap packets, or end a receiver. *)
LEMMA FaultStep ==
    ASSUME IInv, NEW r \in Receivers,
           \/ LosePacket(r) \/ DuplicatePacket(r) \/ OvertakePacket(r)
           \/ LoseAnswer(r) \/ DuplicateAnswer(r) \/ Die(r)
    PROVE  IInv' /\ UNCHANGED <<participants, received, rexmit, xmit, sliceNo>>
<1>1. /\ toReceiver \in [Receivers -> Seq(PacketType)]
      /\ toSender \in [Receivers -> Seq(AnswerType)]
      /\ status \in [Receivers -> {"running", "closing", "finished", "failed",
                                   "dead"}]
  BY DEF IInv, TypeOK
<1>2. \A s : Shuffled(s, s) /\ Shuffled(s, << >>)
  BY EmptyShuffled DEF Shuffled
<1>3. Fault => faults' \in 0 .. MaxFaults
  BY BoundsAssumption DEF Fault, IInv, TypeOK
<1>4. CASE LosePacket(r)
  <2>1. toReceiver[r] # << >> /\ toReceiver' = [toReceiver EXCEPT ![r] = Tail(@)]
    BY <1>4 DEF LosePacket
  <2>2. Shuffled(toReceiver[r], Tail(toReceiver[r]))
    BY <1>1, <2>1, TailShuffled
  <2> QED
    BY <1>1, <1>2, <1>3, <1>4, <2>1, <2>2, NetworkStep
       DEF LosePacket, senderVars, receiverVars
<1>5. CASE DuplicatePacket(r)
  <2>1. /\ toReceiver[r] # << >>
        /\ toReceiver' = [toReceiver EXCEPT ![r] = <<Head(@)>> \o @]
    BY <1>5 DEF DuplicatePacket
  <2>2. Shuffled(toReceiver[r], <<Head(toReceiver[r])>> \o toReceiver[r])
    BY <1>1, <2>1, TwiceShuffled
  <2> QED
    BY <1>1, <1>2, <1>3, <1>5, <2>1, <2>2, NetworkStep
       DEF DuplicatePacket, senderVars, receiverVars
<1>6. CASE OvertakePacket(r)
  <2> DEFINE swapped == <<toReceiver[r][2], toReceiver[r][1]>>
                          \o SubSeq(toReceiver[r], 3, Len(toReceiver[r]))
  <2>1. Len(toReceiver[r]) > 1 /\ toReceiver' = [toReceiver EXCEPT ![r] = swapped]
    BY <1>6 DEF OvertakePacket
  <2>2. Shuffled(toReceiver[r], swapped)
    BY <1>1, <2>1, SwapShuffled
  <2> HIDE DEF swapped
  <2> QED
    BY <1>1, <1>2, <1>3, <1>6, <2>1, <2>2, NetworkStep
       DEF OvertakePacket, senderVars, receiverVars
<1>7. CASE LoseAnswer(r)
  <2>1. toSender[r] # << >> /\ toSender' = [toSender EXCEPT ![r] = Tail(@)]
    BY <1>7 DEF LoseAnswer
  <2>2. Shuffled(toSender[r], Tail(toSender[r]))
    BY <1>1, <2>1, TailShuffled
  <2> QED
    BY <1>1, <1>2, <1>3, <1>7, <2>1, <2>2, NetworkStep
       DEF LoseAnswer, senderVars, receiverVars
<1>8. CASE DuplicateAnswer(r)
  <2>1. /\ toSender[r] # << >>
        /\ toSender' = [toSender EXCEPT ![r] = <<Head(@)>> \o @]
    BY <1>8 DEF DuplicateAnswer
  <2>2. Shuffled(toSender[r], <<Head(toSender[r])>> \o toSender[r])
    BY <1>1, <2>1, TwiceShuffled
  <2> QED
    BY <1>1, <1>2, <1>3, <1>8, <2>1, <2>2, NetworkStep
       DEF DuplicateAnswer, senderVars, receiverVars
<1>9. CASE Die(r)
  <2>1. /\ toReceiver' = [toReceiver EXCEPT ![r] = << >>]
        /\ status' = [status EXCEPT ![r] = "dead"]
    BY <1>9 DEF Die, Leave
  <2>2. \A q \in participants : status'[q] = "failed" => status[q] = "failed"
    BY <1>1, <2>1 DEF IInv, TypeOK
  <2> QED
    BY <1>1, <1>2, <1>3, <1>9, <2>1, <2>2, NetworkStep
       DEF Die, Leave, senderVars, receiverVars
<1> QED
  BY <1>4, <1>5, <1>6, <1>7, <1>8, <1>9

-----------------------------------------------------------------------------
(* A transfer that has just begun satisfies the invariant. *)
LEMMA InitInv == Init => IInv
<1> SUFFICES ASSUME Init PROVE IInv
  OBVIOUS
<1>1. NoSlice \in SliceType /\ SliceCounts(NoSlice) /\ NoSlice.ready = {}
      /\ NoSlice.state = "free"
  BY NoSliceTyped, FS_EmptySet DEF NoSlice, SliceCounts
<1>2. 0 \in SliceNos /\ 0 \in 0 .. NrSlices + 1 /\ -1 \in -1 .. NrSlices
      /\ 0 \in 0 .. MaxFaults /\ 0 # NrSlices + 1
  BY BoundsAssumption DEF SliceNos
<1>3. \A S : << >> \in Seq(S)
  BY EmptySeq
<1>4. TypeOK
  BY <1>1, <1>2, <1>3 DEF Init, TypeOK
<1>5. CountsAgree
  BY <1>1 DEF Init, CountsAgree
<1>6. SlotInv
  BY <1>1, <1>2 DEF Init, SlotInv
<1>7. FileInv
  <2>1. [n \in SliceNos |-> 0] \in [SliceNos -> BlockCounts \cup {0}]
    OBVIOUS
  <2>2. \A f : FileIs(f)
    BY <1>3 DEF Init, FileIs
  <2> QED
    BY <2>1, <2>2 DEF FileInv
<1>8. AnswerInv
  BY <1>1, <1>3 DEF Init, AnswerInv
<1>9. PrefixInv
  <2>1. \A r \in Receivers : \A n : ~Holds(r, n)
    BY DEF Init, Holds, Complete
  <2>2. \A r \in Receivers : received[r] = -1 /\ current[r] = 0
    BY DEF Init
  <2>3. \A r \in Receivers : \A n \in SliceNos : size[r][n] = Unknown
    BY DEF Init
  <2>4. 0 .. -1 = {}
    OBVIOUS
  <2> QED
    BY <2>1, <2>2, <2>3, <2>4 DEF PrefixInv
<1>10. AckedMeansReceived
  BY DEF Init, AckedMeansReceived, Acked
<1>11. SurvivorsServed
  BY DEF Init, SurvivorsServed
<1> QED
  BY <1>4, <1>5, <1>6, <1>7, <1>8, <1>9, <1>10, <1>11 DEF IInv

(* Stuttering *)
LEMMA StutterStep == IInv /\ UNCHANGED vars => IInv' /\ Acked' = Acked
<1> SUFFICES ASSUME IInv, UNCHANGED vars PROVE IInv' /\ Acked' = Acked
  OBVIOUS
<1>1. TypeOK' /\ CountsAgree' /\ SlotInv'
  <2>1. TypeOK'
    BY DEF vars, senderVars, receiverVars, IInv, TypeOK
  <2>2. CountsAgree'
    BY DEF vars, senderVars, receiverVars, IInv, CountsAgree, SliceCounts
  <2>3. SlotInv'
    BY DEF vars, senderVars, receiverVars, IInv, SlotInv, Unasked
  <2> QED
    BY <2>1, <2>2, <2>3
<1>2. FileInv'
  BY DEF vars, senderVars, receiverVars, IInv, FileInv, FileIs, PacketsOf, Unasked
<1>3. AnswerInv'
  BY DEF vars, senderVars, receiverVars, IInv, AnswerInv, AnswersOf, Holds, Unasked
<1>4. PrefixInv'
  BY DEF vars, senderVars, receiverVars, IInv, PrefixInv, Holds
<1>5. AckedMeansReceived' /\ Acked' = Acked
  BY DEF vars, senderVars, receiverVars, IInv, AckedMeansReceived, Acked
<1>6. ~SN => SurvivorsServed'
  BY DEF vars, senderVars, receiverVars, IInv, SurvivorsServed
<1> QED
  BY <1>1, <1>2, <1>3, <1>4, <1>5, <1>6 DEF IInv

-----------------------------------------------------------------------------
(* What one step does to what ReliableMulticast sees: somebody may leave,   *)
(* the sender frees a slice, or a receiver hands slices to its writer.      *)
Effect ==
    \/ UNCHANGED received /\ Acked' = Acked /\ participants' \subseteq participants
    \/ Frees /\ UNCHANGED <<participants, received>>
    \/ (\E r \in Receivers : Hands(r)) /\ UNCHANGED participants /\ Acked' = Acked

(* Every step keeps the invariant, and has one of the three effects. *)
LEMMA Step == IInv /\ [Next]_vars => IInv' /\ Effect
<1> SUFFICES ASSUME IInv, [Next]_vars PROVE IInv' /\ Effect
  OBVIOUS
<1>1. CASE CleanAndShift
  BY <1>1, CleanAndShiftStep DEF CleanAndShift, receiverVars, Effect
<1>2. CASE Retransmit
  BY <1>2, RetransmitStep DEF Retransmit, receiverVars, Effect
<1>3. CASE Proceed
  BY <1>3, ProceedStep DEF Proceed, receiverVars, Effect
<1>4. CASE MakeSlice
  BY <1>4, MakeSliceStep DEF MakeSlice, receiverVars, Effect
<1>5. CASE SendSlice
  BY <1>5, SendSliceStep DEF SendSlice, receiverVars, Effect
<1>6. CASE Finish
  BY <1>6, FinishStep DEF Finish, senderVars, receiverVars, Effect
<1>7. ASSUME NEW r \in Receivers, HandleOk(r) PROVE IInv' /\ Effect
  BY <1>7, HandleOkStep DEF HandleOk, Handle, receiverVars, Effect
<1>8. ASSUME NEW r \in Receivers, HandleRetransmit(r) PROVE IInv' /\ Effect
  BY <1>8, HandleRetransmitStep DEF HandleRetransmit, Handle, receiverVars, Effect
<1>9. ASSUME NEW r \in Receivers, HandleDisconnect(r) PROVE IInv' /\ Effect
  BY <1>9, HandleDisconnectStep DEF HandleDisconnect, Handle, receiverVars, Effect
<1>10. CASE TimeOut
  BY <1>10, TimeOutStep DEF TimeOut, receiverVars, Effect
<1>11. ASSUME NEW r \in Receivers, Receiver(r) PROVE IInv' /\ Effect
  <2>1. IInv' /\ (Hands(r) \/ UNCHANGED received)
    BY <1>11, ReceiveTooLateStep, ReceiveDataStep, ReceiveReqAckStep, ExitStep
       DEF Receiver
  <2>2. UNCHANGED senderVars
    BY <1>11 DEF Receiver, ReceiveTooLate, ReceiveData, ReceiveReqAck, Exit, Take
  <2>3. Acked' = Acked /\ participants' = participants
    BY <2>2 DEF senderVars, Acked
  <2> QED
    BY <2>1, <2>3 DEF Effect
<1>12. ASSUME NEW r \in Receivers,
              \/ LosePacket(r) \/ DuplicatePacket(r) \/ OvertakePacket(r)
              \/ LoseAnswer(r) \/ DuplicateAnswer(r) \/ Die(r)
       PROVE  IInv' /\ Effect
  <2>1. IInv' /\ UNCHANGED <<participants, received, rexmit, xmit, sliceNo>>
    BY <1>12, FaultStep
  <2> QED
    BY <2>1 DEF Effect, Acked
<1>13. CASE UNCHANGED vars
  BY <1>13, StutterStep DEF vars, senderVars, receiverVars, Effect
<1> QED
  BY <1>1, <1>2, <1>3, <1>4, <1>5, <1>6, <1>7, <1>8, <1>9, <1>10, <1>11, <1>12,
     <1>13 DEF Next, Sender, Network

(* IInv is an invariant of the transfer. *)
THEOREM Invariance == Spec => []IInv
<1>1. IInv /\ [Next]_vars => IInv'
  BY Step
<1> QED
  BY InitInv, <1>1, PTL DEF Spec

(* Every variable keeps its type: in particular a slice's counters never go
   below zero, whatever answers are repeated and whoever leaves. *)
THEOREM TypeCorrect == Spec => []TypeOK
<1>1. IInv => TypeOK
  BY DEF IInv
<1> QED
  BY Invariance, <1>1, PTL

(* The counters that drive netSenderMain agree with the sets they count. *)
THEOREM CountersAgree == Spec => []CountsAgree
<1>1. IInv => CountsAgree
  BY DEF IInv
<1> QED
  BY Invariance, <1>1, PTL

(* Every OK is true: on its way, late, repeated or counted. *)
THEOREM OksAreTrue == Spec => []OkIsTrue
<1>1. IInv => OkIsTrue
  <2> SUFFICES ASSUME IInv PROVE OkIsTrue
    OBVIOUS
  <2>1. ASSUME NEW r \in Receivers, NEW i \in 1 .. Len(toSender[r]),
               toSender[r][i].kind = "ok"
        PROVE  Holds(r, toSender[r][i].no)
    <3>1. toSender[r] \in Seq(AnswersOf(r))
      BY DEF IInv, AnswerInv
    <3>2. toSender[r][i] \in AnswersOf(r)
      BY <3>1, ElementOfSeq
    <3> QED
      BY <2>1, <3>2 DEF AnswersOf
  <2>2. \A r \in xmit.ready : Holds(r, xmit.no)
    BY DEF IInv, SlotInv, NoSlice
  <2>3. \A r \in rexmit.ready : Holds(r, rexmit.no)
    BY DEF IInv, AnswerInv
  <2> QED
    BY <2>1, <2>2, <2>3 DEF OkIsTrue
<1> QED
  BY Invariance, <1>1, PTL

(* The sender frees a slice only when every participant has it. *)
THEOREM AcknowledgedIsReceived == Spec => []AckedMeansReceived
<1>1. IInv => AckedMeansReceived
  BY DEF IInv
<1> QED
  BY Invariance, <1>1, PTL

(* The loop never waits for the answers to a slice that is not there. *)
THEOREM WaitsForASlice == Spec => []WaitHasSlice
  BY Invariance, WaitingFacts, PTL

(* In half duplex no receiver that the sender serves is ended by a packet. *)
THEOREM HalfDuplexServes ==
    ASSUME ~SN
    PROVE  Spec => []SurvivorsServed
<1>1. IInv => SurvivorsServed
  BY DEF IInv
<1> QED
  BY Invariance, <1>1, PTL

-----------------------------------------------------------------------------
(* Refinement                                                               *)

(* What a receiver has delivered lies within the window. *)
InWindow ==
    \A r \in Receivers : received[r] + 1 <= Acked + (IF SN THEN 2 ELSE 1)

(* Nobody has delivered a slice that the sender has not made. *)
LEMMA WithinWindow == IInv => InWindow
<1> SUFFICES ASSUME IInv, NEW r \in Receivers
             PROVE  received[r] + 1 <= Acked + (IF SN THEN 2 ELSE 1)
  BY DEF InWindow
<1>1. /\ received[r] \in -1 .. NrSlices /\ received[r] \in Int
      /\ Acked \in Int /\ Unasked \in Int /\ sliceNo \in Nat
  BY Numbers, BoundsAssumption DEF IInv, TypeOK
<1>2. /\ Acked \in {Unasked - 1, Unasked} /\ Unasked \in {sliceNo - 1, sliceNo}
      /\ ~SN => Acked >= sliceNo - 1
  BY Order
<1>3. received[r] < sliceNo
  <2>1. CASE received[r] = -1
    BY <1>1, <2>1
  <2>2. CASE received[r] # -1
    <3>1. received[r] \in 0 .. received[r]
      BY <1>1, <2>2
    <3>2. Holds(r, received[r])
      BY <3>1 DEF IInv, PrefixInv
    <3> QED
      BY <3>2 DEF Holds, Complete, IInv, FileInv, FileIs
  <2> QED
    BY <2>1, <2>2
<1> QED
  BY <1>1, <1>2, <1>3, ModeAssumption

(* Before the transfer nobody has anything and all are members. *)
LEMMA InitMulticast == Init => Multicast!MulticastInit
<1> SUFFICES ASSUME Init PROVE Multicast!MulticastInit
  OBVIOUS
<1>1. [r \in Receivers |-> received[r] + 1] = [r \in Receivers |-> 0]
  BY DEF Init
<1>2. Acked = 0
  BY DEF Init, Acked
<1> QED
  BY <1>1, <1>2 DEF Init, Multicast!MulticastInit

(* Freeing a slice is Release, a client that disconnects or is dropped makes
   Leave, a packet that completes slices is Deliver; all else stutters. *)
LEMMA StepMulticast ==
    IInv /\ [Next]_vars => [Multicast!MulticastNext]_(Multicast!multicastVars)
<1> SUFFICES ASSUME IInv, [Next]_vars
             PROVE  [Multicast!MulticastNext]_(Multicast!multicastVars)
  OBVIOUS
<1> DEFINE delivered == [r \in Receivers |-> received[r] + 1]
<1>1. IInv' /\ Effect
  BY Step
<1>2. received \in [Receivers -> -1 .. NrSlices]
  BY DEF IInv, TypeOK
<1>3. CASE /\ UNCHANGED received /\ Acked' = Acked
           /\ participants' \subseteq participants
  <2>1. \E gone \in SUBSET participants : participants' = participants \ gone
    <3> WITNESS participants \ participants' \in SUBSET participants
    <3> QED
      BY <1>3
  <2>2. Multicast!Leave
    BY <1>3, <2>1 DEF Multicast!Leave
  <2> QED
    BY <2>2 DEF Multicast!MulticastNext
<1>4. CASE Frees /\ UNCHANGED <<participants, received>>
  <2>1. \A r \in participants : delivered[r] > Acked
    <3> TAKE r \in participants
    <3>1. r \in Receivers /\ received[r] \in Int /\ Acked \in Int
      BY Numbers, BoundsAssumption DEF IInv, TypeOK
    <3> QED
      BY <1>4, <3>1 DEF Frees
  <2>2. Multicast!Release
    BY <1>4, <2>1 DEF Multicast!Release, Frees
  <2> QED
    BY <2>2 DEF Multicast!MulticastNext
<1>5. CASE /\ \E r \in Receivers : Hands(r)
           /\ UNCHANGED participants /\ Acked' = Acked
  <2>r. PICK r \in Receivers : Hands(r)
    BY <1>5
  <2>1. PICK last \in received[r] .. NrSlices :
           received' = [received EXCEPT ![r] = last]
    BY <2>r DEF Hands
  <2>2. /\ received[r] \in Int /\ last \in Int /\ last >= received[r]
        /\ received'[r] = last /\ Acked \in Int
    BY <1>2, <2>1, Numbers, BoundsAssumption DEF IInv
  <2>3. delivered' = [delivered EXCEPT ![r] = last + 1]
    BY <1>2, <2>1
  <2>4. CASE last = received[r]
    <3>1. received' = received
      BY <1>2, <2>1, <2>4
    <3> QED
      BY <1>5, <3>1 DEF Multicast!multicastVars
  <2>5. CASE last > received[r]
    <3>1. last + 1 <= Acked + (IF SN THEN 2 ELSE 1)
      <4>1. received'[r] + 1 <= Acked' + (IF SN THEN 2 ELSE 1)
        <5>1. IInv' => InWindow'
          BY WithinWindow, PTL
        <5> QED
          BY <1>1, <5>1 DEF InWindow
      <4> QED
        BY <1>5, <2>2, <4>1
    <3>2. last + 1 \in delivered[r] + 1 .. Acked + (IF SN THEN 2 ELSE 1)
      BY <2>2, <2>5, <3>1
    <3>3. Multicast!Deliver
      BY <1>5, <2>3, <3>2 DEF Multicast!Deliver
    <3> QED
      BY <3>3 DEF Multicast!MulticastNext
  <2> QED
    BY <2>2, <2>4, <2>5
<1> QED
  BY <1>1, <1>3, <1>4, <1>5 DEF Effect

(* The slice transfer implements the reliable multicast. *)
THEOREM Refinement == Spec => ImplementsMulticast
<1>1. Init => Multicast!MulticastInit
  BY InitMulticast
<1>2. IInv /\ [Next]_vars => [Multicast!MulticastNext]_(Multicast!multicastVars)
  BY StepMulticast
<1> QED
  BY <1>1, <1>2, Invariance, PTL
     DEF Spec, ImplementsMulticast, Multicast!MulticastSpec

=============================================================================
