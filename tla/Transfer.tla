------------------------------ MODULE Transfer ------------------------------
(***************************************************************************)
(* The slice transfer: the sender's main loop (src/senddata.c,             *)
(* netSenderMain) against the receivers' network threads                   *)
(* (src/receivedata.c), without forward error correction, in half duplex   *)
(* (SN = FALSE: one slice at a time) or full duplex (SN = TRUE: the next   *)
(* slice is transmitted while the previous one is being completed).        *)
(*                                                                         *)
(* A slice is a number and a count of blocks; the slice of no blocks ends  *)
(* the file.  Packets travel in order unless a fault strikes: a packet is  *)
(* lost, duplicated or overtaken, or a receiver dies; MaxFaults bounds     *)
(* them.  A packet of a receiver counts as in flight until the sender      *)
(* handles it, whether it is in the network, in the socket or already in   *)
(* the return channel's queue.                                             *)
(***************************************************************************)
EXTENDS Integers, Sequences, FiniteSets

CONSTANTS
    Receivers,      \* the participants that registered
    SN,             \* FLAG_SN
    NrSlices,       \* bound: data slices in the file
    BlockCounts,    \* the sizes a data slice may have, in blocks
    Retries,        \* config->retriesUntilDrop
    MaxFaults,      \* bound: network faults and receiver deaths
    EagerTimeout,   \* may the sender time out with answers under way?
    ByteBase        \* values of one byte; see AsRead

ASSUME ReceiversAssumption == IsFiniteSet(Receivers) /\ Receivers # {}
ASSUME ModeAssumption == SN \in BOOLEAN /\ EagerTimeout \in BOOLEAN
ASSUME BoundsAssumption ==
    NrSlices \in Nat /\ Retries \in Nat /\ MaxFaults \in Nat
ASSUME BlocksAssumption == BlockCounts \subseteq Nat \ {0}
ASSUME ByteAssumption == ByteBase \in Nat \ {0, 1}

VARIABLES
    (* the sender *)
    pc,            \* "top", "messages", "make" or "done": the place in the loop
    participants,  \* the valid entries of participantsDb
    xmit,          \* *xmitSlice
    rexmit,        \* *rexmitSlice
    sliceNo,       \* number of the next slice
    atEnd,         \* atEnd
    (* the receivers *)
    status,        \* "running", "closing", "finished", "failed" or "dead"
    current,       \* clst->currentSliceNo
    received,      \* clst->receivedSliceNo: last of the completed prefix
    size,          \* slice->bytes, in blocks; Unknown while !bytesKnown
    got,           \* slice->retransmit.map: the blocks that arrived
    (* the network *)
    toReceiver,    \* packets of the sender on their way to each receiver
    toSender,      \* answers of each receiver not yet handled
    faults         \* faults so far

senderVars == <<participants, xmit, rexmit, sliceNo, atEnd>>
receiverVars == <<status, current, received, size, got>>
vars == <<pc, senderVars, receiverVars, toReceiver, toSender, faults>>

Unknown == -1
SliceNos == 0 .. NrSlices

-----------------------------------------------------------------------------
(* The sender's slices                                                     *)

(* struct slice; NoSlice stands for the null pointer. *)
NoSlice == [no |-> -1, blocks |-> 0, state |-> "free", nextBlock |-> 0,
            ready |-> {}, nrReady |-> 0, answered |-> {}, nrAnswered |-> 0,
            needRxmit |-> FALSE, rxmitMap |-> {}, isXmittedMap |-> {},
            rxmitId |-> 0]

NewSlice(n, k) == [NoSlice EXCEPT !.no = n, !.blocks = k, !.state = "new"]

Data(sl, b) == [kind |-> "data", no |-> sl.no, blocks |-> sl.blocks,
                block |-> b, ready |-> {}, rxmit |-> 0]
ReqAck(sl) == [kind |-> "reqack", no |-> sl.no, blocks |-> sl.blocks,
               block |-> 0, ready |-> sl.ready, rxmit |-> sl.rxmitId]

(* sendReqack: everybody who is ready counts as having answered. *)
Asked(sl) == [sl EXCEPT !.answered = sl.ready, !.nrAnswered = sl.nrReady,
                        !.needRxmit = FALSE, !.rxmitMap = {},
                        !.isXmittedMap = {}]

(* markParticipantAnswered *)
MarkAnswered(sl, r) ==
    IF r \in sl.answered THEN sl
    ELSE [sl EXCEPT !.answered = @ \cup {r}, !.nrAnswered = @ + 1]

(* A mutant: a repeated OK counts again. *)
MarkReadyMutant(sl, r) ==
    MarkAnswered([sl EXCEPT !.ready = @ \cup {r}, !.nrReady = @ + 1], r)

(* handleOk on the slice it found *)
MarkReady(sl, r) ==
    IF r \in sl.ready THEN sl
    ELSE MarkAnswered([sl EXCEPT !.ready = @ \cup {r}, !.nrReady = @ + 1], r)

(* handleRetransmit on the slice it found *)
MarkMissing(sl, r, missing) ==
    MarkAnswered([sl EXCEPT !.rxmitMap = @ \cup missing, !.needRxmit = TRUE], r)

(* A mutant: a client that leaves always counted as ready. *)
ForgetMutant(sl, r) ==
    [sl EXCEPT !.ready = @ \ {r}, !.nrReady = @ - 1, !.answered = @ \ {r},
               !.nrAnswered = IF r \in sl.answered THEN @ - 1 ELSE @]

(* handleDisconnect1 *)
Forget(sl, r) ==
    [sl EXCEPT !.ready = @ \ {r},
               !.nrReady = IF r \in sl.ready THEN @ - 1 ELSE @,
               !.answered = @ \ {r},
               !.nrAnswered = IF r \in sl.answered THEN @ - 1 ELSE @]

(* handleRetransmit compares msg->retransmit.rxmit, which the receiver wrote
   with htonl, without converting it back: on a little-endian machine the
   bytes come in the opposite order and the result is a signed int.  Two
   bytes stand for the four of the code. *)
AsRead(x) ==
    LET v == (x % ByteBase) * ByteBase + x \div ByteBase
    IN  IF 2 * v >= ByteBase * ByteBase THEN v - ByteBase * ByteBase ELSE v

(* Multicast: the packets go to every receiver that still listens, dropped
   ones included. *)
Live(r) == status[r] \in {"running", "closing"}

Broadcast(packets) ==
    toReceiver' = [r \in Receivers |->
                    IF Live(r) THEN toReceiver[r] \o packets ELSE << >>]

(* A set of blocks in the order in which the loop of sendSlice sends them *)
Ascending(blocks) ==
    LET n == Cardinality(blocks)
    IN  {s \in [1 .. n -> blocks] : \A i, j \in 1 .. n : i < j => s[i] < s[j]}

-----------------------------------------------------------------------------
Init ==
    /\ pc = "top"
    /\ participants = Receivers
    /\ xmit = NoSlice /\ rexmit = NoSlice
    /\ sliceNo = 0 /\ atEnd = FALSE
    /\ status = [r \in Receivers |-> "running"]
    /\ current = [r \in Receivers |-> 0]
    /\ received = [r \in Receivers |-> -1]
    /\ size = [r \in Receivers |-> [n \in SliceNos |-> Unknown]]
    /\ got = [r \in Receivers |-> [n \in SliceNos |-> {}]]
    /\ toReceiver = [r \in Receivers |-> << >>]
    /\ toSender = [r \in Receivers |-> << >>]
    /\ faults = 0

-----------------------------------------------------------------------------
(* The sender: one pass of netSenderMain's loop goes from "top" through     *)
(* "messages" to "make", and leaves for the loop's condition after the      *)
(* first thing it did.                                                      *)

(* while (udpc_nrParticipants(...)) *)
LoopAgain(left) == pc' = IF left = {} THEN "done" ELSE "top"

(* A mutant: whoever asked for a retransmission counts as well. *)
AllReadyMutant == rexmit.nrAnswered = Cardinality(participants)

(* ackSlice and freeSlice if everybody is ready, then shift the transmitted
   slice to the retransmission slot and ask who has it. *)
AllReady == rexmit.nrReady = Cardinality(participants)

CleanAndShift ==
    /\ pc = "top"
    /\ LET kept == IF rexmit # NoSlice /\ AllReady THEN NoSlice ELSE rexmit
       IN  IF kept = NoSlice /\ xmit.state = "xmitted"
           THEN /\ rexmit' = Asked(xmit)
                /\ xmit' = NoSlice
                /\ Broadcast(<<ReqAck(rexmit')>>)
           ELSE rexmit' = kept /\ UNCHANGED <<xmit, toReceiver>>
    /\ pc' = "messages"
    /\ UNCHANGED <<participants, sliceNo, atEnd, receiverVars, toSender, faults>>

(* A mutant: the next slice is started in half duplex as well. *)
PipeFreeMutant == TRUE

(* Half duplex completes one slice before it starts the next. *)
PipeFree == SN \/ rexmit = NoSlice

(* A mutant: waits as well when there is nothing left to wait for. *)
WaitingMutant == pc = "make" /\ xmit.state # "new" /\ (xmit # NoSlice \/ atEnd)

(* Nothing left to transmit: the loop waits for an answer. *)
Waiting ==
    /\ pc = "make"
    /\ xmit.state # "new"
    /\ \/ xmit # NoSlice \/ atEnd
       \/ ~PipeFree
    /\ ~(atEnd /\ rexmit = NoSlice /\ xmit = NoSlice)

(* handleNextMessage, either where the loop looks or when an answer ends its
   wait: the pass that the code then begins finds nothing to clean or shift. *)
Handle(r, kind) ==
    /\ pc = "messages" \/ Waiting
    /\ toSender[r] # << >> /\ Head(toSender[r]).kind = kind
    /\ toSender' = [toSender EXCEPT ![r] = Tail(@)]
    /\ UNCHANGED <<sliceNo, atEnd, receiverVars, toReceiver, faults>>

(* findSlice: the slot that holds slice n is changed by an operation. *)
InXmit(n) == xmit.no = n
InRexmit(n) == xmit.no # n /\ rexmit.no = n

HandleOk(r) ==
    LET m == Head(toSender[r]) IN
      /\ Handle(r, "ok")
      /\ IF r \in participants
         THEN /\ xmit' = IF InXmit(m.no) THEN MarkReady(xmit, r) ELSE xmit
              /\ rexmit' = IF InRexmit(m.no) THEN MarkReady(rexmit, r) ELSE rexmit
         ELSE UNCHANGED <<xmit, rexmit>>
      /\ UNCHANGED participants
      /\ LoopAgain(participants)

HandleRetransmit(r) ==
    LET m == Head(toSender[r]) IN
      /\ Handle(r, "retransmit")
      /\ LET Counts(sl) == r \in participants /\ AsRead(m.rxmit) >= sl.rxmitId
         IN  /\ xmit' = IF InXmit(m.no) /\ Counts(xmit)
                        THEN MarkMissing(xmit, r, m.missing) ELSE xmit
             /\ rexmit' = IF InRexmit(m.no) /\ Counts(rexmit)
                          THEN MarkMissing(rexmit, r, m.missing) ELSE rexmit
      /\ UNCHANGED participants
      /\ LoopAgain(participants)

(* A mutant: the slices keep the answers of a client that left. *)
HandleDisconnectMutant(r) ==
    /\ Handle(r, "disconnect")
    /\ UNCHANGED <<xmit, rexmit>>
    /\ participants' = participants \ {r}
    /\ LoopAgain(participants')

(* Also for a client that was dropped while its message was queued *)
HandleDisconnect(r) ==
    /\ Handle(r, "disconnect")
    /\ xmit' = Forget(xmit, r)
    /\ rexmit' = Forget(rexmit, r)
    /\ participants' = participants \ {r}
    /\ LoopAgain(participants')

(* doRetransmissions: all that is asked for at one go, answers or not, but
   each block once for every time the receivers are asked *)
Retransmit ==
    /\ pc = "messages"
    /\ rexmit.needRxmit
    /\ LET resent == (rexmit.rxmitMap \cap 0 .. rexmit.blocks - 1)
                        \ rexmit.isXmittedMap
       IN  /\ \E s \in Ascending(resent) :
                 Broadcast([i \in 1 .. Cardinality(resent) |-> Data(rexmit, s[i])])
           /\ rexmit' = [rexmit EXCEPT !.needRxmit = FALSE,
                                       !.isXmittedMap = @ \cup resent]
    /\ LoopAgain(participants)
    /\ UNCHANGED <<participants, xmit, sliceNo, atEnd, receiverVars, toSender,
                   faults>>

(* No message has arrived and nothing is to be retransmitted; if everybody
   has answered, ask again. *)
AskAgain == [Asked(rexmit) EXCEPT !.rxmitId = @ + 1]

Proceed ==
    /\ pc = "messages"
    /\ ~rexmit.needRxmit
    /\ IF rexmit # NoSlice /\ rexmit.nrAnswered = Cardinality(participants)
       THEN rexmit' = AskAgain /\ Broadcast(<<ReqAck(AskAgain)>>)
       ELSE UNCHANGED <<rexmit, toReceiver>>
    /\ pc' = "make"
    /\ UNCHANGED <<participants, xmit, sliceNo, atEnd, receiverVars, toSender,
                   faults>>

(* makeSlice takes what the reader has delivered; an empty slice ends it. *)
MakeSlice ==
    /\ pc = "make"
    /\ xmit = NoSlice /\ ~atEnd
    /\ PipeFree
    /\ \E k \in IF sliceNo = NrSlices THEN {0} ELSE BlockCounts :
         /\ xmit' = NewSlice(sliceNo, k)
         /\ atEnd' = (k = 0)
    /\ sliceNo' = sliceNo + 1
    /\ UNCHANGED <<pc, participants, rexmit, receiverVars, toReceiver, toSender,
                   faults>>

(* sendSlice, first transmission: up to the end, or up to the first block
   after which it sees that an answer is waiting *)
SendSlice ==
    /\ pc = "make"
    /\ xmit.state = "new"
    /\ \E n \in xmit.nextBlock .. xmit.blocks :
         /\ \/ n = xmit.blocks
            \/ n > xmit.nextBlock /\ \E r \in Receivers : toSender[r] # << >>
         /\ xmit' = [xmit EXCEPT !.nextBlock = n,
                                 !.state = IF n = xmit.blocks THEN "xmitted" ELSE @]
         /\ Broadcast([i \in 1 .. n - xmit.nextBlock |->
                          Data(xmit, xmit.nextBlock + i - 1)])
    /\ LoopAgain(participants)
    /\ UNCHANGED <<participants, rexmit, sliceNo, atEnd, receiverVars, toSender,
                   faults>>

(* A mutant: nobody is dropped. *)
DroppedMutant == {}

(* A mutant: those who are ready are dropped as well. *)
DroppedReadyMutant == participants

(* The participants that the last timeout drops: those who are not ready *)
Dropped == participants \ rexmit.ready

(* pc_consumeAnyWithTimeout ran out: ask again, or after enough rounds drop
   everybody who is not ready. *)
TimeOut ==
    /\ Waiting
    /\ EagerTimeout \/ \A r \in Receivers :
                         toReceiver[r] = << >> /\ toSender[r] = << >>
    /\ IF rexmit.rxmitId > Retries
       THEN /\ participants' = participants \ Dropped
            /\ UNCHANGED <<rexmit, toReceiver>>
       ELSE /\ rexmit' = AskAgain
            /\ Broadcast(<<ReqAck(AskAgain)>>)
            /\ UNCHANGED participants
    /\ LoopAgain(participants')
    /\ UNCHANGED <<xmit, sliceNo, atEnd, receiverVars, toSender, faults>>

Finish ==
    /\ pc = "make"
    /\ atEnd /\ rexmit = NoSlice /\ xmit = NoSlice
    /\ pc' = "done"
    /\ UNCHANGED <<senderVars, receiverVars, toReceiver, toSender, faults>>

-----------------------------------------------------------------------------
(* A receiver: dispatchMessage                                              *)

Answer(r, kind, n, rxmit, missing) ==
    toSender' = [toSender EXCEPT ![r] = Append(@,
        [kind |-> kind, no |-> n, rxmit |-> rxmit, missing |-> missing])]

(* A mutant: the slice being received counts as well. *)
OldMutant(r, n) == n <= received[r] + 1

(* A slice that has been handed to the writer *)
Old(r, n) == n <= received[r]

(* A receiver that holds what it needs of slice n *)
Complete(sz, blocks) == sz # Unknown /\ Cardinality(blocks) = sz

(* findSlice on a slice past the current one: only the next slice is taken,
   no further than two past the completed ones, and (initSlice) only if the
   size of the current one is known; otherwise the receiver exits. *)
CanOpen(r, n) ==
    /\ n <= received[r] + 2
    /\ n = current[r] + 1
    /\ size[r][current[r]] # Unknown

(* checkSliceComplete, advanceReceivedPointer and cleanupSlices: what is
   complete in order goes to the writer; the empty slice ends the file. *)
Advance(r, n, sz, blocks) ==
    LET Has(k) == IF k = n THEN Complete(sz, blocks)
                  ELSE Complete(size[r][k], got[r][k])
    IN  \E last \in received[r] .. NrSlices :
          /\ \A k \in received[r] + 1 .. last : Has(k)
          /\ last < NrSlices => ~Has(last + 1)
          /\ received' = [received EXCEPT ![r] = last]
          /\ status' = [status EXCEPT ![r] =
                IF last > received[r] /\ (IF last = n THEN sz ELSE size[r][last]) = 0
                THEN "closing" ELSE @]

Update(r, n, sz, blocks) ==
    /\ size' = [size EXCEPT ![r][n] = sz]
    /\ got' = [got EXCEPT ![r][n] = blocks]
    /\ current' = [current EXCEPT ![r] = IF n > @ THEN n ELSE @]
    /\ Advance(r, n, sz, blocks)

(* The next packet; a receiver that has exited takes none. *)
Take(r) ==
    /\ Live(r)
    /\ toReceiver[r] # << >>
    /\ toReceiver' = [toReceiver EXCEPT ![r] = Tail(@)]
    /\ UNCHANGED <<pc, senderVars, faults>>

(* The process ends: nobody reads its packets any more. *)
Leave(r, how) ==
    /\ status' = [status EXCEPT ![r] = how]
    /\ toReceiver' = [toReceiver EXCEPT ![r] = << >>]
    /\ UNCHANGED <<current, received, size, got>>

(* exit(1) in findSlice, udpc_fatal in initSlice; sendDisconnectWrapper is
   registered with atexit, so a receiver that fails disconnects like others. *)
ReceiveTooLate(r) ==
    LET m == Head(toReceiver[r]) IN
      /\ Live(r) /\ toReceiver[r] # << >>
      /\ m.no > current[r] /\ ~CanOpen(r, m.no)
      /\ Leave(r, "failed")
      /\ Answer(r, "disconnect", 0, 0, {})
      /\ UNCHANGED <<pc, senderVars, faults>>

(* processDataBlock *)
ReceiveData(r) ==
    LET m == Head(toReceiver[r]) IN
      /\ Take(r)
      /\ m.kind = "data"
      /\ m.no > current[r] => CanOpen(r, m.no)
      /\ IF Old(r, m.no) \/ m.block \in got[r][m.no]
            \/ Complete(size[r][m.no], got[r][m.no])
         THEN UNCHANGED receiverVars
         ELSE Update(r, m.no, m.blocks, got[r][m.no] \cup {m.block})
      /\ UNCHANGED toSender

(* processReqAck.  A slice it has delivered it may not find any more, but
   the answer is the same. *)
ReceiveReqAck(r) ==
    LET m == Head(toReceiver[r]) IN
      /\ Take(r)
      /\ m.kind = "reqack"
      /\ m.no > current[r] => CanOpen(r, m.no)
      /\ IF r \in m.ready
         THEN /\ UNCHANGED <<status, received, size, got, toSender>>
              /\ current' = [current EXCEPT ![r] = IF m.no > @ THEN m.no ELSE @]
         ELSE IF Old(r, m.no)
         THEN UNCHANGED receiverVars /\ Answer(r, "ok", m.no, 0, {})
         ELSE /\ Update(r, m.no, m.blocks, got[r][m.no])
              /\ IF Complete(m.blocks, got[r][m.no])
                 THEN Answer(r, "ok", m.no, 0, {})
                 ELSE Answer(r, "retransmit", m.no, m.rxmit,
                             (0 .. m.blocks - 1) \ got[r][m.no])

(* No packet within exitWait: the thread ends, startReceiver disconnects. *)
Exit(r) ==
    /\ status[r] = "closing"
    /\ Leave(r, "finished")
    /\ Answer(r, "disconnect", 0, 0, {})
    /\ UNCHANGED <<pc, senderVars, faults>>

-----------------------------------------------------------------------------
(* Faults                                                                   *)

Fault == faults < MaxFaults /\ faults' = faults + 1

LosePacket(r) ==
    /\ Fault
    /\ toReceiver[r] # << >>
    /\ toReceiver' = [toReceiver EXCEPT ![r] = Tail(@)]
    /\ UNCHANGED <<pc, senderVars, receiverVars, toSender>>

DuplicatePacket(r) ==
    /\ Fault
    /\ toReceiver[r] # << >>
    /\ toReceiver' = [toReceiver EXCEPT ![r] = <<Head(@)>> \o @]
    /\ UNCHANGED <<pc, senderVars, receiverVars, toSender>>

OvertakePacket(r) ==
    /\ Fault
    /\ Len(toReceiver[r]) > 1
    /\ toReceiver' = [toReceiver EXCEPT ![r] = <<@[2], @[1]>> \o SubSeq(@, 3, Len(@))]
    /\ UNCHANGED <<pc, senderVars, receiverVars, toSender>>

LoseAnswer(r) ==
    /\ Fault
    /\ toSender[r] # << >>
    /\ toSender' = [toSender EXCEPT ![r] = Tail(@)]
    /\ UNCHANGED <<pc, senderVars, receiverVars, toReceiver>>

DuplicateAnswer(r) ==
    /\ Fault
    /\ toSender[r] # << >>
    /\ toSender' = [toSender EXCEPT ![r] = <<Head(@)>> \o @]
    /\ UNCHANGED <<pc, senderVars, receiverVars, toReceiver>>

Die(r) ==
    /\ Fault
    /\ Live(r)
    /\ Leave(r, "dead")
    /\ UNCHANGED <<pc, senderVars, toSender>>

-----------------------------------------------------------------------------
Sender ==
    \/ CleanAndShift \/ Retransmit \/ Proceed \/ MakeSlice \/ SendSlice \/ Finish
    \/ \E r \in Receivers : HandleOk(r) \/ HandleRetransmit(r) \/ HandleDisconnect(r)

Receiver(r) ==
    ReceiveTooLate(r) \/ ReceiveData(r) \/ ReceiveReqAck(r) \/ Exit(r)

Network ==
    \E r \in Receivers :
        \/ LosePacket(r) \/ DuplicatePacket(r) \/ OvertakePacket(r)
        \/ LoseAnswer(r) \/ DuplicateAnswer(r) \/ Die(r)

Next == Sender \/ TimeOut \/ (\E r \in Receivers : Receiver(r)) \/ Network

(* The sender's thread and every receiver that lives keep running, a packet
   that is not lost arrives, and a wait that nobody answers times out. *)
Fairness ==
    /\ WF_vars(Sender)
    /\ WF_vars(TimeOut)
    /\ \A r \in Receivers : WF_vars(Receiver(r))

Spec == Init /\ [][Next]_vars /\ Fairness

-----------------------------------------------------------------------------
(* Properties                                                               *)

SliceType ==
    [no : Int, blocks : Nat, state : {"free", "new", "xmitted"},
     nextBlock : Nat, ready : SUBSET Receivers, nrReady : Nat,
     answered : SUBSET Receivers, nrAnswered : Nat, needRxmit : BOOLEAN,
     rxmitMap : SUBSET Nat, isXmittedMap : SUBSET Nat, rxmitId : Nat]

PacketType ==
    [kind : {"data", "reqack"}, no : SliceNos, blocks : Nat, block : Nat,
     ready : SUBSET Receivers, rxmit : Nat]

AnswerType ==
    [kind : {"ok", "retransmit", "disconnect"}, no : SliceNos, rxmit : Nat,
     missing : SUBSET Nat]

TypeOK ==
    /\ pc \in {"top", "messages", "make", "done"}
    /\ participants \subseteq Receivers
    /\ xmit \in SliceType /\ rexmit \in SliceType
    /\ sliceNo \in 0 .. NrSlices + 1 /\ atEnd \in BOOLEAN
    /\ status \in [Receivers -> {"running", "closing", "finished", "failed",
                                 "dead"}]
    /\ current \in [Receivers -> SliceNos]
    /\ received \in [Receivers -> -1 .. NrSlices]
    /\ size \in [Receivers -> [SliceNos -> Nat \cup {Unknown}]]
    /\ got \in [Receivers -> [SliceNos -> SUBSET Nat]]
    /\ toReceiver \in [Receivers -> Seq(PacketType)]
    /\ toSender \in [Receivers -> Seq(AnswerType)]
    /\ faults \in 0 .. MaxFaults

(* The counters nrReady and nrAnswered that decide when a slice is done and
   when to ask again agree with the bit sets, through duplicate answers,
   disconnections and drops; whoever is ready is a valid participant. *)
SliceCounts(sl) ==
    /\ sl.nrReady = Cardinality(sl.ready)
    /\ sl.nrAnswered = Cardinality(sl.answered)
    /\ sl.ready \subseteq sl.answered
    /\ sl.ready \subseteq participants

CountsAgree == SliceCounts(xmit) /\ SliceCounts(rexmit)

(* An OK says the truth for ever: on its way, duplicated, late, or counted in
   the sender's ready set, the receiver holds all of that slice. *)
Holds(r, n) == n \in SliceNos /\ Complete(size[r][n], got[r][n])

OkIsTrue ==
    /\ \A r \in Receivers : \A i \in 1 .. Len(toSender[r]) :
          toSender[r][i].kind = "ok" => Holds(r, toSender[r][i].no)
    /\ \A sl \in {xmit, rexmit} : \A r \in sl.ready : Holds(r, sl.no)

(* Slices below Acked have been acknowledged, and their memory went back to
   the thread that reads the file. *)
Acked == IF rexmit # NoSlice THEN rexmit.no
         ELSE IF xmit # NoSlice THEN xmit.no ELSE sliceNo

(* The sender frees a slice only once nobody it still serves needs it: every
   participant has all slices below the first unacknowledged one. *)
AckedMeansReceived == \A r \in participants : received[r] >= Acked - 1

(* cmd.html: "after each slice, the server asks the receivers whether they
   have received all blocks, and if needed retransmits what has been
   missing".  So losses, late and repeated packets and timeouts never end a
   receiver that the sender still serves; only one that was dropped runs into
   "Dropped by server" or "Previous slice size not known".  This holds in half
   duplex.  In full duplex a receiver that missed all of one slice is ended by
   the first packet of the next. *)
SurvivorsServed == \A r \in participants : status[r] # "failed"

(* The wait of the loop dereferences rexmitSlice (its rxmitId) before the
   test for a null pointer further down; it never waits without one. *)
WaitHasSlice == Waiting => rexmit # NoSlice

(* Whatever is lost and whoever dies, the sender comes to an end. *)
SenderFinishes == <>(pc = "done")

(* With a sender that waits long enough and more retries than faults, every
   receiver that lives gets the whole file and leaves. *)
EverybodyServed ==
    \A r \in Receivers : 
        <>(\/ status[r] = "dead"
           \/ (status[r] = "finished" /\ received[r] = NrSlices))

(* Why the safety properties hold, as one inductive invariant.  Slices below
   Unasked have been asked about. *)
Unasked == IF xmit = NoSlice THEN sliceNo ELSE xmit.no

SlotInv ==  \* what the two slots of the sender can hold
    /\ xmit # NoSlice => /\ xmit.no = sliceNo - 1 /\ xmit.no \in SliceNos
                         /\ xmit.state \in {"new", "xmitted"}
                         /\ xmit.ready = {} /\ xmit.answered = {}
                         /\ xmit.nextBlock <= xmit.blocks
    /\ rexmit # NoSlice => rexmit.no = Unasked - 1 /\ rexmit.no \in SliceNos
    /\ ~SN => xmit = NoSlice \/ rexmit = NoSlice
    /\ pc \in {"messages", "make"} /\ rexmit = NoSlice => xmit.state # "xmitted"
    /\ sliceNo = NrSlices + 1 => atEnd

(* All packets, and what the receivers know, tell of one and the same file. *)
PacketsOf(f) ==
    {p \in PacketType : /\ p.no < sliceNo /\ p.blocks = f[p.no]
                        /\ p.kind = "reqack" => p.no < Unasked}

FileIs(f) ==
    /\ xmit # NoSlice => xmit.blocks = f[xmit.no]
    /\ rexmit # NoSlice => rexmit.blocks = f[rexmit.no]
    /\ \A r \in Receivers : \A n \in SliceNos :
          size[r][n] # Unknown => size[r][n] = f[n] /\ n < sliceNo
    /\ \A r \in Receivers : toReceiver[r] \in Seq(PacketsOf(f))

FileInv == \E f \in [SliceNos -> BlockCounts \cup {0}] : FileIs(f)

(* Only slices that were asked about are answered, and an OK is true. *)
AnswersOf(r) ==
    {a \in AnswerType : /\ a.kind # "disconnect" => a.no < Unasked
                        /\ a.kind = "ok" => Holds(r, a.no)}

AnswerInv ==
    /\ \A r \in Receivers : toSender[r] \in Seq(AnswersOf(r))
    /\ \A r \in rexmit.ready : Holds(r, rexmit.no)

PrefixInv ==  \* received is the end of the longest complete prefix
    \A r \in Receivers :
        /\ received[r] <= current[r]
        /\ \A n \in SliceNos : size[r][n] # Unknown => n <= current[r]
        /\ \A n \in 0 .. received[r] : Holds(r, n)
        /\ ~Holds(r, received[r] + 1)

IInv ==
    /\ TypeOK /\ CountsAgree /\ SlotInv /\ FileInv /\ AnswerInv /\ PrefixInv
    /\ AckedMeansReceived
    /\ ~SN => SurvivorsServed

(* The transfer is a reliable multicast of slices. *)
Multicast == INSTANCE ReliableMulticast WITH
    Window <- IF SN THEN 2 ELSE 1,
    members <- participants,
    delivered <- [r \in Receivers |-> received[r] + 1],
    released <- Acked

ImplementsMulticast == Multicast!MulticastSpec

(* senddata.c, struct slice: rxmitId is "used to distinguish among several
   retransmission requests, so that we can easily discard answers to 'old'
   requests".  So an answer to an earlier request changes nothing and an answer
   to the present one counts.  Neither holds: the id is compared without ntohl.
   An answer to request 1 reads as a huge number, later than any request; once
   the low byte of the id has its top bit set, the answer to the present
   request reads as a negative one. *)
TellsAge(m, old, new, r) ==
    IF m.rxmit < old.rxmitId THEN new = old ELSE r \in new.answered

RequestsToldApart ==
    [][\A r \in participants :
          HandleRetransmit(r) /\ Head(toSender[r]).no = rexmit.no
             => TellsAge(Head(toSender[r]), rexmit, rexmit', r)]_vars
=============================================================================
