# A verification development for udpcast

udpcast copies one file or stream to many receivers at once over UDP multicast
or broadcast. `udp-sender` cuts the data into slices of blocks, transmits each
slice, asks the receivers whether they have it, retransmits what is missing and
frees the slice when everybody has it; `udp-receiver` collects the blocks and
writes the slices out in order. This directory holds TLA+ models of that
program, TLC configurations that check them, and proofs that TLAPS checks.

## 1. Inventory

| Component | Source | State | Operations | Interacts with | What is hard |
|---|---|---|---|---|---|
| produconsum | `produconsum.c` | two counters modulo 2*size, end mark, waiting flag, mutex, condition | `pc_produce`, `pc_produceEnd`, `pc_consume*`, `pc_consumed` | every pair of threads talks through it | shared fields read and written without the mutex; wrap-around; lost wake-ups; end of file racing the last data |
| fifo and disk threads | `fifo.c`, `sender-diskio.c`, `receiver-diskio.c` | ring buffer, `freeMemQueue`, `data` | `localReader`, `writer` | network threads, by two produconsums back to back | chunking at the ring's end, who blocks on whom |
| sender main loop | `senddata.c` | `xmitSlice`, `rexmitSlice`, ready and answered sets with their counters, retransmission maps, round number | `netSenderMain`, `makeSlice`, `sendSlice`, `sendReqack`, `handleOk`, `handleRetransmit`, `handleDisconnect` | return channel, participants database, network | late, lost and repeated answers, timeouts, drops while answers are queued |
| return channel | `senddata.c` | 256 message slots, two produconsums | `returnChannelMain`, `handleNextMessage` | network, main loop | a full queue; senders that are dropped while a message is queued |
| slice size control | `senddata.c` | `sliceSize`, `discovery` | `ackSlice`, `sendReqack` | main loop | bounds, feedback |
| receiver network thread | `receivedata.c` | slice ring, current and received slice number, block maps | `dispatchMessage`, `processDataBlock`, `processReqAck` | network, writer | loss of whole slices, completion out of order, the end of the file |
| FEC threads | `senddata.c`, `receivedata.c` | queues of slices to encode and to decode | `fecMain` (both) | main loops | two threads changing a slice's state |
| FEC algebra | `fec.c` | tables | `fec_encode`, `fec_decode` | FEC threads | matrix inversion, index ranges |
| participants database | `participants.c` | table of clients | add, look up, remove | negotiation, main loop, return channel | removal during transfer |
| negotiation | `udps-negotiate.c`, `udpr-negotiate.c` | clients, start times | hello, connect, go, start conditions | participants | lost replies, timeouts |
| rate limiting | `rate-limit.c`, `rateGovernor.c`, `auto-rate.c` | time and size accounts | `doRateLimit` | every send | rounding |
| programs and options | `udp-sender.c`, `udp-receiver.c` | option values, daemon's session loop | normalisation of options | negotiation | what one session leaves to the next |
| console | `console.c` | a key read once | `selectWithConsole`, `restoreConsole` | negotiation | a key consumed together with a message |
| sockets, log, statistics, processes | rest | none of the protocol's | I/O | all | |

What makes each part correct:

* produconsum: the consumer is never told of units that are not there, never
  sleeps on what it could have, and learns of the end only after everything was
  handed over; the producer's sanity check never kills an obedient program.
* sender: a slice is freed only when every participant has it; its counters
  agree with its sets; it comes to an end whatever is lost and whoever dies.
* receiver: an OK is true; slices go to the writer in order and the end last;
  a receiver the sender still serves does not give up.
* sender's threads: no byte, slice, parity block or message is overwritten while
  somebody needs it, and no circle of waiting keeps the program from its end.
* FEC: any lost blocks are repaired from as many parity blocks; a slot, a block
  space or a unit of memory is in one place; what is finished reaches the writer.
* negotiation: sender and receiver agree on who is registered under which number,
  where data go and what everybody supports; nobody is left waiting.

## 2. Modules

| Module | Models |
|---|---|
| `AbstractQueue` | what a produconsum promises: a bounded number of units, an end mark, one outstanding question |
| `Produconsum` | `produconsum.c`, one action per access to a shared field |
| `MCProduconsum` | the instances TLC checks |
| `ProduconsumProofs` | the theorems about `Produconsum` |
| `ReliableMulticast` | what the transfer promises: slices delivered in order, forgotten only when every member has them, at most one or two in flight |
| `Transfer` | `netSenderMain` and its handlers, `dispatchMessage` and its handlers, and the network between them |
| `MCTransfer` | the instances TLC checks |
| `TransferProofs` | the theorems about `Transfer` and its refinement of `ReliableMulticast` |
| `SenderThreads` | the four threads of the sender and the queues and memory they share |
| `MCSenderThreads` | the instances TLC checks |
| `SenderThreadsProofs` | the theorems about `SenderThreads` |
| `FecCode` | `fec.c`: tables, inversion, encoding and decoding |
| `FecFieldProofs` | the theorem that the tables of `FecCode` are those of a field, and induction |
| `FecMatrixProofs` | the theorem that `invert_mat` inverts every matrix |
| `FecCodeProofs` | the theorems about the unrolled loops, and that decoding undoes every loss |
| `FecReceiver` | the receiver with FEC: network thread, FEC thread, writer; uses `FecCode` |
| `FecReceiverProofs` | the theorems about `FecReceiver` and its refinement of `ReliableMulticast` |
| `Negotiation` | `udps-negotiate.c`, `udpr-negotiate.c`, `participants.c`, the daemon's sessions |
| `MCNegotiation` | the configurations of the sender TLC checks |
| `NegotiationProofs` | the theorems about `Negotiation` |

How they fit together: `Negotiation` ends where `Transfer` begins, with a table of
participants and an address for the data. `Transfer` is the protocol between one
sender and its receivers, each of them one process. `SenderThreads` opens up the
sender and reduces the receivers to what answers; `FecReceiver` opens up the
receiver and reduces the sender to what may arrive. Both `Transfer` and, where the
sender waits for acknowledgements, `FecReceiver` implement `ReliableMulticast`: the one
for all receivers and a lossy network, the other for one receiver with its slots,
its memory and its threads. All pairs of threads talk
through queues that `Produconsum` shows to be `AbstractQueue`s, which is why the
other modules may take a queue's operations as single steps; where they must not
(`LookAtAmount` and `LookAtEnd`), the two looks are two steps.

Definitions whose name ends in `Mutant` are deliberate errors that stand before
the definition they replace; they show that a property can fail.

### Produconsum

`produced`, `consumed`, `atEnd`, `waiting`, `mutex` are the fields of the
struct. `pp` and `cp` are the places of the producer's thread (between the
statements of `pc_produce`, `pc_produceEnd` and `wakeConsumer`) and of the
consumer's (in `_consumeAny`). The fields are shared without a lock, so every
read and every store is an action of its own; in particular `ReadAmount` and
`ReadEnd`, which the C source writes in one condition. `pc_produce` reads
`consumed` once, early; the consumer only ever frees room after that, so the
check is one action. The sleep on the condition variable releases the mutex
atomically, may wake without a signal (`SpuriousWake`) and may time out only if
the call has a timeout.

`delay` says whether the machine delays the producer's stores. Where it does,
a store waits in `buffer` until `DrainStore`, or until the mutex, a barrier,
forces it out; one store waits at a time. `fill` and `closed` are history
variables.

The producer adds at most the room that is left, because every producer in the
code takes its room from the queue that runs the other way. The consumer asks
for an amount of `Mins`, takes any part of what it is told of, and ends when a
call without timeout tells it of nothing, as every caller does.

### Transfer

One action per pass of the main loop's stages: `CleanAndShift` (lines 774-798),
the three message handlers, `Retransmit`, `Proceed` (ask again if everybody
answered), `MakeSlice`, `SendSlice`, `TimeOut`, `Finish`. The order of the
stages and the `continue` after each is in `pc`. A slice is a record with the
fields of `struct slice`; sets stand for bit maps, and the counters `nrReady`
and `nrAnswered` are kept beside them as in the code, not computed.
A receiver has the number of the current and of the last completed slice, and
for each slice its size (in blocks) once known and the blocks that arrived.

`toReceiver[r]` and `toSender[r]` are the packets on their way. An answer is on
its way until the sender handles it, so the socket and the return channel's
queue are part of it; a packet that the return channel throws away because its
sender was dropped is one that the handlers ignore.
Faults (`LosePacket`, `DuplicatePacket`, `OvertakePacket`, `LoseAnswer`,
`DuplicateAnswer`, `Die`) are actions bounded by `MaxFaults`.
A receiver that exits, in good order or not, sends a DISCONNECT
(`sendDisconnectWrapper` is registered with `atexit`); one that dies does not.

`AsRead` models what the missing `ntohl` makes of a retransmission request's
id; two bytes stand for four.

### SenderThreads

The byte queues' counters are totals that never wrap, so that a byte has its place
in the stream as its name; `buffer` says which byte each cell of the fifo's memory
holds. `freed` and `taken` are the free memory's `produced` and `consumed`,
`read` and `made` those of `data`. The threads:

* disk reader: `Read` waits for a page of free memory and reads into it (a short
  read is one byte, a full one all that was asked for), `ReaderConsumed` and
  `ReaderProduces` are the two calls that follow, in the order of the code.
* maker: `makeSlice`, run by the FEC thread where there is one and by the network
  thread where not: `TakeSlot`, `LookAtAmount`, `LookAtEnd`; with FEC also
  `FecEncode`, which zeroes the padding of the last block, and `FecProduce`.
* return channel: `RcReceives` peeks a free slot and receives into it, `RcLooksUp`
  hands the slot over if the sender of the packet is a participant.
* network thread: the stages of `netSenderMain` in `netPc`. `freeSlice` is three
  steps (`PreFree`, `GiveSlots`, `ProduceSlot`) because the maker takes slots
  meanwhile; `HandleMessage` and `GiveBack` are two because the slot of a message
  is its own until it is given back. `SendSlice` may stop after any block at which
  a message waits. `Asked` is `sendReqack` and, in asynchronous mode, the
  acknowledgement it stands for; `Acked` is `ackSlice`; `Grown` and `Reduced` are
  the slice size control.

Left out or merged: `RcReceives` is the wait and the RECV in one, `Read` the wait
and the read; the FEC blocks of a slice count as one block to send; a receiver
answers each request once or not at all (repeated and late answers are the
subject of `Transfer`), and a number of a retransmission request in network
order is "late" only for request 0, as in the code for less than 128 requests.
`cut` is a history variable: a slice was made shorter than what had been read,
because of the stale end of file of departure 1 below. From then on the content
is not checked, see "seen while reading".

### FecCode and FecReceiver

`FecCode` is `fec.c` with the size of the field and the unrolling as constants.
One symbol stands for a block, as all operations treat the symbols of a block
alike. `invert_mat` keeps the order of the pivots, the exchange of rows and the
final exchange of columns; assembler variants of the two inner loops are left out.
`Power` is the table of powers as `generate_gf` fills it, `TimesX` its step from one
power to the next. Matrices are sequences of rows counted from 1, blocks of a group
are counted from 0 as in the code. `Primitive`, `Product`, `Total` and `Dot` state
what the code promises and are not part of it.

`FecReceiver` has the slots of `receivedata.c` as records, with the block map, both
counters, `missing` and `fec` of each group (`missing_data_blocks`, `fec_blocks`
and `fec_descs`). Block spaces are numbered; `freeBlocks` is the reservoir, `local` the
network thread's own stack, `nextBlock` where the next message is received to, `heap`
what a space holds. The network thread's `Receive` handles any message of `OnTheWire`:
every block of every slice begun may come at any time, again, or never, which
stands for loss, repetition and reordering at once. It stops in `find` where the
code blocks in `newSlice` or for a block space (`Resume`). The walk of
`advanceReceivedPointer` is one slot to a step (`AdvanceStep`), because the FEC
thread changes the slots meanwhile; so is `cleanupSlices` (`NetClean`, `FecClean`).
The walk compares a slot's state, which is volatile, with `FEC`, `FEC_DONE` and `DONE` in
three reads. Only one change can come between them with an effect of its own, that from
`DONE` to `FEC_DONE` before the last: `SeeDone` is the first two reads of a slot
that is `DONE`, after which `AdvanceStep` is the third.
`netPc` says for whom the walk runs. The FEC thread is `FecTake`, `FecDecode`,
`FecRelease`, `FecClean`. The content of slices is computed with `fec_encode` and
`fec_decode` of `FecCode`, so that "intact" means the numbers come out right.

For `ImplementsMulticast`, `Delivered` is how many slices were received without a
gap (`Received`: handed over, or finished in a slot), and `Forgotten` how many the
sender has given up in order to begin those it has begun. In asynchronous mode
nothing is acknowledged and nothing of this is promised.

Left out: the writer's chunks and its wait for a page (`Writer` gives back what it
wrote in one step); the receive timeout, streaming and `--ignore-lost-data`.
`FecInOrder` says whether FEC blocks may arrive after blocks of a later slice.

### Negotiation

The sender's process is in `sPc`: `dispatch` is `mainDispatcher`, with `Tick` and
`Timeout` for its select, `Dispatch` for its messages, `KeyPressed` for the console;
`BeginTransfer` is the beginning of `doTransfer`, with what it agrees on; `NextSession`
the next round of a daemon, which looks at the interface again for full duplex (`duplex`
says whether it finds it, or `--full-duplex` or `--half-duplex` was given). Of the transfer
the module has what happens to the participants: `ReturnChannel` removes one that leaves,
`DropParticipant` any at all, since who misses the last retry is the subject of `Transfer`;
a receiver that was dropped is not told and goes on. Time counts turns of select (`sinceFirst` for
`firstConnected`, `sinceLoop` for `loopStart`, `tries` for the hellos of `--autostart`).
`Connect` is `sendConnectionReply` with `addParticipant`. The receivers' `HearHello`,
`HearReply` and `HearTransfer` are the cases of `startReceiver`'s loop and the first
packet in `dispatchMessage`. `net` is a set: messages are delayed and reordered
without bound and lost (`Lose`); being kept once, a repeated message is the same
message again. `rSession` is a history variable.

A receiver may be started again under its address, `conf.runs` times in all, after it left or
failed: the sender may still have its entry, and requests of the run before may be on
their way, but not its `DISCONNECT` (see "seen while reading"). `ConnectedIsRegistered` is
exact until the transfer begins; in the transfer a connected receiver may have been dropped,
but its number is nobody else's. It says nothing of a receiver that believes a
reply of an earlier session, which the model lets it do and the code too.

## 3. Runs

| Run | Question | Bounds | Result |
|---|---|---|---|
| `queue` | is a produconsum a bounded queue? | ring of 3, questions for 1 or 2 units, both memory models | holds |
| `queue_eof` | does 0 mean the end of the file? | as above, no delay | violated |
| `queue_delayed_store` | does the consumer wait no longer than it must on a machine that delays stores? | as above, delay | violated |
| `transfer_half` | half duplex: bookkeeping, truth of OKs, what an acknowledged slice means, refinement, termination | 2 receivers, one slice of 2 blocks and the final one, 1 retry, 1 fault, timeouts at any time | holds |
| `transfer_duplex` | truth of OKs, what an acknowledged slice means and refinement with two slices in flight; a slice to wait for | 2 receivers, two slices of 1 block and the final one, no retry, 1 fault | holds |
| `transfer_patient` | is every living receiver served? | 2 receivers, two slices of 1 or 2 blocks, 2 retries, 2 faults, timeouts only when nothing is under way | holds |
| `transfer_lost_slice` | the same in full duplex | two slices of 1 block | violated |
| `transfer_late_answer` | can the sender tell answers to different requests apart? | 1 receiver, 3 retries | violated |
| `sender_threads` | is anything overwritten while it is needed, and do the sender's threads come to an end? | half and full duplex, asynchronous, each with and without FEC; 9 bytes in blocks of 2, a buffer of 4 blocks, slices of up to 2 blocks, 2 message slots, 1 receiver | holds (1.2 million states) |
| `fec_receiver` | are slots, queues, block spaces and memory of the receiver consistent, does the writer get what was sent, is nothing received lost again (refinement), does the search for an old slice end, do the tables of `fec.c` describe a field, and does it invert and repair? | field of 8, unrolling 2; 3 slots, slices 0 to 3, 2 blocks to a slice in 2 groups with 1 parity block each, 3 block spaces, memory of 6; FEC blocks in the order of their slices | holds (0.8 million states) |
| `fec_pointer` | is a receiver that has everything kept? | field of 4; 4 slots, slices 0 to 5, 1 group, asynchronous | violated |
| `negotiation` | are registration and agreement exact, and is everybody served? | 2 receivers, one of the old generation, the other started twice in two of the configurations, a table of 2, six configurations of options | holds (127 thousand states) |

Why these bounds are enough to be of interest. A ring of 3 has counters 0 to 5:
every run wraps them, fills and empties the ring, and asks for more than one
unit. Two receivers let one be ready, gone, dropped or late while the other is
not, which is all that the counters compare. Two blocks to a slice make a
partial loss different from a whole one; three slice numbers in full duplex let
an answer to a freed slice arrive while two younger ones are in flight. One
fault together with timeouts at any moment already produces late answers of
several rounds and drops of living receivers; a dropped receiver goes on
listening and answering in the model as in reality.

In `sender_threads` the file is longer than the buffer, so that the reader goes
round the ring and waits for acknowledgements; it has an odd byte, so that the last
block is padded; the slice size grows to its limit and is reduced; the two message
slots are full when receivers leave. The two slots for slices are those of the code.
One receiver suffices: what several do to the counters is checked in `Transfer`.
In `fec_receiver` the number of slices exceeds that of the slots, block spaces
run out and are waited for, memory is exhausted, and both modes occur. The order
of the groups' parity blocks, all pivots, and groups of every size up to half the
field are tried by `ErasuresRepaired`, all 0-1 matrices of order 3 by
`InversionIsExact`; a field of 8 is the smallest with a decoder matrix of order 4.
The program's own field of 256 is left to the theorems, which hold for every size.
In `negotiation` the configurations are: console with start timeout; two receivers
wanted, with a longest wait and repeated hello; one wanted with a least wait and
broadcast in half duplex; point-to-point with console; a daemon for two sessions, multicast; and
asynchronous with `--autostart` and console. In the fourth and the fifth one receiver starts
twice, in the fifth so that its runs fall into one session or into two; the fourth has
full duplex as an option, the others find it at the interface.

`CHECK_DEADLOCK FALSE`: all three of the sender, the receiver and the negotiation
end, and receivers need not send anything. The queue stops when the file has ended and the
transfer when the sender is done and the receivers have left.

### Fairness

`Produconsum`: both threads are scheduled, a delayed store reaches memory.
Nothing forces the producer to produce or end, the consumer to ask, a timeout to
expire or a spurious wake-up to come. `Transfer`: the sender's thread, every
living receiver's thread and the timeout of `pc_consumeAnyWithTimeout` are
weakly fair; faults are not. In `transfer_half` the sender may time out although
answers are under way (`EagerTimeout`), so no receiver can expect to be served
and only the sender's end is checked; in `transfer_patient` it times out only
when nothing is under way, which the adaptive wait of the code aims at.

`SenderThreads`: reader, maker, network thread and the second half of the return
channel's step are weakly fair; the threads are scheduled, a read of the file
returns, and the wait of the network thread has a timeout. Receivers need not
answer, so `RcReceives` is not fair: the end must come without them.
`FecReceiver`: the network thread's steps other than receiving, the FEC thread and the
writer are weakly fair; that decoding ends is written `[]<>(fecPc # "decode" ...)`,
which says the same as weak fairness of `FecDecode`, always enabled there.
Nothing need arrive. `Negotiation`: time passes and select returns (weakly fair); of a
message that is sent again and again some arrive (strong fairness of its reception).
No key need be pressed, no receiver start, leave or send a go.

## 4. Departures of the code from its documentation

1. `EndOfFileMeansDrained` (`produconsum.c:113` and `:121`): the amount is read
   before `atEnd`. If the producer produces and ends in between, the consumer is
   told of the old amount. For the writer and for `makeSlice` 0 is the end of
   the file, so the last chunk is left out.
2. `WaitsNoLonger` (`produconsum.c:41`): no barrier between the store and the
   read of `consumerIsWaiting`.
3. `SurvivorsServed` in full duplex (`receivedata.c:366`, `:259`): a receiver that
   lost all of one slice is ended by the next one instead of being asked again.
4. `RequestsToldApart` (`senddata.c:664`): `rxmit` is compared without `ntohl`.
   Answers to earlier requests count for the present one; from request 128 on
   answers to the present one are thrown away, and with the default of 200
   retries a living receiver can then be dropped.

5. `DroppedOnlyWhenBehind` (`receivedata.c:412-418`): `receivedSliceNo` is not the
   last of the slices received without a gap, and the next message ends the receiver. There
   are two ways to it. A slot goes from `DONE` to `FEC_DONE` between the second and the
   third comparison of `advanceReceivedPointer`, so that the walk stops at a slice that is
   finished. Or the walk goes round while the FEC thread frees slots behind it, and
   `receivedSliceNo` falls back.

Seen while reading, and left to a reader's judgement; no run is about them:

* Receiver with FEC (`receivedata.c:521`, `:665`): a slice finished before the first
  FEC block came is never put in the FEC thread's queue. If FEC blocks arrive after
  blocks of a later slice it stays finished and blocks all behind it; with
  `FecInOrder = FALSE` `FinishedIsHandedOver` fails. The comment of `fecMain` at
  `:607` speaks of a slice in the queue that is not finished or already cleaned
  up, which `FecQueueExact` shows not to happen.
* The stale end of file (`produconsum.c:113`) can also make a slice shorter than the
  data there; its padding is then zeroed (`senddata.c:984`) in the first bytes
  of the next slice. Without it the padding is safe, because `makeSlice` took a whole
  number of blocks, or all there was at the end.
* A daemon keeps `dataMcastAddr` and the flags of the last session
  (`udps-negotiate.c:371`, `:474`, `:503`). After one with a single receiver and the
  automatic choice of point-to-point, data of a session with two go to the address of
  the first session's receiver; the run has its second session with point-to-point off.
* `--async` and then `--half-duplex` (`udp-sender.c:314`): the sender ends after the
  first slice (`senddata.c:865`). `SizesAssumption` leaves the combination out.
* The slice size is kept above the literal 32, not `--min-slice-size`, and can exceed
  `--max-slice-size` when that is below 32 (`senddata.c:458`; `cmd.html:516-524`).
* `isXmittedMap` makes a block that was sent again and skipped in a later pass count as
  the last good one (`senddata.c:334`), against the comment at `:61`.
* With a buffer smaller than `SizesAssumption` asks for, reader and `makeSlice` wait
  for each other for ever; the sizes of the program are far from it.
* The sender's FEC thread is not joined and reads a fifo on a stack that is gone
  (`senddata.c:1001`).
* In asynchronous mode a key that arrives together with a message is lost with
  it (`udps-negotiate.c:257`). `firstConnected` is not reset when all have left; the
  start timeout starts anew with every message (`:171`), and the reasons to start are looked
  at only when none came for a while (`:227`); with messages that never cease neither comes.
* A `CONNECT_REPLY` has nothing that tells to which session of a daemon it belongs. One of the
  session before that arrives late is believed (`udpr-negotiate.c:207-221`), and the number in
  it may be another receiver's by then.
* A `DISCONNECT` of a receiver's earlier run that arrives after it has registered again
  removes the new registration (`udps-negotiate.c:271-274`).
* A receiver whose CONNECT_REPLY was lost exits on the first REQACK
  (`udpr-negotiate.c:245`).
* The overflow check of `pc_produce` misses overflows when `consumed < size`
  (`produconsum.c:72`); no caller reaches it.

## 5. Proofs

`ProduconsumProofs` proves for every `Size`, every `Mins` within it, every width
of the counters beyond 4*`Size`, and both memory models:

* `TypeCorrect`, `FillCorrect`, `NeverFatal`, `WakeupsKept`: the invariants the
  run `queue` checks;
* `Refinement`: `Spec => ImplementsQueue`.

They rest on `IInv`, proved inductive in `NextInv`. None of the four is inductive
alone. `StoreInv` carries pc_produce's checked counter and the delayed store
from the check to the memory, with the number of units they stand for;
`MutexInv` ties the mutex and the waiting flag to the places of the threads;
`AnswerInv` bounds the consumer's amount by what is in the queue from the
read to the return, whatever the producer does meanwhile; `EndInv` and `WakeInv`
do the same for the end mark and for a wake-up between the last look and the
sleep. `AdvanceAdds` and `ConsumedRemoves` are the two facts about the wrapping
arithmetic that everything else uses.

`TransferProofs` proves for every finite set of receivers, every number and
size of slices, every number of retries and faults, in half and in full duplex,
with patient and with eager timeouts:

* `TypeCorrect`, `CountersAgree`, `OksAreTrue`, `AcknowledgedIsReceived`,
  `WaitsForASlice`: the invariants of `transfer_half` and `transfer_duplex`;
* `HalfDuplexServes`: in half duplex, and only there, `SurvivorsServed`, the
  property whose failure in full duplex `transfer_lost_slice` shows;
* `Refinement`: `Spec => ImplementsMulticast`.

They rest on `IInv` of `Transfer`, shown inductive in `Step`, one lemma per
action. That a slice is freed only when everybody has it needs all of it: the
counters count the sets (`CountsAgree`), so equal counts mean equal sets; who is
ready holds the slice (`AnswerInv`), because every OK on its way does, because
all packets tell of one file (`FileInv`: there is a function from slice numbers
to sizes with which every packet and every receiver agrees, and a receiver never
loses what it has); and to hold slice n after all slices below n is to have
delivered it (`PrefixInv`). `SlotInv` says what the two slots can hold: the
slice being transmitted has no answers yet, which is why dropping a participant,
which touches only the retransmission slot, leaves no stale bit in the other.
`SameSlices`, `SenderStep`, `ReceiverStep` and `NetworkStep` say what a step of
each kind must respect; the lemmas of the actions establish just that.
`Shuffled` describes what the network may do to a queue. For the refinement each
step has one of three effects (`Effect`): `CleanAndShift` is a `Release` or
changes nothing the abstraction sees, `HandleDisconnect` and `TimeOut` are a
`Leave`, `ReceiveData` and `ReceiveReqAck` a `Deliver`, and all others stutter.

`NegotiationProofs` proves for every set of receivers, every size of the table,
every number of sessions, every size of the receive buffers and every set of
normalised configurations of the sender:

* `TypeCorrect`, `ParticipantsCounted`, `Registered`: the first three invariants of
  the run `negotiation`, whatever is lost, delayed, repeated or reordered, whoever is
  dropped, and however often the receivers are started again. `Registered` is
  `ConnectedIsRegistered`: exact until the transfer begins, and in it that nobody else
  gets the number of a receiver that may have been dropped;
* `AgreementSuits`: `TransferSuitsParticipants`, under `ChoosesOnce`: a sender that
  chooses point-to-point mode by itself has one session. Without that assumption
  it is false, see "seen while reading" in section 4.

The first three rest on `IInv`. `ConnectedIsRegistered` is not inductive: a
reply that is on its way makes its receiver a connected one later, so `NetTrue`
says of every reply of the present session what the property will say of the
receiver (`RegisteredAs`); and that a receiver whose disconnection
is on its way is gone, so that removing it disturbs nobody else, nor a later run of it. `LookupFinds`,
`AddFinds`, `AddKeeps` and `RemoveKeeps` are the facts about `participants.c`
that the steps use; the count is the cardinality of the entries in use.
`AgreementSuits` adds `SuitInv`: `ToldInv` says that every address that a
receiver of the session was told, or will be told, is the group's unless data
reach everybody anyway, and `AgreedInv` what `doTransfer` has settled. `SuitsEnough`
draws the property from both, `BeginSuits` is the case in which the agreement
is made; `Announced`, the buffer's size as `sendConnectionReply` keeps it, is bounded
by a minimum over the participants (`MinOfNats`).

`SenderThreadsProofs` proves for every size of the pages, the blocks, the slices,
the buffer that holds them and the return channel, every length of the file,
every growth of the slice size, every set of receivers and all modes:

* `TypeCorrect`, `MessagesKept`, `MemoryStaysIntact`: the three invariants of the
  run `sender_threads`, however the four threads interleave.

They rest on `IInv`, shown inductive in `StepInv`. `RingInv` says that the two
slots, read from the producer's position on, are with the network thread (about to
be produced, to be sent again, to be sent), encoded, with the maker and free, in
this order: the positions of all three queues of slots follow from how many slots
are where. `StateInv` and `ControlInv` tie the state of each slot and the place of the
network thread to it; without them a slot taken by the maker could not be shown
to be free. `BaseInv` says that slices in use follow each other in the buffer from
`freed` on, `CountersInv` adds up the bytes that are free, being read, read and in
slices. From both, what the reader writes to and what the network thread may
still send are less than a buffer apart, so in different cells (`ModDistinct`,
`ReadContent`); that is `ContentInv`, which also keeps a page free after the end of
the file, for the padding of the last block (`FecEncodeMemory`). `ChannelInv` does
the same for the ring of messages. The steps of the network thread have a common
effect (`NetEffect`): what was in use stays, or the oldest slice is acknowledged
and its bytes freed (`MemoryKept`); `SameUseMemory` and `AcknowledgedMemory` are these
two cases, and `NetThreadMemory` draws the rest from them. `SliceBytesBounds` is
what `makeSlice` takes: whole blocks unless it takes all there is.

`FecReceiverProofs` proves for every number of slots, slices, blocks, groups,
FEC blocks of a group and block spaces, every amount of memory, in both modes,
with one or two slices in flight and with FEC blocks in any order:

* `TypeCorrect`, `BlockSpacesKept`, `MemoryKept`, `CountersAgree`,
  `AcknowledgedIsComplete`, `SlotsTakeTurns`, `FinishedQueuedOnce`: invariants of
  the run `fec_receiver`;
* `FecThreadFrees`: once the FEC thread runs, the network thread gives no slot back;
* `HandedOverInOrder`: the order in which the writer gets the slices;
* `HandedOverIntact`: `HandedOverInOrderIntact`, with the data that was sent;
* `Repairable`, `FieldIsRight`: `ErasuresRepaired` and `FieldArithmetic`, what
  `fec_receiver` checks of `fec.c`;
* `Refinement`: `Spec => ImplementsMulticast`.

They have no hypotheses but the assumptions on the constants. `Repairable` and
`FieldIsRight` are the theorems about `fec.c` below, stated of `Spec`; the others rest on
`IInv`, shown inductive in `NextKeeps`. `RingInv` says it all of the
slots: how far a slot is behind the current one determines whether it is free and
which number it has, for free slots the number of the slice that was there; so
`findSlice` finds the right slot, a slice that it does not find was handed over
(`RingFacts`), and the number of slices handed over follows from `freeSlices`.
`SlotInv` is the bookkeeping of one slot: a slice changes its state with its last
block, never later. `HandOverInv` follows a finished slice from the network thread,
which announces it after the walk (`netPc = "complete"`), through the queue to the FEC
thread, and says that it is in only one of these places. `ModeInv` says that before the
first FEC block the network thread cleans up alone. `MemoryInv` and `SpaceInv` are the
two conservation properties. `AckInv` strengthens `AckMeansComplete`: what was
acknowledged is finished, because a slice that is complete is marked in the same call.
A handler has one common effect (`Effect`, on the slot, the memory, the block spaces
and the acknowledgements; `HandleCases`), so that each part of the invariant is shown
once and not for each message.

`HandedOverIntact` adds `IntactInv`: data blocks in a slot are those that were sent, a
block space holds the parity of the FEC block it is used for, and a slice that was
repaired or needs no repair is whole. Every step must be shown to leave the block
spaces of other slices alone (`SpacesApart`, `SpacesUntouched`), which is where
`SpaceInv` is needed: a space used twice would be overwritten. That decoding gives the
lost blocks back (`SlicesRepairable`: of each slice, group, set of lost blocks and choice
of FEC blocks, `fec_decode` returns the original) follows from `FecCodeProofs` in
`SlicesRepaired`, because no group has more blocks than the code has columns
(`OriginalIn`). `FecDecodeIntact` shows that the FEC thread calls
`fec_decode` in just that way: with as many FEC blocks as erased ones, all different,
of the right group and slice.

For the refinement `TopInv` says that nothing arrives of a slice not begun, `Progress`
what a step does: it loses nothing received, and the sender begins a slice or
nothing changes on its side. `SenderInv` says that all slices given up were received. A
step of the receiver is a `Deliver` or a stutter, `SendSlice` a `Release` or a stutter
(`PromiseKept`).

`FecFieldProofs`, `FecMatrixProofs` and `FecCodeProofs` prove of `fec.c`, for every size
of the field that the code has a polynomial for:

* `PolynomialsPrimitive`: each of the seven polynomials of `allPp` from degree 2 to 8
  is primitive, so that the powers of alpha are all elements but 0, each once;
* `TablesAreAField`: the tables multiply polynomials modulo that of the field, and
  the table of inverses holds inverses;
* `InvertsEvery`: `invert_mat` inverts every matrix of every order and fails exactly on
  the singular ones, whatever pivots it had to take;
* `DecodeRepairs`: any parity blocks repair as many lost data blocks of a group, in
  whatever order they came and whatever the places of the lost blocks hold;
  `AnyParityRepairs` is what the manual says of `--fec`;
* `LoopsVisitAll`: for every size of a block and every `UNROLL`, the unrolled loop and
  the final loop visit every symbol once.

None has a hypothesis about the polynomials. That they are primitive is a computation:
`XorSmall`, `LowValues` and `TimesXIs` turn the multiplication by alpha into arithmetic,
`Order2` to `Order8` go through the powers of alpha, eight in a step (`Goes`), and find no 1
before the power `GF_SIZE`. So two powers below it differ, for what they have in
common cancels, and as there are as many of them as elements but 0, they are all
(`PowersDistinct`).

The library's induction theorems cannot be used by the provers, because they take an
operator as a parameter; `Induction` states it with a set instead, from the
well-foundedness of the order of the numbers (`HasLeast`). `RecursionExists`
shows with it that a recursively defined function exists, which must be known
before anything follows from its equation (`XorOf`, `Power`, `modnn`, `Product`, the
loops of `invert_mat`, `reduce`, `resolve`).

The field: `XorIs` and its consequences make the exclusive or a group; that it stays
below a power of two (`XorBound`) and that doubling distributes over it (`XorDoubled`)
make `TimesX` linear and injective. After all the powers there are the next is 1 again
(`PowersTurn`), multiplying is adding exponents (`MulPowers`), and multiplication
distributes over the exclusive or (`Distributes`), by induction over the exponent of the
factor.

The inversion: `Holds(m, used, x, z, k)` says that the matrix in the middle of the
algorithm sends the vector that has z in the places used as pivots and x in the
others to the vector that has x in the used places and z in the others. At the start
this reads "src sends x to z", at the end "the result sends z to x". A turn of the loop keeps it
(`PivotStep`), exchanging rows exchanges components of z (`SwapStep`), and `Chain` keeps
account of the exchanges, which `UndoSwapsIs` takes back. That is why the swaps
must be undone last first. If no pivot is found, the columns not used
give a vector that is sent to zero (`SingularIs`).

The code: `CauchyRegular` shows that the coefficients 1/(row - col) of any k rows and k
columns send no vector but zero to zero, by induction on k: one column is removed
with the identity `SumOfInverses`, which leaves a smaller system of the same form
(`CauchyLevelled`, `CauchyStep`). `EncodeIs`, `ReduceIs` and `ResolveIs` give the loops
as sums, `ReducedParity` says that parity less what arrived is what the lost
blocks contribute, and `DecodeRepairs` puts the inverse of that part between them.

The assumptions are the named ones of the modules. `Transfer` needs no more than a
finite, non-empty set of receivers and natural bounds; `Negotiation` needs the types
of the options and what `udp-sender.c` makes of them before it starts;
`SenderThreads` that the buffer holds whole pages, and the largest slice, what
`makeSlice` waits for and a page together, and that the padding fits into a page;
`FecReceiver` that a slice has at least two blocks, that the memory holds what `newSlice`
waits for and this is no less than a slice, and that a group has no more data blocks and no
more FEC blocks than half the field, which is what the rows and columns of the code allow.

Only model-checked: liveness (`AskedIsAnswered`, `SenderFinishes`,
`EverybodyServed`, `TransferEnds`, `FinishedIsHandedOver`, `SearchEnds`,
`EverybodyIsServed`),
which is out of this prover's reach.

## 6. Not modelled, and what could follow

* Rate limiting (`rate-limit.c`, `rateGovernor.c`, `auto-rate.c`) only delays sends, and the
  models let every send happen at any time; its arithmetic is over wall-clock time.
* Streaming (`--stream`) and `--ignore-lost-data` give up the acknowledgements and the
  order that the properties are about.
* The writer's chunks, pipes to other programs, files, sockets, addresses, terminal
  settings, log and statistics are I/O without protocol state; option parsing, build
  files and the manual are not behaviour.
* `fec-test.c` is a test program for `fec.c`.

Next: the arithmetic of `doRateLimit`, and streaming mode in `FecReceiver`.
