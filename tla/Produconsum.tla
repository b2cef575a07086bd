----------------------------- MODULE Produconsum -----------------------------
(***************************************************************************)
(* src/produconsum.c: the counter through which one producer thread hands  *)
(* units (bytes, slices, message slots) to one consumer thread.  All       *)
(* threads of the sender and of the receiver talk through such counters.   *)
(*                                                                         *)
(* One action per access to a shared field, because the fields are read    *)
(* and written without the mutex: the mutex only protects the sleep of the *)
(* consumer.  "fill" and "closed" are history variables: the number of     *)
(* units in the queue and the end-of-file mark as the producer's program   *)
(* order has them.                                                         *)
(*                                                                         *)
(* In a run with "delay" a store of the producer waits in the processor's  *)
(* store buffer (x86 reorders a store with a later load of another word,   *)
(* and wakeConsumer has no barrier); without, memory is sequentially       *)
(* consistent.  One store is delayed at a time.  The consumer's own stores need no buffer:  *)
(* it takes the mutex, a barrier, before it looks again and sleeps.        *)
(***************************************************************************)
EXTENDS Integers

CONSTANTS Size,        \* pc->size
          Mins,        \* the minAmount arguments of the consumer's calls
          UintMod,     \* 2^width of an unsigned int
          Delays       \* {FALSE}, {TRUE} or both: the values of "delay"

ASSUME SizeAssumption == Size \in Nat \ {0}
ASSUME MinsAssumption == Mins \subseteq 1 .. Size
ASSUME UintAssumption == UintMod \in Nat /\ UintMod > 4 * Size
ASSUME DelayAssumption == Delays \subseteq BOOLEAN

VARIABLES
    produced,  \* pc->produced in memory
    consumed,  \* pc->consumed
    atEnd,     \* pc->atEnd in memory
    waiting,   \* pc->consumerIsWaiting
    mutex,     \* holder of pc->mutex: "free", "producer" or "consumer"
    buffer,    \* the producer's delayed store
    pp,        \* where the producer is
    next,      \* pc_produce's local "produced"
    cp,        \* where the consumer is
    min,       \* _consumeAny's minAmount
    timed,     \* _consumeAny's ts # 0
    amount,    \* _consumeAny's local "amount"
    delay,     \* does this machine delay the producer's stores? (fixed)
    fill,      \* history: units produced and not yet consumed
    closed     \* history: pc_produceEnd has been called

(* What only the producer's thread writes, and only the consumer's. *)
producerVars == <<produced, atEnd, buffer, next, closed, delay>>
consumerVars == <<consumed, waiting, min, timed, amount>>
vars == <<producerVars, consumerVars, pp, cp, mutex, fill>>

-----------------------------------------------------------------------------
(* The arithmetic of the two counters, which live in 0 .. 2*Size-1.        *)

Counter == 0 .. 2 * Size - 1

(* Unsigned subtraction: it wraps around. *)
UintMinus(a, b) == IF a >= b THEN a - b ELSE a - b + UintMod

(* Mutant: an empty queue taken for a full one *)
ProducedAmountMutant(p, c) == IF p <= c THEN p + 2 * Size - c ELSE p - c

(* getProducedAmount *)
ProducedAmount(p, c) == IF p < c THEN p + 2 * Size - c ELSE p - c

(* Mutant: the counter wraps one too late *)
AdvanceMutant(p, k) == IF p + k > 2 * Size THEN p + k - 2 * Size ELSE p + k

(* pc_produce's new counter *)
Advance(p, k) == IF p + k >= 2 * Size THEN p + k - 2 * Size ELSE p + k

(* pc_consumed's new counter *)
Consumed(c, k) == IF c >= 2 * Size - k THEN c + k - 2 * Size ELSE c + k

(* Mutant: a queue that is exactly full is taken for an overflow *)
OverflowsMutant(p, c) ==
    \/ p >= c + Size
    \/ p < c /\ p > UintMinus(c, Size)

(* The second sanity check of pc_produce, on the new counter. *)
Overflows(p, c) ==
    \/ p > c + Size
    \/ p < c /\ p > UintMinus(c, Size)

-----------------------------------------------------------------------------
NoStore == [field |-> "none", val |-> 0, units |-> 0]
StoreOf(f, v, k) == [field |-> f, val |-> v, units |-> k]

(* The producer reads its own delayed store, everybody else reads memory. *)
OwnProduced == IF buffer.field = "produced" THEN buffer.val ELSE produced

Init ==
    /\ produced = 0 /\ consumed = 0
    /\ atEnd = FALSE
    /\ waiting = FALSE
    /\ mutex = "free"
    /\ buffer = NoStore /\ delay \in Delays
    /\ pp = "idle" /\ next = 0
    /\ cp = "idle" /\ min = 0 /\ timed = FALSE /\ amount = 0
    /\ fill = 0 /\ closed = FALSE

-----------------------------------------------------------------------------
(* Producer: pc_produce, pc_produceEnd, wakeConsumer                       *)

(* pc_produce(k) up to its checks.  The caller got room for the k units
   from the queue that runs the other way (fifo.c), so k fits. *)
ProduceCheck ==
    /\ pp = "idle" /\ ~closed
    /\ \E k \in 1 .. Size - fill :
         /\ next' = Advance(OwnProduced, k)
         /\ pp' = IF k > Size \/ Overflows(next', consumed) THEN "fatal"
                  ELSE "store"
    /\ UNCHANGED <<produced, atEnd, buffer, closed, delay, consumerVars, cp,
                   mutex, fill>>

(* pc->produced = produced: into memory or into the store buffer *)
ProduceStore ==
    /\ pp = "store" /\ buffer = NoStore
    /\ LET k == ProducedAmount(next, produced) IN
         /\ fill' = fill + k
         /\ IF delay
            THEN buffer' = StoreOf("produced", next, k) /\ produced' = produced
            ELSE buffer' = buffer /\ produced' = next
    /\ pp' = "wake"
    /\ UNCHANGED <<atEnd, next, closed, delay, consumerVars, cp, mutex>>

(* Mutant: pc_produceEnd does not wake the consumer *)
ProduceEndMutant ==
    /\ pp = "idle" /\ ~closed /\ buffer = NoStore
    /\ closed' = TRUE /\ atEnd' = TRUE
    /\ UNCHANGED <<produced, buffer, next, delay, consumerVars, pp, cp, mutex,
                   fill>>

ProduceEnd ==
    /\ pp = "idle" /\ ~closed /\ buffer = NoStore
    /\ closed' = TRUE
    /\ IF delay
       THEN buffer' = StoreOf("atEnd", 0, 0) /\ atEnd' = atEnd
       ELSE buffer' = buffer /\ atEnd' = TRUE
    /\ pp' = "wake"
    /\ UNCHANGED <<produced, next, delay, consumerVars, cp, mutex, fill>>

(* A delayed store reaches memory. *)
DrainStore ==
    /\ buffer # NoStore
    /\ produced' = OwnProduced
    /\ atEnd' = (atEnd \/ buffer.field = "atEnd")
    /\ buffer' = NoStore
    /\ UNCHANGED <<next, closed, delay, consumerVars, pp, cp, mutex, fill>>

(* wakeConsumer reads consumerIsWaiting without the mutex. *)
WakeCheck ==
    /\ pp = "wake"
    /\ pp' = IF waiting THEN "lock" ELSE "idle"
    /\ UNCHANGED <<producerVars, consumerVars, cp, mutex, fill>>

(* pthread_mutex_lock is a locked instruction: it drains the store buffer. *)
WakeLock ==
    /\ pp = "lock" /\ mutex = "free" /\ buffer = NoStore
    /\ mutex' = "producer"
    /\ pp' = "signal"
    /\ UNCHANGED <<producerVars, consumerVars, cp, fill>>

(* pthread_cond_signal: lost unless the consumer sleeps *)
WakeSignal ==
    /\ pp = "signal"
    /\ pp' = "unlock"
    /\ cp' = IF cp = "asleep" THEN "relock" ELSE cp
    /\ UNCHANGED <<producerVars, consumerVars, mutex, fill>>

WakeUnlock ==
    /\ pp = "unlock"
    /\ mutex' = "free"
    /\ pp' = "idle"
    /\ UNCHANGED <<producerVars, consumerVars, cp, fill>>

Producer == ProduceStore \/ WakeCheck \/ WakeLock \/ WakeSignal \/ WakeUnlock

-----------------------------------------------------------------------------
(* Consumer: _consumeAny, then pc_consumed                                 *)

Ask ==
    /\ cp = "idle" /\ cp' = "peek"
    /\ min' \in Mins
    /\ timed' \in BOOLEAN
    /\ waiting' = TRUE
    /\ UNCHANGED <<producerVars, pp, consumed, amount, mutex, fill>>

(* The consumer reads the amount, and only if that is too little it reads
   the end-of-file mark: two reads with the producer running in between. *)
ReadAmount(at, enough, tooLittle) ==
    /\ cp = at
    /\ amount' = ProducedAmount(produced, consumed)
    /\ cp' = IF amount' >= min THEN enough ELSE tooLittle
    /\ UNCHANGED <<producerVars, pp, consumed, waiting, min, timed, mutex, fill>>

ReadEnd(at, ended, notEnded) ==
    /\ cp = at
    /\ cp' = IF atEnd THEN ended ELSE notEnded
    /\ UNCHANGED <<producerVars, pp, consumerVars, mutex, fill>>

(* The first test, without the mutex *)
PeekAmount == ReadAmount("peek", "leave", "peekEnd")
PeekEnd == ReadEnd("peekEnd", "leave", "lock")

(* Mutant: no second look under the mutex *)
LockMutant ==
    /\ cp \in {"lock", "relock"} /\ cp' = "sleep"
    /\ mutex = "free" /\ mutex' = "consumer"
    /\ UNCHANGED <<producerVars, pp, consumerVars, fill>>

(* Before the loop, and after a wake-up inside pthread_cond_wait *)
Lock ==
    /\ cp \in {"lock", "relock"} /\ cp' = "look"
    /\ mutex = "free" /\ mutex' = "consumer"
    /\ UNCHANGED <<producerVars, pp, consumerVars, fill>>

(* The loop's condition: the producer stores without the mutex, so these two
   reads race as well although the consumer holds it. *)
LookAmount == ReadAmount("look", "unlock", "lookEnd")
LookEnd == ReadEnd("lookEnd", "unlock", "sleep")

(* pthread_cond_wait releases the mutex and sleeps in one step. *)
Sleep ==
    /\ cp = "sleep" /\ cp' = "asleep"
    /\ mutex' = "free"
    /\ UNCHANGED <<producerVars, pp, consumerVars, fill>>

SpuriousWake ==
    /\ cp = "asleep" /\ cp' = "relock"
    /\ UNCHANGED <<producerVars, pp, consumerVars, mutex, fill>>

(* Mutant: every wake-up taken for a timeout *)
TimeOutMutant ==
    /\ cp = "asleep" /\ cp' = "relockLate"
    /\ UNCHANGED <<producerVars, pp, consumerVars, mutex, fill>>

TimeOut ==
    /\ cp = "asleep" /\ cp' = "relockLate"
    /\ timed
    /\ UNCHANGED <<producerVars, pp, consumerVars, mutex, fill>>

(* ETIMEDOUT: take the mutex back, read the amount once more and leave. *)
RelockLate ==
    /\ cp = "relockLate" /\ cp' = "unlock"
    /\ mutex = "free" /\ mutex' = "consumer"
    /\ amount' = ProducedAmount(produced, consumed)
    /\ UNCHANGED <<producerVars, pp, consumed, waiting, min, timed, fill>>

Unlock ==
    /\ cp = "unlock" /\ cp' = "leave"
    /\ mutex' = "free"
    /\ UNCHANGED <<producerVars, pp, consumerVars, fill>>

Leave ==
    /\ cp = "leave" /\ cp' = "returned"
    /\ waiting' = FALSE
    /\ UNCHANGED <<producerVars, pp, consumed, min, timed, amount, mutex, fill>>

(* The caller uses up to the amount it was told of and calls pc_consumed. *)
Take ==
    /\ cp = "returned" /\ cp' = "idle"
    /\ amount > 0 \/ timed
    /\ \E k \in 0 .. amount :
         /\ consumed' = Consumed(consumed, k)
         /\ fill' = fill - k
    /\ UNCHANGED <<producerVars, pp, waiting, min, timed, amount, mutex>>

(* "if (bytes == 0) return 0": every caller without a timeout takes an
   answer of 0 for the end of the file (receiver-diskio.c writer,
   senddata.c makeSlice). *)
GiveUp ==
    /\ cp = "returned" /\ cp' = "eof"
    /\ amount = 0 /\ ~timed
    /\ UNCHANGED <<producerVars, pp, consumerVars, mutex, fill>>

Consumer ==
    \/ PeekAmount \/ PeekEnd \/ Lock \/ LookAmount \/ LookEnd \/ Sleep
    \/ RelockLate \/ Unlock \/ Leave

-----------------------------------------------------------------------------
Next ==
    \/ ProduceCheck \/ ProduceEnd \/ DrainStore \/ Producer
    \/ Ask \/ SpuriousWake \/ TimeOut \/ Take \/ GiveUp \/ Consumer

(* Both threads are scheduled and a delayed store reaches memory in the end.
   Nothing forces the producer to produce, the consumer to ask, a timeout to
   expire or a spurious wake-up to happen. *)
Fairness ==
    /\ WF_vars(Producer)
    /\ WF_vars(DrainStore)
    /\ WF_vars(Consumer)

Spec == Init /\ [][Next]_vars /\ Fairness
-----------------------------------------------------------------------------
(* Properties                                                              *)

TypeOK ==
    /\ produced \in Counter /\ consumed \in Counter
    /\ atEnd \in BOOLEAN
    /\ waiting \in BOOLEAN
    /\ mutex \in {"free", "producer", "consumer"}
    /\ buffer \in [field : {"none", "produced", "atEnd"}, val : Counter,
                   units : 0 .. Size]
    /\ pp \in {"idle", "store", "wake", "lock", "signal", "unlock", "fatal"}
    /\ next \in Counter
    /\ cp \in {"idle", "peek", "peekEnd", "lock", "look", "lookEnd", "sleep",
               "asleep", "relock", "relockLate", "unlock", "leave",
               "returned", "eof"}
    /\ min \in {0} \cup Mins
    /\ timed \in BOOLEAN
    /\ amount \in 0 .. Size
    /\ fill \in 0 .. Size
    /\ closed \in BOOLEAN

(* The two wrapping counters always tell the true number of units, and what
   the consumer can compute from memory is never more than that: counters
   kept modulo 2*Size tell a full queue from an empty one (getProducedAmount),
   also while the producer's store is on its way. *)
CountersTellFill ==
    /\ ProducedAmount(OwnProduced, consumed) = fill
    /\ ProducedAmount(produced, consumed) =
          fill - (IF buffer.field = "produced" THEN buffer.units ELSE 0)

(* A producer that keeps to the room it was given is never killed by the
   overflow checks of pc_produce, wherever the counters have wrapped and
   however the consumer moves between the check and the store. *)
NoFalseAlarm == pp # "fatal"

(* wakeConsumer's unlocked test loses no wake-up: a consumer that sleeps, or
   is past its last look and about to sleep, while what it waits for is there
   has a producer on its way to signal it. *)
NoLostWakeup ==
    ~delay /\ cp \in {"sleep", "asleep"} /\ (\/ ProducedAmount(produced, consumed) >= min
                                            \/ atEnd)
      => pp \in {"wake", "lock", "signal"}

Asking == cp \notin {"idle", "returned", "eof"}

(* A question is answered once there are enough units or the file has ended:
   without delayed stores, the consumer never sleeps for ever on what it
   could have. *)
AskedIsAnswered ==
    Asking /\ ~delay /\ (fill >= min \/ closed) ~> cp = "returned"

(* produconsum.h on pc_consume: "Wait until at least amount is available, or
   end of file reached."  With delayed stores the wait need not end: the
   producer reads consumerIsWaiting before its store is visible. *)
WaitsNoLonger ==
    Asking /\ (fill >= min \/ closed) ~> cp = "returned"

(* produconsum.h on pc_consume: "Wait until at least amount is available, or
   end of file reached."  Its callers take 0 for the end of the file, so 0
   must mean that everything was handed over.  It does not: the amount is
   read before atEnd, and the producer may produce and end in between. *)
EndOfFileMeansDrained == cp = "eof" => closed /\ fill = 0

(* Why they hold, as one inductive invariant. *)
StoreInv ==  \* the delayed store, and pc_produce's checked counter
    /\ buffer.field = "none" => buffer = NoStore
    /\ buffer.field = "produced" => /\ buffer.units \in 1 .. Size
                                    /\ ProducedAmount(buffer.val, produced) = buffer.units
    /\ ~delay => buffer = NoStore
    /\ pp = "store" =>
          /\ ProducedAmount(next, OwnProduced) \in 1 .. Size - fill
          /\ ProducedAmount(next, consumed) = fill + ProducedAmount(next, OwnProduced)

EndInv ==
    /\ atEnd \/ buffer.field = "atEnd" => closed
    /\ pp = "store" => ~closed

MutexInv ==
    /\ mutex = "consumer" <=> cp \in {"look", "lookEnd", "sleep", "unlock"}
    /\ mutex = "producer" <=> pp \in {"signal", "unlock"}
    /\ Asking => waiting

AnswerInv ==
    /\ cp # "idle" => min \in Mins
    /\ cp = "relockLate" => timed
    /\ cp \notin {"idle", "peek"} => amount <= ProducedAmount(produced, consumed)
    /\ cp \in {"unlock", "leave", "returned"} =>
          amount >= min \/ closed \/ timed

WakeInv ==
    ~delay /\ cp = "lookEnd" /\ ProducedAmount(produced, consumed) >= min
      => pp \in {"wake", "lock"}

IInv ==
    /\ TypeOK /\ CountersTellFill /\ NoFalseAlarm /\ NoLostWakeup
    /\ StoreInv /\ EndInv /\ MutexInv /\ AnswerInv /\ WakeInv

(* The whole implements the abstract queue; a question is answered when
   _consumeAny returns. *)
Abstract == INSTANCE AbstractQueue WITH
    avail <- fill,
    phase <- IF Asking THEN "asking"
             ELSE IF cp = "returned" THEN "answered" ELSE cp,
    answer <- IF cp = "returned" THEN amount ELSE 0

ImplementsQueue == Abstract!AbsSpec
=============================================================================
