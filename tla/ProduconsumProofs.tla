-------------------------- MODULE ProduconsumProofs --------------------------
(***************************************************************************)
(* The safety of Produconsum for every ring size, every set of minimum     *)
(* amounts, and with or without delayed stores: one inductive invariant,   *)
(* and the step simulation that makes it an implementation of              *)
(* AbstractQueue.                                                          *)
(***************************************************************************)
EXTENDS Produconsum, TLAPS

(* pc_produce adds what it was asked to add, and its overflow check lets a
   producer pass that stays within the room. *)
LEMMA AdvanceAdds ==
    ASSUME NEW p \in Counter, NEW c \in Counter, NEW k \in 1 .. Size,
           ProducedAmount(p, c) + k <= Size
    PROVE  /\ Advance(p, k) \in Counter
           /\ ProducedAmount(Advance(p, k), c) = ProducedAmount(p, c) + k
           /\ ProducedAmount(Advance(p, k), p) = k
           /\ ~Overflows(Advance(p, k), c)
  BY SizeAssumption, UintAssumption
     DEF Counter, Advance, ProducedAmount, Overflows, UintMinus

(* pc_consumed removes what it was asked to remove. *)
LEMMA ConsumedRemoves ==
    ASSUME NEW p \in Counter, NEW c \in Counter,
           ProducedAmount(p, c) <= Size,
           NEW k \in 0 .. ProducedAmount(p, c)
    PROVE  /\ Consumed(c, k) \in Counter
           /\ ProducedAmount(p, Consumed(c, k)) = ProducedAmount(p, c) - k
  BY SizeAssumption DEF Counter, Consumed, ProducedAmount

(* The amount two counters tell is a number of units below 2*Size. *)
LEMMA AmountInRange ==
    ASSUME NEW p \in Counter, NEW c \in Counter
    PROVE  ProducedAmount(p, c) \in 0 .. 2 * Size - 1
  BY SizeAssumption DEF Counter, ProducedAmount

-----------------------------------------------------------------------------
(* The empty store buffer has the type of a store buffer. *)
LEMMA NoStoreTyped ==
    /\ NoStore \in [field : {"none", "produced", "atEnd"}, val : Counter,
                    units : 0 .. Size]
    /\ NoStore.field = "none"
  BY SizeAssumption DEF NoStore, Counter

(* What the consumer computes from memory is really in the queue. *)
LEMMA AmountCovered ==
    ASSUME IInv
    PROVE  ProducedAmount(produced, consumed) \in 0 .. fill
<1>1. ProducedAmount(produced, consumed) \in 0 .. 2 * Size - 1
  BY AmountInRange DEF IInv, TypeOK
<1>2. buffer.units \in 0 .. Size /\ fill \in 0 .. Size
  BY DEF IInv, TypeOK
<1> QED
  BY <1>1, <1>2, SizeAssumption DEF IInv, CountersTellFill

(* A queue that pc_makeProduconsum has just made satisfies the invariant. *)
LEMMA InitInv == Init => IInv
<1> SUFFICES ASSUME Init PROVE IInv
  OBVIOUS
<1>1. ProducedAmount(0, 0) = 0 /\ 0 \in Counter
  BY SizeAssumption DEF ProducedAmount, Counter
<1>2. TypeOK
  <2>1. buffer \in [field : {"none", "produced", "atEnd"}, val : Counter,
                    units : 0 .. Size]
    BY NoStoreTyped DEF Init
  <2>2. 0 \in 0 .. Size
    BY SizeAssumption
  <2> QED
    BY <1>1, <2>1, <2>2 DEF Init, TypeOK
<1>3. CountersTellFill /\ StoreInv
  BY <1>1, NoStoreTyped DEF Init, CountersTellFill, StoreInv, OwnProduced
<1> QED
  BY <1>2, <1>3
     DEF Init, IInv, NoFalseAlarm, NoLostWakeup, EndInv, MutexInv, AnswerInv,
         WakeInv, Asking, NoStore

(* Every step of the two threads, and every drained store, keeps it. *)
LEMMA NextInv == IInv /\ [Next]_vars => IInv'
<1> SUFFICES ASSUME IInv, [Next]_vars PROVE IInv'
  OBVIOUS
<1> USE SizeAssumption, MinsAssumption
    DEF IInv, TypeOK, CountersTellFill, NoFalseAlarm, NoLostWakeup, StoreInv,
        EndInv, MutexInv, AnswerInv, WakeInv, Asking, NoStore, OwnProduced,
        producerVars, consumerVars
<1>1. CASE ProduceCheck
  <2>1. PICK k \in 1 .. Size - fill :
          /\ next' = Advance(OwnProduced, k)
          /\ pp' = IF k > Size \/ Overflows(next', consumed) THEN "fatal"
                   ELSE "store"
    BY <1>1 DEF ProduceCheck
  <2>2. k \in 1 .. Size /\ fill + k <= Size
    BY <2>1
  <2>3. /\ next' \in Counter
        /\ ProducedAmount(next', consumed) = fill + k
        /\ ProducedAmount(next', OwnProduced) = k
        /\ pp' = "store"
    <3>1. OwnProduced \in Counter /\ consumed \in Counter
      OBVIOUS
    <3>2. ProducedAmount(OwnProduced, consumed) = fill
      OBVIOUS
    <3> QED
      BY ONLY <2>1, <2>2, <3>1, <3>2, AdvanceAdds, SizeAssumption
  <2>4. OwnProduced' = OwnProduced
    BY <1>1 DEF ProduceCheck
  <2> QED
    BY <1>1, <2>2, <2>3, <2>4 DEF ProduceCheck
<1>2. CASE ProduceEnd
  <2>1. CASE delay
    <3>1. buffer' = StoreOf("atEnd", 0, 0)
      BY <1>2, <2>1 DEF ProduceEnd
    <3>2. buffer' \in [field : {"none", "produced", "atEnd"}, val : Counter,
                       units : 0 .. Size]
      BY <3>1 DEF StoreOf, Counter
    <3>3. buffer'.field = "atEnd"
      BY <3>1 DEF StoreOf
    <3> QED
      BY <1>2, <2>1, <3>2, <3>3, NoStoreTyped DEF ProduceEnd
  <2>2. CASE ~delay
    BY <1>2, <2>2, NoStoreTyped DEF ProduceEnd
  <2> QED
    BY <2>1, <2>2
<1>3. CASE DrainStore
  <2>1. produced' = OwnProduced /\ buffer' = NoStore
    BY <1>3 DEF DrainStore
  <2>2. OwnProduced' = OwnProduced
    BY <2>1, NoStoreTyped
  <2> QED
    BY <1>3, <2>1, <2>2, NoStoreTyped DEF DrainStore
<1>4. CASE ProduceStore
  <2> DEFINE k == ProducedAmount(next, produced)
  <2>1. k \in 1 .. Size - fill /\ ProducedAmount(next, consumed) = fill + k
    BY <1>4 DEF ProduceStore
  <2>2. OwnProduced' = next
    BY <1>4 DEF ProduceStore, StoreOf
  <2> QED
    BY <1>4, <2>1, <2>2, NoStoreTyped DEF ProduceStore, StoreOf
<1>5. CASE WakeCheck
  BY <1>5 DEF WakeCheck
<1>6. CASE WakeLock
  BY <1>6 DEF WakeLock
<1>7. CASE WakeSignal
  BY <1>7 DEF WakeSignal
<1>8. CASE WakeUnlock
  BY <1>8 DEF WakeUnlock
<1>9. CASE Ask
  BY <1>9 DEF Ask
<1>10. CASE PeekAmount
  BY <1>10, AmountCovered DEF PeekAmount, ReadAmount
<1>11. CASE PeekEnd
  BY <1>11 DEF PeekEnd, ReadEnd
<1>12. CASE Lock
  BY <1>12 DEF Lock
<1>13. CASE LookAmount
  BY <1>13, AmountCovered DEF LookAmount, ReadAmount
<1>14. CASE LookEnd
  BY <1>14 DEF LookEnd, ReadEnd
<1>15. CASE Sleep
  BY <1>15 DEF Sleep
<1>16. CASE SpuriousWake
  BY <1>16 DEF SpuriousWake
<1>17. CASE TimeOut
  BY <1>17 DEF TimeOut
<1>18. CASE RelockLate
  BY <1>18, AmountCovered DEF RelockLate
<1>19. CASE Unlock
  BY <1>19 DEF Unlock
<1>20. CASE Leave
  BY <1>20 DEF Leave
<1>21. CASE Take
  <2>1. PICK k \in 0 .. amount : /\ consumed' = Consumed(consumed, k)
                                /\ fill' = fill - k
    BY <1>21 DEF Take
  <2>2. OwnProduced \in Counter /\ produced \in Counter /\ consumed \in Counter
    OBVIOUS
  <2>3. /\ k \in 0 .. ProducedAmount(produced, consumed)
        /\ ProducedAmount(produced, consumed) \in 0 .. fill
    BY <1>21, <2>1, AmountCovered DEF Take
  <2>4. /\ consumed' \in Counter
        /\ ProducedAmount(produced, consumed') =
             ProducedAmount(produced, consumed) - k
    BY ONLY <2>1, <2>2, <2>3, ConsumedRemoves, SizeAssumption, IInv
       DEF IInv, TypeOK
  <2>5. ProducedAmount(OwnProduced, consumed') = fill - k
    <3>1. ProducedAmount(OwnProduced, consumed) = fill /\ fill \in 0 .. Size
      OBVIOUS
    <3>2. k \in 0 .. fill
      BY <2>3, <3>1
    <3> HIDE DEF OwnProduced
    <3> QED
      BY ONLY <2>1, <2>2, <3>1, <3>2, ConsumedRemoves
  <2>6. pp = "store" => ProducedAmount(next, consumed') =
                          ProducedAmount(next, consumed) - k
    BY <2>1, <2>2, <2>3, ConsumedRemoves
  <2> QED
    BY <1>21, <2>1, <2>3, <2>4, <2>5, <2>6 DEF Take
<1>22. CASE GiveUp
  BY <1>22 DEF GiveUp
<1>23. CASE UNCHANGED vars
  BY <1>23 DEF vars
<1> QED
  BY <1>1, <1>2, <1>3, <1>4, <1>5, <1>6, <1>7, <1>8, <1>9, <1>10, <1>11,
     <1>12, <1>13, <1>14, <1>15, <1>16, <1>17, <1>18, <1>19, <1>20, <1>21,
     <1>22, <1>23
     DEF Next, Producer, Consumer

-----------------------------------------------------------------------------
(* The invariant holds whatever the two threads do. *)
THEOREM Invariance == Spec => []IInv
<1>1. Init => IInv
  BY InitInv
<1>2. IInv /\ [Next]_vars => IInv'
  BY NextInv
<1> QED
  BY <1>1, <1>2, PTL DEF Spec

(* The variables keep their types: the two counters stay below 2*Size. *)
THEOREM TypeCorrect == Spec => []TypeOK
<1>1. IInv => TypeOK
  BY DEF IInv
<1> QED
  BY <1>1, Invariance, PTL

(* getProducedAmount never lies about what the producer handed over. *)
THEOREM FillCorrect == Spec => []CountersTellFill
<1>1. IInv => CountersTellFill
  BY DEF IInv
<1> QED
  BY <1>1, Invariance, PTL

(* pc_produce's sanity checks never end a program that keeps its promise. *)
THEOREM NeverFatal == Spec => []NoFalseAlarm
<1>1. IInv => NoFalseAlarm
  BY DEF IInv
<1> QED
  BY <1>1, Invariance, PTL

(* wakeConsumer's unlocked test is enough where stores are not delayed. *)
THEOREM WakeupsKept == Spec => []NoLostWakeup
<1>1. IInv => NoLostWakeup
  BY DEF IInv
<1> QED
  BY <1>1, Invariance, PTL

-----------------------------------------------------------------------------
(* A new queue is an empty abstract queue. *)
LEMMA InitAbstract == Init => Abstract!AbsInit
  BY DEF Init, Abstract!AbsInit, Asking

(* Every step of the threads is a step of the abstract queue or leaves it
   alone: pc_produce at its store, pc_produceEnd at its store, _consumeAny
   when it begins and when it returns, pc_consumed. *)
LEMMA StepAbstract ==
    IInv /\ IInv' /\ [Next]_vars => [Abstract!AbsNext]_(Abstract!absVars)
<1> SUFFICES ASSUME IInv, IInv', [Next]_vars
             PROVE  [Abstract!AbsNext]_(Abstract!absVars)
  OBVIOUS
<1> USE DEF Abstract!absVars, producerVars, consumerVars, Asking
<1>1. CASE ProduceCheck
  BY <1>1 DEF ProduceCheck
<1>2. CASE ProduceEnd
  <2>1. Abstract!AbsClose
    BY <1>2 DEF ProduceEnd, Abstract!AbsClose
  <2> QED
    BY <2>1 DEF Abstract!AbsNext
<1>3. CASE DrainStore
  BY <1>3 DEF DrainStore
<1>4. CASE ProduceStore
  <2> DEFINE k == ProducedAmount(next, produced)
  <2>1. k \in 1 .. Size - fill /\ fill' = fill + k
    BY <1>4 DEF ProduceStore, IInv, StoreInv, OwnProduced, NoStore
  <2>2. ~closed
    BY <1>4 DEF ProduceStore, IInv, EndInv
  <2>3. Abstract!AbsProduce
    BY <1>4, <2>1, <2>2 DEF ProduceStore, Abstract!AbsProduce
  <2> QED
    BY <2>3 DEF Abstract!AbsNext
<1>5. CASE WakeCheck
  BY <1>5 DEF WakeCheck
<1>6. CASE WakeLock
  BY <1>6 DEF WakeLock
<1>7. CASE WakeSignal
  BY <1>7 DEF WakeSignal
<1>8. CASE WakeUnlock
  BY <1>8 DEF WakeUnlock
<1>9. CASE Ask
  <2>1. Abstract!AbsAsk
    BY <1>9 DEF Ask, Abstract!AbsAsk
  <2> QED
    BY <2>1 DEF Abstract!AbsNext
<1>10. CASE PeekAmount
  BY <1>10 DEF PeekAmount, ReadAmount
<1>11. CASE PeekEnd
  BY <1>11 DEF PeekEnd, ReadEnd
<1>12. CASE Lock
  BY <1>12 DEF Lock
<1>13. CASE LookAmount
  BY <1>13 DEF LookAmount, ReadAmount
<1>14. CASE LookEnd
  BY <1>14 DEF LookEnd, ReadEnd
<1>15. CASE Sleep
  BY <1>15 DEF Sleep
<1>16. CASE SpuriousWake
  BY <1>16 DEF SpuriousWake
<1>17. CASE TimeOut
  BY <1>17 DEF TimeOut
<1>18. CASE RelockLate
  BY <1>18 DEF RelockLate
<1>19. CASE Unlock
  BY <1>19 DEF Unlock
<1>20. CASE Leave
  <2>1. amount \in 0 .. fill
    BY <1>20, AmountCovered DEF Leave, IInv, TypeOK, AnswerInv
  <2>2. amount >= min \/ closed \/ timed
    BY <1>20 DEF Leave, IInv, AnswerInv
  <2>3. Abstract!AbsAnswer
    BY <1>20, <2>1, <2>2 DEF Leave, Abstract!AbsAnswer
  <2> QED
    BY <2>3 DEF Abstract!AbsNext
<1>21. CASE Take
  <2>1. PICK k \in 0 .. amount : fill' = fill - k
    BY <1>21 DEF Take
  <2>2. \E j \in 0 .. (IF cp = "returned" THEN amount ELSE 0) :
           fill' = fill - j
    BY <1>21, <2>1 DEF Take
  <2>3. Abstract!AbsTake
    BY <1>21, <2>2 DEF Take, Abstract!AbsTake
  <2> QED
    BY <2>3 DEF Abstract!AbsNext
<1>22. CASE GiveUp
  <2>1. closed
    <3>1. min \in 1 .. Size
      BY <1>22, MinsAssumption DEF GiveUp, IInv, AnswerInv
    <3> QED
      BY <1>22, <3>1 DEF GiveUp, IInv, AnswerInv
  <2>2. Abstract!AbsGiveUp
    BY <1>22, <2>1 DEF GiveUp, Abstract!AbsGiveUp
  <2> QED
    BY <2>2 DEF Abstract!AbsNext
<1>23. CASE UNCHANGED vars
  BY <1>23 DEF vars
<1> QED
  BY <1>1, <1>2, <1>3, <1>4, <1>5, <1>6, <1>7, <1>8, <1>9, <1>10, <1>11,
     <1>12, <1>13, <1>14, <1>15, <1>16, <1>17, <1>18, <1>19, <1>20, <1>21,
     <1>22, <1>23
     DEF Next, Producer, Consumer

(* produconsum.c implements the abstract queue. *)
THEOREM Refinement == Spec => ImplementsQueue
<1>1. Init => Abstract!AbsInit
  BY InitAbstract
<1>2. IInv /\ IInv' /\ [Next]_vars => [Abstract!AbsNext]_(Abstract!absVars)
  BY StepAbstract
<1> QED
  BY <1>1, <1>2, Invariance, PTL DEF Spec, ImplementsQueue, Abstract!AbsSpec

=============================================================================
