-------------------------- MODULE NegotiationProofs --------------------------
(***************************************************************************)
(* Who is registered under which number, proved for every set of receivers *)
(* and every set of configurations.                                        *)
(***************************************************************************)
EXTENDS Negotiation, FiniteSetTheorems, WellFoundedInduction, TLAPS

LessThan == {p \in Nat \X Nat : p[1] < p[2]}

(* A non-empty set of natural numbers has a least one, and Min is it. *)
LEMMA MinOfNats ==
  ASSUME NEW S \in SUBSET Nat, S # {}
  PROVE  Min(S) \in S /\ \A y \in S : Min(S) <= y
<1>1. IsWellFoundedOn(LessThan, Nat)
  BY NatLessThanWellFounded DEF LessThan, OpToRel
<1>2. \E x \in S : \A y \in S : ~(<<y, x>> \in LessThan)
  BY <1>1, WFMin
<1>3. \E x \in S : \A y \in S : x <= y
  <2>1. PICK x \in S : \A y \in S : ~(<<y, x>> \in LessThan)
    BY <1>2
  <2>2. \A y \in S : y < x => <<y, x>> \in LessThan
    BY DEF LessThan
  <2>3. \A y \in S : ~(y < x)
    BY <2>1, <2>2
  <2>4. x \in Nat /\ \A y \in S : y \in Nat
    OBVIOUS
  <2>5. \A y \in S : x <= y
    BY <2>3, <2>4
  <2> QED
    BY <2>5
<1> QED
  BY <1>3 DEF Min

-----------------------------------------------------------------------------
(* The table of participants *)

(* The entries in use are finitely many, no more than there are entries. *)
LEMMA UsedFinite ==
  ASSUME NEW T \in SUBSET Entries
  PROVE  IsFiniteSet(T) /\ Cardinality(T) \in 0..MAX_CLIENTS
<1>1. IsFiniteSet(Entries) /\ Cardinality(Entries) = MAX_CLIENTS
  BY NegotiationAssumption, FS_Interval DEF Entries
<1>2. IsFiniteSet(T) /\ Cardinality(T) <= MAX_CLIENTS
  BY <1>1, FS_Subset
<1> QED
  BY <1>2, FS_CardinalityType, NegotiationAssumption

TableOK == /\ table \in [Entries -> Receivers \cup {NoOne}]
           /\ ParticipantsConsistent

(* lookupParticipant finds the entry of an address if there is one. *)
LEMMA LookupFinds ==
  ASSUME TableOK, NEW r \in Receivers
  PROVE  \/ /\ lookupParticipant(r) \in Used /\ table[lookupParticipant(r)] = r
            /\ lookupParticipant(r) >= 0
         \/ /\ lookupParticipant(r) = -1 /\ \A i \in Used : table[i] # r
<1> DEFINE S == {i \in Used : table[i] = r}
<1>1. CASE S = {}
  BY <1>1 DEF lookupParticipant
<1>2. CASE S # {}
  <2>1. S \in SUBSET Nat
    BY NegotiationAssumption DEF Used, Entries
  <2>2. Min(S) \in S
    BY <1>2, <2>1, MinOfNats
  <2>3. \E i \in Used : table[i] = r
    BY <1>2
  <2>4. lookupParticipant(r) = Min(S)
    BY <2>3 DEF lookupParticipant
  <2> QED
    BY <2>1, <2>2, <2>4
<1> QED
  BY <1>1, <1>2

(* addParticipant returns a number that is the address's already or is free,
   and in point-to-point mode the first. *)
LEMMA AddFinds ==
  ASSUME TableOK, NEW r \in Receivers, NEW p \in BOOLEAN
  PROVE  LET n == addParticipant(r, p) IN
         /\ n \in Entries \cup {-1}
         /\ n # -1 => \/ n \in Used /\ table[n] = r
                      \/ /\ table[n] = NoOne /\ \A i \in Used : table[i] # r
                         /\ p => n = 0
<1> DEFINE S == {i \in Entries : table[i] = NoOne}
<1>1. CASE lookupParticipant(r) >= 0
  <2>1. lookupParticipant(r) \in Used /\ table[lookupParticipant(r)] = r
    BY <1>1, LookupFinds
  <2>2. addParticipant(r, p) = lookupParticipant(r)
    BY <1>1 DEF addParticipant
  <2> QED
    BY <2>1, <2>2 DEF Used
<1>2. CASE ~(lookupParticipant(r) >= 0)
  <2>1. \A i \in Used : table[i] # r
    BY <1>2, LookupFinds
  <2>2. CASE S = {} \/ (p /\ 0 \notin S)
    <3>1. addParticipant(r, p) = -1
      BY <1>2, <2>2 DEF addParticipant
    <3> QED
      BY <3>1
  <2>3. CASE ~(S = {} \/ (p /\ 0 \notin S))
    <3>1. addParticipant(r, p) = Min(S)
      BY <1>2, <2>3 DEF addParticipant
    <3>2. S \in SUBSET Nat
      BY NegotiationAssumption DEF Entries
    <3>3. Min(S) \in S /\ \A y \in S : Min(S) <= y
      BY <2>3, <3>2, MinOfNats
    <3>4. p => Min(S) = 0
      BY <2>3, <3>2, <3>3
    <3> QED
      BY <2>1, <3>1, <3>3, <3>4
  <2> QED
    BY <2>2, <2>3
<1> QED
  BY <1>1, <1>2

(* A registered address keeps its number, a new one gets the number told it. *)
LEMMA AddKeeps ==
  ASSUME TableOK, NEW r \in Receivers, conf' = conf,
         nrParticipants \in 0..MAX_CLIENTS,
         NEW n, n = addParticipant(r, conf.pointopoint = "always"), Added(r, n)
  PROVE  /\ n \in Entries \cup {-1}
         /\ TableOK' /\ nrParticipants' \in 0..MAX_CLIENTS
         /\ n # -1 => table'[n] = r
         /\ \A i \in Used : table'[i] = table[i]
<1> DEFINE p == conf.pointopoint = "always"
<1>0. /\ n \in Entries \cup {-1}
      /\ n # -1 => \/ n \in Used /\ table[n] = r
                   \/ /\ table[n] = NoOne /\ \A i \in Used : table[i] # r
                      /\ p => n = 0
  BY AddFinds
<1>1. CASE n = -1 \/ table[n] = r
  <2>1. table' = table /\ nrParticipants' = nrParticipants
    BY <1>1 DEF Added
  <2> QED
    BY <1>0, <1>1, <2>1 DEF TableOK, ParticipantsConsistent, Used
<1>2. CASE ~(n = -1 \/ table[n] = r)
  <2>1. /\ table' = [table EXCEPT ![n] = r] /\ nrParticipants' = nrParticipants + 1
    BY <1>2 DEF Added
  <2>2. /\ n \in Entries /\ table[n] = NoOne /\ \A i \in Used : table[i] # r
        /\ p => n = 0
    BY <1>0, <1>2 DEF Used
  <2>3. table' \in [Entries -> Receivers \cup {NoOne}] /\ table'[n] = r
    BY <2>1, <2>2 DEF TableOK
  <2>4. \A i \in Entries : i # n => table'[i] = table[i]
    BY <2>1, <2>2 DEF TableOK
  <2>5. Used' = Used \cup {n} /\ n \notin Used
    BY <2>2, <2>3, <2>4, NegotiationAssumption DEF Used
  <2>6. IsFiniteSet(Used) /\ Used' \in SUBSET Entries
    BY <2>2, <2>5, UsedFinite DEF Used
  <2>7. nrParticipants' = Cardinality(Used')
    BY <2>1, <2>5, <2>6, FS_AddElement DEF TableOK, ParticipantsConsistent
  <2>8. nrParticipants' \in 0..MAX_CLIENTS
    BY <2>6, <2>7, UsedFinite
  <2>9. ParticipantsConsistent'
    <3>1. \A i, j \in Used' : table'[i] = table'[j] => i = j
      BY <2>2, <2>3, <2>4, <2>5 DEF TableOK, ParticipantsConsistent, Used
    <3>2. conf'.pointopoint = "always" => Used' \subseteq {0}
      BY <2>2, <2>5 DEF TableOK, ParticipantsConsistent
    <3> QED
      BY <2>7, <3>1, <3>2 DEF ParticipantsConsistent
  <2> QED
    BY <1>0, <2>2, <2>3, <2>4, <2>8, <2>9 DEF TableOK, Used
<1> QED
  BY <1>1, <1>2

(* Removing an entry touches no other. *)
LEMMA RemoveKeeps ==
  ASSUME TableOK, conf' = conf, NEW i \in Used, Removed(i)
  PROVE  /\ TableOK' /\ nrParticipants' \in 0..MAX_CLIENTS
         /\ \A j \in Entries : table'[j] = IF j = i THEN NoOne ELSE table[j]
<1>1. table' = [table EXCEPT ![i] = NoOne] /\ nrParticipants' = nrParticipants - 1
  BY DEF Removed
<1>2. i \in Entries /\ table'[i] = NoOne
  BY <1>1 DEF TableOK, Used
<1>3. \A j \in Entries : j # i => table'[j] = table[j]
  BY <1>1 DEF TableOK
<1>4. table' \in [Entries -> Receivers \cup {NoOne}]
  BY <1>1 DEF TableOK
<1>5. Used' = Used \ {i}
  BY <1>2, <1>3 DEF Used
<1>6. IsFiniteSet(Used) /\ Used' \in SUBSET Entries
  BY <1>5, UsedFinite DEF Used
<1>7. nrParticipants' = Cardinality(Used')
  BY <1>1, <1>5, <1>6, FS_RemoveElement DEF TableOK, ParticipantsConsistent
<1>8. nrParticipants' \in 0..MAX_CLIENTS
  BY <1>6, <1>7, UsedFinite
<1>9. ParticipantsConsistent'
  BY <1>3, <1>5, <1>7 DEF TableOK, ParticipantsConsistent, Used
<1> QED
  BY <1>2, <1>3, <1>4, <1>8, <1>9 DEF TableOK

(* An empty table. *)
LEMMA EmptyTable ==
  ASSUME conf' = conf, table' = [i \in Entries |-> NoOne], nrParticipants' = 0
  PROVE  TableOK' /\ nrParticipants' \in 0..MAX_CLIENTS
<1>1. Used' = {}
  BY DEF Used
<1> QED
  BY <1>1, FS_EmptySet, NegotiationAssumption DEF TableOK, ParticipantsConsistent

-----------------------------------------------------------------------------
(* The inductive invariant *)

\* What may be on its way.
NetTyped ==
  \A m \in net :
    \/ /\ m.type = "hello" /\ m.to \in Receivers /\ m.mcast \in Addresses
       /\ m.async \in BOOLEAN
    \/ /\ m.type = "reply" /\ m.to \in Receivers /\ m.clNr \in Entries \cup {-1}
       /\ m.mcast \in Addresses /\ m.session \in 1..session
    \/ m.type \in {"connect_req", "go", "disconnect"} /\ m.from \in Receivers

\* A reply on its way is to one that looks for it and tells the truth; who
\* disconnects is gone.
NetTrue ==
  \A m \in net :
    /\ m.type = "reply" =>
         /\ rPc[m.to] = "connecting"
         /\ m.session = session /\ m.clNr # -1 => RegisteredAs(m.to, m.clNr)
    /\ m.type = "disconnect" => m = Disconnect(m.from) /\ rPc[m.from] = "gone"

IInv == TypeOK /\ ParticipantsConsistent /\ ConnectedIsRegistered /\ NetTyped /\ NetTrue

(* Nothing is registered and nothing sent at the start. *)
LEMMA InitInv == Init => IInv
<1> SUFFICES ASSUME Init PROVE IInv
  OBVIOUS
<1>1. conf \in Configurations /\ conf \in ConfigurationType
  BY NegotiationAssumption DEF Init
<1>2. conf.sessions \in Nat \ {0} /\ conf.autostart \in Nat /\ conf.kbd \in BOOLEAN
  BY <1>1 DEF ConfigurationType
<1>3. TypeOK
  <2>1. 0 \in Entries
    BY NegotiationAssumption DEF Entries
  <2>2. dataAddr \in Addresses /\ flags \subseteq {"SN", "ASYNC"}
    BY DEF Init, Addresses, FirstDataAddr
  <2>3. /\ clNr \in [Receivers -> Entries] /\ rSession \in [Receivers -> 0..session]
        /\ rAddr \in [Receivers -> Addresses] /\ rConsole \in [Receivers -> BOOLEAN]
        /\ rPc \in [Receivers -> {"off", "connecting", "ready", "started", "gone", "failed"}]
    BY <2>1 DEF Init, Addresses
  <2>4. /\ table \in [Entries -> Receivers \cup {NoOne}] /\ nrParticipants \in 0..MAX_CLIENTS
        /\ session \in 1..conf.sessions /\ tries \in 0..conf.autostart + 1
    BY <1>2, NegotiationAssumption DEF Init
  <2> QED
    BY <1>1, <1>2, <2>2, <2>3, <2>4 DEF Init, TypeOK
<1>4. Used = {}
  BY NegotiationAssumption DEF Init, Used
<1>5. ParticipantsConsistent
  BY <1>4, FS_EmptySet DEF Init, ParticipantsConsistent
<1>6. ConnectedIsRegistered /\ NetTyped /\ NetTrue
  BY DEF Init, ConnectedIsRegistered, NetTyped, NetTrue
<1> QED
  BY <1>3, <1>5, <1>6 DEF IInv

(* What a step that begins a transfer or gives up leaves has its type. *)
LEMMA BeginTyped ==
  ASSUME IInv, BeginTransfer
  PROVE  /\ sPc' \in {"transfer", "over", "failed"} /\ dataAddr' \in Addresses
         /\ flags' \subseteq {"SN", "ASYNC"} /\ newGen' \in BOOLEAN /\ rcvbuf' \in Nat
<1>1. sPc' \in {"transfer", "over", "failed"}
  BY DEF BeginTransfer
<1>2. AgreedRcvbuf \in Nat
  <2> DEFINE S == {Announced(table[i]) : i \in Used}
  <2>1. S \in SUBSET Nat
    BY NegotiationAssumption DEF IInv, TypeOK, Announced, Used
  <2>2. ASSUME Used # {} PROVE Min(S) \in S
    <3>1. S # {}
      BY <2>2
    <3> QED
      BY <2>1, <3>1, MinOfNats
  <2> QED
    BY <2>1, <2>2 DEF AgreedRcvbuf
<1>3. AgreedNewGen \in BOOLEAN
  BY DEF AgreedNewGen
<1>4. (conf.pointopoint = "always" => nrParticipants = 1) => AgreedAddr \in Addresses
  <2> SUFFICES ASSUME conf.pointopoint = "always" => nrParticipants = 1, isPointToPoint
               PROVE  table[Max(Used)] \in Receivers
    BY DEF AgreedAddr, Addresses, IInv, TypeOK
  <2>1. Cardinality(Used) = 1
    BY DEF isPointToPoint, IInv, ParticipantsConsistent
  <2>2. PICK i : Used = {i}
    BY <2>1, UsedFinite, FS_Singleton DEF Used
  <2>3. i \in Int
    BY <2>2, NegotiationAssumption DEF Used, Entries
  <2>4. Max(Used) = i
    BY <2>2, <2>3 DEF Max
  <2> QED
    BY <2>2, <2>4 DEF Used, IInv, TypeOK
<1> QED
  BY <1>1, <1>2, <1>3, <1>4 DEF BeginTransfer, IInv, TypeOK

-----------------------------------------------------------------------------
(* One lemma per action *)

(* A hello has its type. *)
LEMMA HelloTyped ==
  ASSUME NEW address \in Addresses, NEW m \in Hello(address, "ASYNC" \in flags)
  PROVE  m.type = "hello" /\ m.to \in Receivers /\ m.mcast \in Addresses /\ m.async \in BOOLEAN
<1>1. PICK r \in Connecting :
        m = [type |-> "hello", to |-> r, mcast |-> address, async |-> "ASYNC" \in flags]
  BY DEF Hello
<1>2. ("ASYNC" \in flags) \in BOOLEAN
  OBVIOUS
<1>3. m.async = ("ASYNC" \in flags)
  BY <1>1
<1>4. m.async \in BOOLEAN
  BY <1>2, <1>3, Zenon
<1> QED
  BY <1>1, <1>4 DEF Connecting

(* A step of the sender that registers nobody, removes nobody and sends at most
   a hello keeps what was agreed. *)
LEMMA RegistrationKept ==
  ASSUME IInv, UNCHANGED <<conf, session, table, nrParticipants, receivers>>,
         sPc' = sPc \/ sPc = "dispatch",
         NEW address \in Addresses, net' \subseteq net \cup Hello(address, "ASYNC" \in flags)
  PROVE  ParticipantsConsistent' /\ ConnectedIsRegistered' /\ NetTyped' /\ NetTrue'
<1>1. ParticipantsConsistent'
  BY DEF IInv, ParticipantsConsistent, Used
<1>2. ConnectedIsRegistered'
  BY DEF IInv, ConnectedIsRegistered, RegisteredAs, receivers
<1>3. \A m \in net' : \/ m \in net
                      \/ /\ m.type = "hello" /\ m.to \in Receivers /\ m.mcast \in Addresses
                         /\ m.async \in BOOLEAN
  BY HelloTyped
<1>4. NetTyped'
  BY <1>3 DEF IInv, NetTyped
<1>5. NetTrue'
  BY <1>3 DEF IInv, NetTrue, RegisteredAs, receivers
<1> QED
  BY <1>1, <1>2, <1>4, <1>5

LEMMA TickStep == IInv /\ Tick => IInv'
<1> SUFFICES ASSUME IInv, Tick PROVE IInv'
  OBVIOUS
<1>1. conf \in ConfigurationType
  BY NegotiationAssumption DEF IInv, TypeOK
<1>2. \A x, y \in Nat : Max({x, y}) \in Nat
  BY DEF Max
<1>3. Max({conf.min_receivers_wait, conf.max_receivers_wait}) \in Nat /\ conf.startTimeout \in Nat
  BY <1>1, <1>2 DEF ConfigurationType
<1>4. sinceFirst' \in Nat \cup {-1} /\ sinceLoop' \in Nat
  <2> DEFINE limit == Max({conf.min_receivers_wait, conf.max_receivers_wait})
  <2>1. /\ sinceFirst' = IF sinceFirst < 0 THEN sinceFirst ELSE Bounded(sinceFirst + 1, limit)
        /\ sinceLoop' = Bounded(sinceLoop + 1, conf.startTimeout)
    BY DEF Tick
  <2>2. sinceFirst \in Nat \cup {-1} /\ sinceLoop \in Nat /\ limit \in Nat
    BY <1>3 DEF IInv, TypeOK
  <2> HIDE DEF limit
  <2> QED
    BY <1>3, <2>1, <2>2 DEF Bounded
<1>5. due' \in BOOLEAN
  BY <1>1, NegotiationAssumption DEF Tick, Timed, ConfigurationType, WaitsForReceivers
<1>6. TypeOK'
  BY <1>4, <1>5 DEF Tick, receivers, IInv, TypeOK
<1> QED
  BY <1>6, RegistrationKept DEF Tick, IInv, TypeOK

LEMMA TimeoutStep == IInv /\ Timeout => IInv'
<1> SUFFICES ASSUME IInv, Timeout PROVE IInv'
  OBVIOUS
<1>1. conf \in ConfigurationType
  BY NegotiationAssumption DEF IInv, TypeOK
<1>2. tries' \in 0..conf.autostart + 1
  <2>1. conf.autostart \in Nat /\ tries \in 0..conf.autostart + 1
    BY <1>1 DEF ConfigurationType, IInv, TypeOK
  <2>2. tries' = IF conf.rexmit_hello THEN Bounded(tries + 1, conf.autostart + 1) ELSE tries
    BY DEF Timeout
  <2> QED
    BY <2>1, <2>2 DEF Bounded
<1>3. /\ sPc' \in {"dispatch", "transfer", "over", "failed"} /\ dataAddr' \in Addresses
      /\ flags' \subseteq {"SN", "ASYNC"} /\ newGen' \in BOOLEAN /\ rcvbuf' \in Nat
  <2>1. CASE BeginTransfer
    BY <2>1, BeginTyped
  <2>2. CASE ~BeginTransfer
    BY <2>2 DEF Timeout, Undecided, IInv, TypeOK
  <2> QED
    BY <2>1, <2>2
<1>4. TypeOK'
  BY <1>2, <1>3 DEF Timeout, receivers, IInv, TypeOK
<1>5. sPc = "dispatch" /\ net' \subseteq net \cup Hello(dataAddr, "ASYNC" \in flags)
  BY DEF Timeout
<1> QED
  BY <1>4, <1>5, RegistrationKept DEF Timeout, IInv, TypeOK

LEMMA KeyPressedStep == IInv /\ KeyPressed => IInv'
<1> SUFFICES ASSUME IInv, KeyPressed PROVE IInv'
  OBVIOUS
<1>1. /\ sPc' \in {"dispatch", "transfer", "over", "failed"} /\ dataAddr' \in Addresses
      /\ flags' \subseteq {"SN", "ASYNC"} /\ newGen' \in BOOLEAN /\ rcvbuf' \in Nat
  <2>1. CASE BeginTransfer
    BY <2>1, BeginTyped
  <2>2. CASE ~BeginTransfer
    BY <2>2 DEF KeyPressed, Undecided, IInv, TypeOK
  <2> QED
    BY <2>1, <2>2
<1>2. /\ console' = FALSE /\ due' = FALSE /\ sinceFirst' \in Nat \cup {-1} /\ sinceLoop' \in Nat
      /\ UNCHANGED <<conf, session, table, nrParticipants, tries, receivers>>
  BY DEF KeyPressed, Called, IInv, TypeOK
<1>3. TypeOK'
  BY <1>1, <1>2 DEF receivers, IInv, TypeOK
<1>4. sPc = "dispatch" /\ net' \subseteq net \cup Hello(dataAddr, "ASYNC" \in flags)
  BY DEF KeyPressed
<1> QED
  BY <1>2, <1>3, <1>4, RegistrationKept DEF IInv, TypeOK

(* Removing one that is gone leaves everybody else registered. *)
LEMMA RemovalKept ==
  ASSUME IInv, NEW m \in net, m.type = "disconnect", lookupParticipant(m.from) >= 0,
         Removed(lookupParticipant(m.from)), sPc' = sPc,
         UNCHANGED <<conf, session, receivers>>, net' = net \ {m}
  PROVE  /\ table' \in [Entries -> Receivers \cup {NoOne}] /\ nrParticipants' \in 0..MAX_CLIENTS
         /\ ParticipantsConsistent' /\ ConnectedIsRegistered' /\ NetTyped' /\ NetTrue'
<1> DEFINE i == lookupParticipant(m.from)
<1>1. m.from \in Receivers /\ rPc[m.from] = "gone"
  BY DEF IInv, NetTyped, NetTrue
<1>2. TableOK
  BY DEF TableOK, IInv, TypeOK
<1>3. i \in Used /\ table[i] = m.from
  BY <1>1, <1>2, LookupFinds
<1>4. /\ TableOK' /\ nrParticipants' \in 0..MAX_CLIENTS
      /\ \A j \in Entries : table'[j] = IF j = i THEN NoOne ELSE table[j]
  BY <1>2, <1>3, RemoveKeeps
<1>5. \A r \in Receivers, j \in Entries :
       rPc[r] # "gone" /\ RegisteredAs(r, j) => RegisteredAs(r, j)'
  BY <1>1, <1>3, <1>4 DEF RegisteredAs
<1>6. ConnectedIsRegistered'
  BY <1>5 DEF IInv, TypeOK, ConnectedIsRegistered, receivers
<1>7. NetTyped'
  BY DEF IInv, NetTyped
<1>8. NetTrue'
  BY <1>5 DEF IInv, NetTyped, NetTrue, receivers
<1> QED
  BY <1>4, <1>6, <1>7, <1>8 DEF TableOK

(* A new participant changes nobody's number, and the reply tells its own. *)
LEMMA ConnectKept ==
  ASSUME IInv, NEW r \in Receivers, Connect(r), sPc = "dispatch",
         UNCHANGED <<conf, session, receivers>>
  PROVE  /\ table' \in [Entries -> Receivers \cup {NoOne}] /\ nrParticipants' \in 0..MAX_CLIENTS
         /\ dataAddr' \in Addresses
         /\ ParticipantsConsistent' /\ ConnectedIsRegistered' /\ NetTyped' /\ NetTrue'
<1> DEFINE n == addParticipant(r, conf.pointopoint = "always")
           address == IF conf.pointopoint = "always" THEN r ELSE dataAddr
<1>1. TableOK /\ nrParticipants \in 0..MAX_CLIENTS
  BY DEF TableOK, IInv, TypeOK
<1>2. Added(r, n) /\ dataAddr' = address /\ sPc' = sPc
  BY DEF Connect
<1>3. /\ n \in Entries \cup {-1} /\ TableOK' /\ nrParticipants' \in 0..MAX_CLIENTS
      /\ n # -1 => table'[n] = r
      /\ \A i \in Used : table'[i] = table[i]
  BY <1>1, <1>2, AddKeeps
<1>4. address \in Addresses
  BY DEF IInv, TypeOK, Addresses
<1>5. \A q \in Receivers, j \in Entries : table[j] = q => table'[j] = q
  BY <1>3, NegotiationAssumption DEF Used
<1>6. ConnectedIsRegistered'
  BY <1>2, <1>5 DEF IInv, TypeOK, ConnectedIsRegistered, RegisteredAs, receivers
<1>7. \A m \in net' : \/ m \in net
                      \/ /\ m.type = "reply" /\ m.to = r /\ rPc[r] = "connecting"
                         /\ m.clNr = n /\ m.mcast = address /\ m.session = session
  <2>1. net' = (net \ {ConnectReq(r)}) \cup Reply(r, n, address)
    BY DEF Connect
  <2>2. \A m \in Reply(r, n, address) :
          /\ m.type = "reply" /\ m.to = r /\ rPc[r] = "connecting"
          /\ m.clNr = n /\ m.mcast = address /\ m.session = session
    BY DEF Reply, Connecting
  <2> QED
    BY <2>1, <2>2
<1> HIDE DEF n, address
<1>8. NetTyped'
  BY <1>3, <1>4, <1>7 DEF IInv, TypeOK, NetTyped
<1>9. NetTrue'
  BY <1>2, <1>3, <1>5, <1>7 DEF IInv, NetTyped, NetTrue, RegisteredAs, receivers
<1> QED
  BY <1>2, <1>3, <1>4, <1>6, <1>8, <1>9 DEF TableOK

LEMMA DispatchStep == ASSUME NEW m \in net PROVE IInv /\ Dispatch(m) => IInv'
<1> SUFFICES ASSUME IInv, Dispatch(m) PROVE IInv'
  OBVIOUS
<1>0. /\ sPc = "dispatch" /\ m \in net /\ UNCHANGED <<conf, session, tries, console, receivers>>
      /\ due' = FALSE /\ sinceLoop' = 0 /\ sinceFirst' \in Nat \cup {-1}
  BY DEF Dispatch, ToSender, Called, IInv, TypeOK
<1>1. ASSUME /\ sPc' \in {"dispatch", "transfer", "over", "failed"} /\ dataAddr' \in Addresses
             /\ flags' \subseteq {"SN", "ASYNC"} /\ newGen' \in BOOLEAN /\ rcvbuf' \in Nat,
             table' \in [Entries -> Receivers \cup {NoOne}], nrParticipants' \in 0..MAX_CLIENTS
      PROVE  TypeOK'
  BY <1>0, <1>1 DEF IInv, TypeOK, receivers
<1>2. CASE UNCHANGED <<table, nrParticipants>> /\ net' = net \ {m} /\ (Undecided \/ BeginTransfer)
  <2>1. /\ sPc' \in {"dispatch", "transfer", "over", "failed"} /\ dataAddr' \in Addresses
        /\ flags' \subseteq {"SN", "ASYNC"} /\ newGen' \in BOOLEAN /\ rcvbuf' \in Nat
    <3>1. CASE BeginTransfer
      BY <3>1, BeginTyped
    <3>2. CASE Undecided
      BY <3>2 DEF Undecided, IInv, TypeOK
    <3> QED
      BY <1>2, <3>1, <3>2
  <2>2. TypeOK'
    BY <1>1, <1>2, <2>1 DEF IInv, TypeOK
  <2>3. dataAddr \in Addresses /\ net' \subseteq net \cup Hello(dataAddr, "ASYNC" \in flags)
    BY <1>2 DEF IInv, TypeOK
  <2> QED
    BY <1>0, <1>2, <2>2, <2>3, RegistrationKept DEF IInv
<1>3. CASE m.type = "connect_req" /\ Connect(m.from)
  <2>1. m.from \in Receivers
    BY <1>0, <1>3 DEF IInv, NetTyped
  <2>2. /\ table' \in [Entries -> Receivers \cup {NoOne}] /\ nrParticipants' \in 0..MAX_CLIENTS
        /\ dataAddr' \in Addresses
        /\ ParticipantsConsistent' /\ ConnectedIsRegistered' /\ NetTyped' /\ NetTrue'
    BY <1>0, <1>3, <2>1, ConnectKept
  <2>3. sPc' = sPc /\ flags' = flags /\ newGen' = newGen /\ rcvbuf' = rcvbuf
    BY <1>3 DEF Connect
  <2>4. TypeOK'
    BY <1>1, <2>2, <2>3 DEF IInv, TypeOK
  <2> QED
    BY <2>2, <2>4 DEF IInv
<1>4. CASE /\ m.type = "disconnect" /\ net' = net \ {m} /\ Undecided
           /\ lookupParticipant(m.from) >= 0 /\ Removed(lookupParticipant(m.from))
  <2>1. sPc' = sPc /\ flags' = flags /\ newGen' = newGen /\ rcvbuf' = rcvbuf /\ dataAddr' = dataAddr
    BY <1>4 DEF Undecided
  <2>2. /\ table' \in [Entries -> Receivers \cup {NoOne}] /\ nrParticipants' \in 0..MAX_CLIENTS
        /\ ParticipantsConsistent' /\ ConnectedIsRegistered' /\ NetTyped' /\ NetTrue'
    BY <1>0, <1>4, <2>1, RemovalKept
  <2>3. TypeOK'
    BY <1>1, <2>1, <2>2 DEF IInv, TypeOK
  <2> QED
    BY <2>2, <2>3 DEF IInv
<1> QED
  BY <1>2, <1>3, <1>4 DEF Dispatch

LEMMA ReturnChannelStep == IInv /\ ReturnChannel => IInv'
<1> SUFFICES ASSUME IInv, ReturnChannel PROVE IInv'
  OBVIOUS
<1>1. PICK m \in ToSender :
        /\ net' = net \ {m}
        /\ IF m.type = "disconnect" /\ lookupParticipant(m.from) >= 0
           THEN Removed(lookupParticipant(m.from))
           ELSE UNCHANGED <<table, nrParticipants>>
  BY DEF ReturnChannel
<1>2. m \in net /\ sPc' = sPc /\ UNCHANGED <<conf, session, receivers>>
  BY DEF ReturnChannel, ToSender
<1>3. CASE m.type = "disconnect" /\ lookupParticipant(m.from) >= 0
  <2>1. /\ table' \in [Entries -> Receivers \cup {NoOne}] /\ nrParticipants' \in 0..MAX_CLIENTS
        /\ ParticipantsConsistent' /\ ConnectedIsRegistered' /\ NetTyped' /\ NetTrue'
    BY <1>1, <1>2, <1>3, RemovalKept
  <2>2. TypeOK'
    BY <2>1 DEF ReturnChannel, receivers, IInv, TypeOK
  <2> QED
    BY <2>1, <2>2 DEF IInv
<1>4. CASE ~(m.type = "disconnect" /\ lookupParticipant(m.from) >= 0)
  <2>1. UNCHANGED <<table, nrParticipants>>
    BY <1>1, <1>4
  <2>2. TypeOK'
    BY <2>1 DEF ReturnChannel, receivers, IInv, TypeOK
  <2>3. dataAddr \in Addresses /\ net' \subseteq net \cup Hello(dataAddr, "ASYNC" \in flags)
    BY <1>1 DEF IInv, TypeOK
  <2> QED
    BY <1>2, <2>1, <2>2, <2>3, RegistrationKept DEF IInv
<1> QED
  BY <1>3, <1>4

(* Who is dropped goes on with a number that nobody else gets. *)
LEMMA DropParticipantStep == IInv /\ DropParticipant => IInv'
<1> SUFFICES ASSUME IInv, DropParticipant PROVE IInv'
  OBVIOUS
<1>1. PICK i \in Used : Removed(i)
  BY DEF DropParticipant
<1>2. /\ TableOK' /\ nrParticipants' \in 0..MAX_CLIENTS
      /\ \A j \in Entries : table'[j] = IF j = i THEN NoOne ELSE table[j]
  BY <1>1, RemoveKeeps DEF DropParticipant, TableOK, IInv, TypeOK
<1>3. TypeOK'
  BY <1>2 DEF DropParticipant, receivers, TableOK, IInv, TypeOK
<1>4. sPc = "transfer" /\ sPc' = "transfer" /\ UNCHANGED <<session, receivers, net>>
  BY DEF DropParticipant
<1>5. \A r \in Receivers, j \in Entries : RegisteredAs(r, j) => RegisteredAs(r, j)'
  BY <1>2, <1>4 DEF RegisteredAs
<1>6. ConnectedIsRegistered'
  BY <1>4, <1>5 DEF IInv, TypeOK, ConnectedIsRegistered, receivers
<1>7. NetTyped' /\ NetTrue'
  BY <1>4, <1>5 DEF IInv, NetTyped, NetTrue, receivers
<1> QED
  BY <1>2, <1>3, <1>6, <1>7 DEF IInv, TableOK

LEMMA TransferEndsStep == IInv /\ TransferEnds => IInv'
<1> SUFFICES ASSUME IInv, TransferEnds PROVE IInv'
  OBVIOUS
<1>1. TableOK' /\ nrParticipants' \in 0..MAX_CLIENTS
  BY EmptyTable DEF TransferEnds
<1>2. TypeOK'
  BY <1>1 DEF TransferEnds, receivers, TableOK, IInv, TypeOK
<1>3. ConnectedIsRegistered' /\ NetTyped' /\ NetTrue'
  BY DEF TransferEnds, receivers, IInv, ConnectedIsRegistered, RegisteredAs, NetTyped, NetTrue
<1> QED
  BY <1>1, <1>2, <1>3 DEF IInv, TableOK

LEMMA NextSessionStep == IInv /\ NextSession => IInv'
<1> SUFFICES ASSUME IInv, NextSession PROVE IInv'
  OBVIOUS
<1>0. conf \in ConfigurationType
  BY NegotiationAssumption DEF IInv, TypeOK
<1>1. TableOK' /\ nrParticipants' \in 0..MAX_CLIENTS
  BY EmptyTable DEF NextSession
<1>2. FirstDataAddr(dataAddr) \in Addresses
  BY DEF FirstDataAddr, Addresses, IInv, TypeOK
<1>3. session \in Nat /\ session' = session + 1 /\ session' \in 1..conf.sessions
  BY <1>0 DEF NextSession, IInv, TypeOK, ConfigurationType
<1>4. rSession' \in [Receivers -> 0..session']
  BY <1>3 DEF NextSession, receivers, IInv, TypeOK
<1>5. 0 \in 0..conf.autostart + 1 /\ conf.kbd \in BOOLEAN
  BY <1>0 DEF ConfigurationType
<1>6. TypeOK'
  BY <1>1, <1>2, <1>3, <1>4, <1>5 DEF NextSession, receivers, TableOK, IInv, TypeOK
<1>7. ConnectedIsRegistered'
  BY <1>3 DEF NextSession, receivers, IInv, TypeOK, ConnectedIsRegistered
<1>8. \A m \in net' : \/ m \in net
                      \/ /\ m.type = "hello" /\ m.to \in Receivers /\ m.mcast \in Addresses
                         /\ m.async \in BOOLEAN
  BY <1>2, HelloTyped DEF NextSession
<1>9. NetTyped' /\ NetTrue'
  BY <1>3, <1>8 DEF NextSession, receivers, IInv, NetTyped, NetTrue
<1> QED
  BY <1>1, <1>6, <1>7, <1>9 DEF IInv, TableOK

\* A step of a receiver that registers nowhere, and sends only what the sender
\* may get.
OwnStep(r) ==
  /\ conf' = conf /\ UNCHANGED sender
  /\ rPc[r] # "gone" \/ Disconnect(r) \notin net
  /\ \A q \in Receivers :
       q # r => rPc'[q] = rPc[q] /\ rSession'[q] = rSession[q] /\ clNr'[q] = clNr[q]
  /\ rPc'[r] \in {"ready", "started"} =>
       rPc[r] \in {"ready", "started"} /\ rSession'[r] = rSession[r] /\ clNr'[r] = clNr[r]
  /\ rPc[r] = "connecting" => rPc'[r] = "connecting" \/ ToReceiver(r) \cap net' = {}
  /\ \A m \in net' : \/ m \in net
                     \/ m.type \in {"connect_req", "go"} /\ m.from \in Receivers
                     \/ m = Disconnect(r) /\ rPc'[r] = "gone"

(* Such a step keeps what was agreed. *)
LEMMA ReceiverKept ==
  ASSUME IInv, NEW r \in Receivers, OwnStep(r)
  PROVE  ParticipantsConsistent' /\ ConnectedIsRegistered' /\ NetTyped' /\ NetTrue'
<1>1. ParticipantsConsistent'
  BY DEF IInv, ParticipantsConsistent, Used, sender, OwnStep
<1>2. ConnectedIsRegistered'
  BY DEF IInv, ConnectedIsRegistered, RegisteredAs, sender, OwnStep
<1>3. NetTyped'
  BY DEF IInv, NetTyped, sender, OwnStep, Disconnect
<1>4. NetTrue'
  <2> SUFFICES ASSUME NEW m \in net'
               PROVE  /\ m.type = "reply" =>
                           /\ rPc'[m.to] = "connecting"
                           /\ m.session = session /\ m.clNr # -1 => RegisteredAs(m.to, m.clNr)
                      /\ m.type = "disconnect" => m = Disconnect(m.from) /\ rPc'[m.from] = "gone"
    BY DEF NetTrue, RegisteredAs, sender, OwnStep
  <2>1. CASE m \in net
    <3>1. ASSUME m.type = "reply" PROVE rPc'[m.to] = "connecting"
      <4>1. m.to \in Receivers /\ rPc[m.to] = "connecting"
        BY <2>1, <3>1 DEF IInv, NetTyped, NetTrue
      <4>2. m.to = r => m \in ToReceiver(r) \cap net'
        BY <2>1, <3>1 DEF ToReceiver
      <4> QED
        BY <4>1, <4>2 DEF OwnStep
    <3>2. ASSUME m.type = "disconnect" PROVE rPc'[m.from] = "gone"
      <4>1. m.from \in Receivers /\ rPc[m.from] = "gone" /\ m = Disconnect(m.from)
        BY <2>1, <3>2 DEF IInv, NetTyped, NetTrue
      <4> QED
        BY <2>1, <4>1 DEF OwnStep
    <3> QED
      BY <2>1, <3>1, <3>2 DEF IInv, NetTrue
  <2>2. CASE m \notin net
    BY <2>2 DEF OwnStep, Disconnect
  <2> QED
    BY <2>1, <2>2
<1> QED
  BY <1>1, <1>2, <1>3, <1>4

LEMMA StartReceiverStep == ASSUME NEW r \in Receivers PROVE IInv /\ StartReceiver(r) => IInv'
<1> SUFFICES ASSUME IInv, StartReceiver(r) PROVE IInv'
  OBVIOUS
<1>1. TypeOK'
  BY DEF StartReceiver, sender, IInv, TypeOK
<1>2. /\ rPc[r] # "connecting" /\ Disconnect(r) \notin net
      /\ rPc'[r] = "connecting" /\ \A q \in Receivers : q # r => rPc'[q] = rPc[q]
  BY DEF StartReceiver, IInv, TypeOK
<1>3. \A m \in net' : m \in net \/ (m.type = "connect_req" /\ m.from \in Receivers)
  BY DEF StartReceiver, ConnectReq
<1>4. OwnStep(r)
  BY <1>2, <1>3 DEF OwnStep, StartReceiver
<1> QED
  BY <1>1, <1>4, ReceiverKept DEF IInv

LEMMA FailStep ==
  ASSUME NEW r \in Receivers, IInv, Fail(r), rPc[r] = "connecting", UNCHANGED <<conf, sender>>
  PROVE  IInv'
<1>1. TypeOK'
  BY DEF Fail, sender, IInv, TypeOK
<1>2. rPc'[r] = "failed" /\ \A q \in Receivers : q # r => rPc'[q] = rPc[q]
  BY DEF Fail, IInv, TypeOK
<1>3. ToReceiver(r) \cap net' = {} /\ \A m \in net' : m \in net
  BY DEF Fail
<1>4. OwnStep(r)
  BY <1>2, <1>3 DEF OwnStep, Fail
<1> QED
  BY <1>1, <1>4, ReceiverKept DEF IInv

(* A receiver that leaves the loop with a number that is its own in session s,
   or from before this session. *)
LEMMA ConnectedStep ==
  ASSUME NEW r \in Receivers, IInv, rPc[r] = "connecting", UNCHANGED <<conf, sender>>,
         NEW n \in Entries, NEW address \in Addresses, NEW asked \in BOOLEAN,
         NEW s \in 0..session, Connected(r, n, address, asked, s),
         s = session => RegisteredAs(r, n)
  PROVE  IInv'
<1>1. TypeOK'
  BY DEF Connected, sender, IInv, TypeOK, Addresses
<1>2. /\ rPc'[r] = "ready" /\ clNr'[r] = n /\ rSession'[r] = s
      /\ \A q \in Receivers : q # r => rPc'[q] = rPc[q] /\ rSession'[q] = rSession[q] /\ clNr'[q] = clNr[q]
  BY DEF Connected, IInv, TypeOK
<1>3. ParticipantsConsistent'
  BY DEF IInv, ParticipantsConsistent, Used, sender
<1>4. ConnectedIsRegistered'
  BY <1>2 DEF IInv, ConnectedIsRegistered, RegisteredAs, sender
<1>5. \A m \in net' : m \in net /\ m \notin ToReceiver(r)
  BY DEF Connected
<1>6. NetTyped'
  BY <1>5 DEF IInv, NetTyped, sender
<1>7. NetTrue'
  <2>1. \A m \in net' : m.type = "reply" => m.to \in Receivers /\ m.to # r
    BY <1>5 DEF ToReceiver, IInv, NetTyped
  <2>2. \A m \in net' : m.type = "disconnect" => m.from \in Receivers /\ m.from # r
    BY <1>5 DEF IInv, NetTyped, NetTrue
  <2> QED
    BY <1>2, <1>5, <2>1, <2>2 DEF IInv, NetTrue, RegisteredAs, sender
<1> QED
  BY <1>1, <1>3, <1>4, <1>6, <1>7 DEF IInv

LEMMA HearHelloStep ==
  ASSUME NEW r \in Receivers, NEW m \in net PROVE IInv /\ HearHello(r, m) => IInv'
<1> SUFFICES ASSUME IInv, HearHello(r, m) PROVE IInv'
  OBVIOUS
<1>1. /\ rPc[r] = "connecting" /\ m.type = "hello" /\ UNCHANGED <<conf, sender>>
      /\ m.mcast \in Addresses
  BY DEF HearHello, ToReceiver, IInv, NetTyped
<1>2. CASE Passive(r, m)
  <2>1. Connected(r, 0, m.mcast, FALSE, 0)
    BY <1>2 DEF HearHello
  <2>2. 0 \in Entries /\ 0 \in 0..session /\ 0 # session
    BY NegotiationAssumption DEF Entries, IInv, TypeOK, ConfigurationType
  <2> QED
    BY <1>1, <2>1, <2>2, ConnectedStep
<1>3. CASE ~Passive(r, m)
  <2>1. net' = (net \ {m}) \cup {ConnectReq(r)} /\ UNCHANGED receivers
    BY <1>3 DEF HearHello
  <2>2. TypeOK'
    BY <1>1, <2>1 DEF receivers, sender, IInv, TypeOK
  <2>3. \A k \in net' : k \in net \/ (k.type = "connect_req" /\ k.from \in Receivers)
    BY <2>1 DEF ConnectReq
  <2>4. OwnStep(r)
    BY <1>1, <2>1, <2>3 DEF OwnStep, receivers
  <2> QED
    BY <2>2, <2>4, ReceiverKept DEF IInv
<1> QED
  BY <1>2, <1>3

LEMMA HearReplyStep ==
  ASSUME NEW r \in Receivers, NEW m \in net PROVE IInv /\ HearReply(r, m) => IInv'
<1> SUFFICES ASSUME IInv, HearReply(r, m) PROVE IInv'
  OBVIOUS
<1>1. /\ rPc[r] = "connecting" /\ m.type = "reply" /\ m.to = r /\ UNCHANGED <<conf, sender>>
      /\ m.mcast \in Addresses /\ m.clNr \in Entries \cup {-1} /\ m.session \in 1..session
  BY DEF HearReply, ToReceiver, IInv, NetTyped
<1>2. CASE m.clNr = -1
  BY <1>1, <1>2, FailStep DEF HearReply
<1>3. CASE m.clNr # -1
  <2>1. Connected(r, m.clNr, m.mcast, TRUE, m.session)
    BY <1>3 DEF HearReply
  <2>2. m.session = session => RegisteredAs(r, m.clNr)
    BY <1>1, <1>3 DEF IInv, NetTrue
  <2>3. m.session \in 0..session /\ m.clNr \in Entries
    BY <1>1, <1>3 DEF IInv, TypeOK
  <2> QED
    BY <1>1, <2>1, <2>2, <2>3, ConnectedStep
<1> QED
  BY <1>2, <1>3

LEMMA HearTransferStep == ASSUME NEW r \in Receivers PROVE IInv /\ HearTransfer(r) => IInv'
<1> SUFFICES ASSUME IInv, HearTransfer(r) PROVE IInv'
  OBVIOUS
<1>1. CASE /\ rPc[r] = "ready" /\ rPc' = [rPc EXCEPT ![r] = "started"]
           /\ UNCHANGED <<clNr, rAddr, rConsole, rSession, rRuns, net, conf, sender>>
  <2>1. TypeOK'
    BY <1>1 DEF sender, IInv, TypeOK
  <2>2. rPc'[r] = "started" /\ \A q \in Receivers : q # r => rPc'[q] = rPc[q]
    BY <1>1 DEF IInv, TypeOK
  <2>3. OwnStep(r)
    BY <1>1, <2>2 DEF OwnStep
  <2> QED
    BY <2>1, <2>3, ReceiverKept DEF IInv
<1>2. CASE rPc[r] = "connecting" /\ Fail(r) /\ UNCHANGED <<conf, sender>>
  BY <1>2, FailStep
<1> QED
  BY <1>1, <1>2 DEF HearTransfer

LEMMA SendGoStep == ASSUME NEW r \in Receivers PROVE IInv /\ SendGo(r) => IInv'
<1> SUFFICES ASSUME IInv, SendGo(r) PROVE IInv'
  OBVIOUS
<1>1. TypeOK'
  BY DEF SendGo, sender, IInv, TypeOK
<1>2. \A m \in net' : m \in net \/ (m.type = "go" /\ m.from \in Receivers)
  BY DEF SendGo, Go
<1>3. OwnStep(r)
  BY <1>2 DEF OwnStep, SendGo
<1> QED
  BY <1>1, <1>3, ReceiverKept DEF IInv

LEMMA LeaveStep == ASSUME NEW r \in Receivers PROVE IInv /\ Leave(r) => IInv'
<1> SUFFICES ASSUME IInv, Leave(r) PROVE IInv'
  OBVIOUS
<1>1. TypeOK'
  BY DEF Leave, sender, IInv, TypeOK
<1>2. rPc[r] # "gone" /\ rPc'[r] = "gone" /\ \A q \in Receivers : q # r => rPc'[q] = rPc[q]
  BY DEF Leave, IInv, TypeOK
<1>3. ToReceiver(r) \cap net' = {}
  BY DEF Leave, Disconnect, ToReceiver
<1>4. \A m \in net' : m \in net \/ m = Disconnect(r)
  BY DEF Leave
<1>5. OwnStep(r)
  BY <1>2, <1>3, <1>4 DEF OwnStep, Leave
<1> QED
  BY <1>1, <1>5, ReceiverKept DEF IInv

LEMMA LoseStep == IInv /\ Lose => IInv'
<1> SUFFICES ASSUME IInv, Lose PROVE IInv'
  OBVIOUS
<1>1. TypeOK'
  BY DEF Lose, sender, receivers, IInv, TypeOK
<1>2. dataAddr \in Addresses /\ net' \subseteq net \cup Hello(dataAddr, "ASYNC" \in flags)
  BY DEF Lose, IInv, TypeOK
<1> QED
  BY <1>1, <1>2, RegistrationKept DEF Lose, sender, IInv

-----------------------------------------------------------------------------
(* The theorems *)

LEMMA NextInv == IInv /\ [Next]_vars => IInv'
<1> SUFFICES ASSUME IInv, [Next]_vars PROVE IInv'
  OBVIOUS
<1>1. CASE Sender
  BY <1>1, TickStep, TimeoutStep, DispatchStep, KeyPressedStep, ReturnChannelStep,
     DropParticipantStep, TransferEndsStep, NextSessionStep DEF Sender
<1>2. ASSUME NEW r \in Receivers, Receiver(r) PROVE IInv'
  BY <1>2, StartReceiverStep, HearTransferStep, SendGoStep, LeaveStep, HearHelloStep,
     HearReplyStep DEF Receiver
<1>3. CASE Lose
  BY <1>3, LoseStep
<1>4. CASE UNCHANGED vars
  BY <1>4 DEF vars, sender, receivers, IInv, TypeOK, ParticipantsConsistent, Used,
              ConnectedIsRegistered, RegisteredAs, NetTyped, NetTrue
<1> QED
  BY <1>1, <1>2, <1>3, <1>4 DEF Next

(* The invariant holds at all times, whatever is lost, delayed or reordered and
   whoever is dropped: the count is exact, no address has two entries, a receiver
   and every reply on its way to one have a number that is the receiver's own
   (dispatch) or at most nobody's (transfer), a DISCONNECT is of one that is gone. *)
THEOREM Invariant == Spec => []IInv
<1> QED
  BY InitInv, NextInv, PTL DEF Spec

(* The variables of the negotiation have their types: the numbers given are
   entries of the table, the address data go to is one (startSender,
   mainDispatcher, doTransfer, startReceiver). *)
THEOREM TypeCorrect == Spec => []TypeOK
<1>1. IInv => TypeOK
  BY DEF IInv
<1> QED
  BY <1>1, Invariant, PTL

(* The count of participants is exact and no address is registered twice
   (addParticipant, removeParticipant). *)
THEOREM ParticipantsCounted == Spec => []ParticipantsConsistent
<1>1. IInv => ParticipantsConsistent
  BY DEF IInv
<1> QED
  BY <1>1, Invariant, PTL

(* Who was told its number in this session is registered under it until the
   transfer begins; during the transfer, where it may be dropped, nobody else is
   (sendConnectionReply, startReceiver, the drop in netSenderMain).  The session is
   a condition: a reply of an earlier one may be believed, and its number be
   another receiver's. *)
THEOREM Registered == Spec => []ConnectedIsRegistered
<1>1. IInv => ConnectedIsRegistered
  BY DEF IInv
<1> QED
  BY <1>1, Invariant, PTL

-----------------------------------------------------------------------------
(* What is agreed on suits every participant, unless a daemon that chooses
   point-to-point mode by itself begins another session. *)

ChoosesOnce == \A c \in Configurations : c.pointopoint = "auto" => c.sessions = 1

InSession(r) == rPc[r] \in {"ready", "started"} /\ rSession[r] = session

Fits(address) == address = "group" \/ dataAddr = "control" \/ conf.pointopoint = "always"

\* Everybody was told the group's address, where data do not go to all.
ToldInv ==
  /\ conf.pointopoint = "never" => dataAddr \in {"group", "control"}
  /\ conf.pointopoint = "auto" => session = 1 /\ (sPc = "dispatch" => dataAddr = "group")
  /\ \A m \in net : m.type = "reply" /\ m.session = session => Fits(m.mcast)
  /\ \A r \in Receivers \ OldReceivers : InSession(r) => Fits(rAddr[r])

\* The address for the data is the group's, or that of the only participant, or
\* reaches everybody; the rest suits all of them.
AgreedInv ==
  sPc = "transfer" =>
    /\ \/ dataAddr = "control"
       \/ /\ dataAddr = "group" /\ conf.pointopoint # "always"
          /\ \A i \in Used : table[i] \notin OldReceivers
       \/ dataAddr \in Receivers /\ \A i \in Used : table[i] = dataAddr
    /\ \A i \in Used : table[i] \in OldReceivers => ~newGen /\ flags = {}
    /\ \A i \in Used : RcvBuf[table[i]] > 0 => rcvbuf <= RcvBuf[table[i]]

SuitInv == ToldInv /\ AgreedInv

LEMMA InitSuits == Init => SuitInv
<1> SUFFICES ASSUME Init PROVE SuitInv
  OBVIOUS
<1>1. conf \in ConfigurationType
  BY NegotiationAssumption DEF Init
<1> QED
  BY <1>1 DEF Init, SuitInv, ToldInv, AgreedInv, InSession, FirstDataAddr, ConfigurationType

(* It is enough for the transfer to suit its participants. *)
LEMMA SuitsEnough == IInv /\ SuitInv => TransferSuitsParticipants
<1> SUFFICES ASSUME IInv, SuitInv, sPc = "transfer", NEW i \in Used
             PROVE  /\ InSession(table[i]) => table[i] \in Reached
                    /\ table[i] \in OldReceivers => ~newGen /\ flags = {}
                    /\ RcvBuf[table[i]] > 0 => rcvbuf <= RcvBuf[table[i]]
  BY DEF TransferSuitsParticipants, InSession
<1>1. table[i] \in Receivers
  BY DEF Used, IInv, TypeOK
<1>2. ASSUME InSession(table[i]) PROVE table[i] \in Reached
  <2>1. CASE dataAddr = "control"
    BY <1>1, <2>1 DEF Reached
  <2>2. CASE /\ dataAddr = "group" /\ conf.pointopoint # "always"
             /\ table[i] \notin OldReceivers
    BY <1>1, <1>2, <2>2 DEF Reached, SuitInv, ToldInv, Fits, InSession
  <2>3. CASE dataAddr \in Receivers /\ table[i] = dataAddr
    BY <2>3, NegotiationAssumption DEF Reached
  <2> QED
    BY <2>1, <2>2, <2>3 DEF SuitInv, AgreedInv
<1> QED
  BY <1>2 DEF SuitInv, AgreedInv

(* A step of the sender that agrees on nothing new and registers nobody. *)
LEMMA SenderSuits ==
  ASSUME IInv, SuitInv,
         UNCHANGED <<conf, session, dataAddr, flags, newGen, rcvbuf, receivers>>,
         sPc' \in {"dispatch", "transfer"} => sPc' = sPc,
         sPc' = "transfer" => \A i \in Used' : i \in Used /\ table'[i] = table[i],
         \A m \in net' : m.type = "reply" => m \in net
  PROVE  SuitInv'
<1>1. ToldInv'
  BY DEF SuitInv, ToldInv, InSession, Fits, receivers
<1>2. AgreedInv'
  BY DEF SuitInv, AgreedInv
<1> QED
  BY <1>1, <1>2 DEF SuitInv

LEMMA BeginSuits ==
  ASSUME IInv, SuitInv, sPc = "dispatch", BeginTransfer,
         UNCHANGED <<conf, session, table, nrParticipants, receivers>>,
         \A m \in net' : m.type = "reply" => m \in net
  PROVE  SuitInv'
<1>0. conf \in ConfigurationType
  BY NegotiationAssumption DEF IInv, TypeOK
<1>1. CASE sPc' # "transfer"
  <2>1. sPc' # "dispatch" /\ UNCHANGED <<dataAddr, flags, newGen, rcvbuf>>
    BY <1>1 DEF BeginTransfer
  <2> QED
    BY <1>1, <2>1, SenderSuits
<1>2. CASE sPc' = "transfer"
  <2>1. /\ newGen' = AgreedNewGen /\ rcvbuf' = AgreedRcvbuf /\ dataAddr' = AgreedAddr
        /\ flags' = IF AgreedNewGen THEN flags ELSE flags \ {"SN", "ASYNC"}
        /\ conf.pointopoint = "always" => nrParticipants = 1
    BY <1>2 DEF BeginTransfer
  <2>2. \/ AgreedAddr = "control"
        \/ /\ AgreedAddr = dataAddr /\ conf.pointopoint # "always"
           /\ \A i \in Used : table[i] \notin OldReceivers
        \/ /\ conf.pointopoint # "never" /\ AgreedAddr \in Receivers
           /\ \A i \in Used : table[i] = AgreedAddr
    <3>1. CASE conf.bcast \/ ~AgreedNewGen
      BY <3>1 DEF AgreedAddr
    <3>2. CASE ~(conf.bcast \/ ~AgreedNewGen) /\ isPointToPoint
      <4>1. Cardinality(Used) = 1
        BY <2>1, <3>2 DEF isPointToPoint, IInv, ParticipantsConsistent
      <4>2. PICK i : Used = {i}
        BY <4>1, UsedFinite, FS_Singleton DEF Used
      <4>3. i \in Int
        BY <4>2, NegotiationAssumption DEF Used, Entries
      <4>4. Max(Used) = i
        BY <4>2, <4>3 DEF Max
      <4>5. table[i] \in Receivers
        BY <4>2 DEF Used, IInv, TypeOK
      <4> QED
        BY <3>2, <4>2, <4>4, <4>5 DEF AgreedAddr, isPointToPoint
    <3>3. CASE ~(conf.bcast \/ ~AgreedNewGen) /\ ~isPointToPoint
      BY <3>3 DEF AgreedAddr, isPointToPoint, AgreedNewGen
    <3> QED
      BY <3>1, <3>2, <3>3
  <2>3. AgreedAddr = dataAddr /\ conf.pointopoint # "always" => dataAddr \in {"group", "control"}
    BY <1>0 DEF ConfigurationType, SuitInv, ToldInv
  <2>4. \A i \in Used : RcvBuf[table[i]] > 0 => AgreedRcvbuf <= RcvBuf[table[i]]
    <3> SUFFICES ASSUME NEW i \in Used, RcvBuf[table[i]] > 0
                 PROVE  AgreedRcvbuf <= RcvBuf[table[i]]
      OBVIOUS
    <3> DEFINE S == {Announced(table[j]) : j \in Used}
    <3>1. S \in SUBSET Nat /\ S # {}
      BY NegotiationAssumption DEF IInv, TypeOK, Announced, Used
    <3>2. \A y \in S : Min(S) <= y
      BY <3>1, MinOfNats
    <3>3. RcvBuf[table[i]] \in S
      BY NegotiationAssumption DEF Announced, Used, IInv, TypeOK
    <3> QED
      BY <3>2, <3>3 DEF AgreedRcvbuf
  <2>5. AgreedInv'
    <3>1. Used' = Used
      BY DEF Used
    <3>2. \A i \in Used : table[i] \in OldReceivers => ~newGen' /\ flags' = {}
      BY <2>1 DEF AgreedNewGen, IInv, TypeOK
    <3>3. \/ dataAddr' = "control"
          \/ /\ dataAddr' = "group" /\ conf.pointopoint # "always"
             /\ \A i \in Used : table[i] \notin OldReceivers
          \/ dataAddr' \in Receivers /\ \A i \in Used : table[i] = dataAddr'
      BY <2>1, <2>2, <2>3
    <3> QED
      BY <2>1, <2>4, <3>1, <3>2, <3>3 DEF AgreedInv
  <2>6. dataAddr = "control" /\ conf.pointopoint # "always" => dataAddr' = "control"
    <3>1. CASE conf.pointopoint = "never"
      BY <2>1, <2>2, <3>1
    <3>2. CASE conf.pointopoint = "auto"
      BY <3>2 DEF SuitInv, ToldInv
    <3> QED
      BY <1>0, <3>1, <3>2 DEF ConfigurationType
  <2>7. ToldInv'
    <3>1. conf'.pointopoint = "never" => dataAddr' \in {"group", "control"}
      BY <2>1, <2>2, <2>3
    <3>2. \A m \in net' : m.type = "reply" /\ m.session = session' => Fits(m.mcast)'
      BY <2>6 DEF SuitInv, ToldInv, Fits
    <3>3. \A r \in Receivers \ OldReceivers : InSession(r)' => Fits(rAddr[r])'
      BY <2>6 DEF SuitInv, ToldInv, Fits, InSession, receivers
    <3> QED
      BY <1>2, <3>1, <3>2, <3>3 DEF SuitInv, ToldInv
  <2> QED
    BY <2>5, <2>7 DEF SuitInv
<1> QED
  BY <1>1, <1>2

(* Answering a request tells the address data go to, as far as it is settled. *)
LEMMA ConnectSuits ==
  ASSUME IInv, SuitInv, sPc = "dispatch", NEW r \in Receivers, Connect(r),
         UNCHANGED <<conf, session, receivers>>
  PROVE  SuitInv'
<1>0. conf \in ConfigurationType
  BY NegotiationAssumption DEF IInv, TypeOK
<1>1. /\ sPc' = "dispatch"
      /\ dataAddr' = IF conf.pointopoint = "always" THEN r ELSE dataAddr
  BY DEF Connect
<1>2. \A m \in net' : m.type = "reply" => m \in net \/ m.mcast = dataAddr'
  BY <1>1 DEF Connect, Reply
<1>3. conf.pointopoint # "always" => dataAddr \in {"group", "control"}
  BY <1>0 DEF ConfigurationType, SuitInv, ToldInv
<1>4. \A m \in net' : m.type = "reply" /\ m.session = session' => Fits(m.mcast)'
  BY <1>1, <1>2, <1>3 DEF SuitInv, ToldInv, Fits
<1>5. \A q \in Receivers \ OldReceivers : InSession(q)' => Fits(rAddr[q])'
  BY <1>1 DEF SuitInv, ToldInv, Fits, InSession, receivers
<1> QED
  BY <1>1, <1>4, <1>5 DEF SuitInv, ToldInv, AgreedInv

(* Nobody was told anything in a session that begins. *)
LEMMA NextSessionSuits ==
  ASSUME ChoosesOnce, IInv, SuitInv, NextSession
  PROVE  SuitInv'
<1>1. conf \in ConfigurationType /\ conf \in Configurations
  BY NegotiationAssumption DEF IInv, TypeOK
<1>2. session \in Nat /\ session' = session + 1 /\ conf.pointopoint # "auto" /\ sPc' = "dispatch"
  BY <1>1 DEF NextSession, IInv, TypeOK, ConfigurationType, ChoosesOnce
<1>3. \A m \in net' : m.type = "reply" => m.session # session'
  <2>1. \A m \in Hello(FirstDataAddr(dataAddr), "ASYNC" \in flags) : m.type = "hello"
    BY DEF Hello
  <2>2. \A m \in net : m.type = "reply" => m.session \in 1..session
    BY DEF IInv, NetTyped
  <2> QED
    BY <1>2, <2>1, <2>2 DEF NextSession
<1>4. \A r \in Receivers : ~InSession(r)'
  BY <1>2 DEF NextSession, receivers, InSession, IInv, TypeOK
<1>5. conf.pointopoint = "never" => dataAddr' \in {"group", "control"}
  BY DEF NextSession, FirstDataAddr, SuitInv, ToldInv
<1> QED
  BY <1>2, <1>3, <1>4, <1>5 DEF NextSession, SuitInv, ToldInv, AgreedInv

(* Steps of the sender. *)
LEMMA SenderStepSuits ==
  ASSUME ChoosesOnce, IInv, SuitInv, Sender
  PROVE  SuitInv'
<1>1. CASE Tick
  BY <1>1, SenderSuits DEF Tick, Used
<1>2. CASE Timeout
  <2>1. /\ sPc = "dispatch"
        /\ UNCHANGED <<conf, session, table, nrParticipants, receivers>>
        /\ \A m \in net' : m.type = "reply" => m \in net
    BY <1>2 DEF Timeout, Hello
  <2>2. CASE BeginTransfer
    BY <2>1, <2>2, BeginSuits
  <2>3. CASE ~BeginTransfer
    <3>1. /\ UNCHANGED <<dataAddr, flags, newGen, rcvbuf>> /\ sPc' \in {"dispatch", "over"}
      BY <1>2, <2>3 DEF Timeout, Undecided
    <3> QED
      BY <2>1, <3>1, SenderSuits
  <2> QED
    BY <2>2, <2>3
<1>3. ASSUME NEW m \in net, Dispatch(m) PROVE SuitInv'
  <2>1. sPc = "dispatch" /\ UNCHANGED <<conf, session, receivers>>
    BY <1>3 DEF Dispatch
  <2>2. CASE m.type = "connect_req" /\ Connect(m.from)
    <3>1. m.from \in Receivers
      BY <2>2 DEF IInv, NetTyped
    <3> QED
      BY <2>1, <2>2, <3>1, ConnectSuits
  <2>3. CASE BeginTransfer /\ net' = net \ {m} /\ UNCHANGED <<table, nrParticipants>>
    BY <2>1, <2>3, BeginSuits
  <2>4. CASE Undecided /\ net' = net \ {m}
    BY <2>1, <2>4, SenderSuits DEF Undecided
  <2> QED
    BY <1>3, <2>2, <2>3, <2>4 DEF Dispatch
<1>4. CASE KeyPressed
  <2>1. /\ sPc = "dispatch"
        /\ UNCHANGED <<conf, session, table, nrParticipants, receivers>>
        /\ \A m \in net' : m.type = "reply" => m \in net
    BY <1>4 DEF KeyPressed
  <2>2. CASE BeginTransfer
    BY <2>1, <2>2, BeginSuits
  <2>3. CASE ~BeginTransfer
    <3>1. /\ UNCHANGED <<dataAddr, flags, newGen, rcvbuf>> /\ sPc' \in {"dispatch", "failed"}
      BY <1>4, <2>1, <2>3 DEF KeyPressed, Undecided
    <3> QED
      BY <2>1, <3>1, SenderSuits
  <2> QED
    BY <2>2, <2>3
<1>5. CASE ReturnChannel
  <2>1. PICK m \in ToSender :
          /\ net' = net \ {m}
          /\ IF m.type = "disconnect" /\ lookupParticipant(m.from) >= 0
             THEN Removed(lookupParticipant(m.from))
             ELSE UNCHANGED <<table, nrParticipants>>
    BY <1>5 DEF ReturnChannel
  <2>2. \A i \in Used' : i \in Used /\ table'[i] = table[i]
    BY <2>1, NegotiationAssumption DEF Removed, Used, IInv, TypeOK
  <2> QED
    BY <1>5, <2>1, <2>2, SenderSuits DEF ReturnChannel
<1>6. CASE TransferEnds
  BY <1>6, SenderSuits DEF TransferEnds
<1>7. CASE NextSession
  BY <1>7, NextSessionSuits
<1>8. CASE DropParticipant
  <2> \A i \in Used' : i \in Used /\ table'[i] = table[i]
    BY <1>8, NegotiationAssumption DEF DropParticipant, Removed, Used, IInv, TypeOK
  <2> QED
    BY <1>8, SenderSuits DEF DropParticipant
<1> QED
  BY <1>1, <1>2, <1>3, <1>4, <1>5, <1>6, <1>7, <1>8 DEF Sender

(* A receiver that joins believes the address of its reply. *)
LEMMA ReceiverSuits ==
  ASSUME IInv, SuitInv, UNCHANGED <<conf, sender>>,
         \A m \in net' : m.type = "reply" => m \in net,
         \A r \in Receivers \ OldReceivers :
           InSession(r)' => \/ InSession(r) /\ rAddr'[r] = rAddr[r]
                           \/ \E m \in net : /\ m.type = "reply" /\ m.session = session
                                             /\ rAddr'[r] = m.mcast
  PROVE  SuitInv'
<1>1. \A m \in net' : m.type = "reply" /\ m.session = session' => Fits(m.mcast)'
  BY DEF SuitInv, ToldInv, Fits, sender
<1>2. \A r \in Receivers \ OldReceivers : InSession(r)' => Fits(rAddr[r])'
  BY DEF SuitInv, ToldInv, Fits, sender
<1> QED
  BY <1>1, <1>2 DEF SuitInv, ToldInv, AgreedInv, Used, sender

LEMMA ReceiverStepSuits ==
  ASSUME IInv, SuitInv, NEW r \in Receivers, Receiver(r)
  PROVE  SuitInv'
<1>0. UNCHANGED <<conf, sender>>
  BY DEF Receiver, StartReceiver, HearTransfer, SendGo, Leave, HearHello, HearReply
<1>1. CASE StartReceiver(r) \/ HearTransfer(r) \/ SendGo(r) \/ Leave(r)
  <2>1. \A m \in net' : m.type = "reply" => m \in net
    BY <1>1 DEF StartReceiver, HearTransfer, SendGo, Leave, ConnectReq, Go, Disconnect, Fail
  <2>2. \A q \in Receivers : rAddr'[q] = rAddr[q] /\ rSession'[q] = rSession[q]
    BY <1>1 DEF StartReceiver, HearTransfer, SendGo, Leave, Fail
  <2>3. \A q \in Receivers : rPc'[q] \in {"ready", "started"} => rPc[q] \in {"ready", "started"}
    BY <1>1 DEF StartReceiver, HearTransfer, SendGo, Leave, Fail, IInv, TypeOK
  <2>4. \A q \in Receivers : InSession(q)' => InSession(q)
    BY <1>0, <2>2, <2>3 DEF InSession, sender
  <2> QED
    BY <1>0, <2>1, <2>2, <2>4, ReceiverSuits
<1>2. ASSUME NEW m \in net, HearHello(r, m) PROVE SuitInv'
  <2>1. \A k \in net' : k.type = "reply" => k \in net
    BY <1>2 DEF HearHello, Connected, ConnectReq
  <2>2. \A q \in Receivers : InSession(q)' => InSession(q) /\ rAddr'[q] = rAddr[q]
    <3>1. CASE UNCHANGED receivers
      BY <1>0, <3>1 DEF receivers, sender, InSession
    <3>2. CASE Connected(r, 0, m.mcast, FALSE, 0)
      <4>1. session # 0 /\ session' = session
        BY <1>0 DEF sender, IInv, TypeOK
      <4>2. rSession'[r] = 0
        BY <3>2 DEF Connected, IInv, TypeOK
      <4>3. \A q \in Receivers : q # r =>
              rPc'[q] = rPc[q] /\ rSession'[q] = rSession[q] /\ rAddr'[q] = rAddr[q]
        BY <3>2 DEF Connected, IInv, TypeOK
      <4> QED
        BY <4>1, <4>2, <4>3 DEF InSession
    <3> QED
      BY <1>2, <3>1, <3>2 DEF HearHello
  <2> QED
    BY <1>0, <2>1, <2>2, ReceiverSuits
<1>3. ASSUME NEW m \in net, HearReply(r, m) PROVE SuitInv'
  <2>1. \A k \in net' : k.type = "reply" => k \in net
    BY <1>3 DEF HearReply, Connected, Fail
  <2>2. CASE Fail(r)
    <3>1. \A q \in Receivers : InSession(q)' => InSession(q) /\ rAddr'[q] = rAddr[q]
      BY <1>0, <2>2 DEF Fail, InSession, sender, IInv, TypeOK
    <3> QED
      BY <1>0, <2>1, <3>1, ReceiverSuits
  <2>3. CASE Connected(r, m.clNr, m.mcast, TRUE, m.session)
    <3>1. \A q \in Receivers : q # r =>
            rPc'[q] = rPc[q] /\ rSession'[q] = rSession[q] /\ rAddr'[q] = rAddr[q]
      BY <2>3 DEF Connected, IInv, TypeOK
    <3>2. /\ rSession'[r] = m.session /\ m.type = "reply"
          /\ r \notin OldReceivers => rAddr'[r] = m.mcast
      BY <1>3, <2>3 DEF HearReply, Connected, IInv, TypeOK
    <3>3. session' = session
      BY <1>0 DEF sender
    <3>4. \A q \in Receivers \ OldReceivers :
            InSession(q)' => \/ InSession(q) /\ rAddr'[q] = rAddr[q]
                            \/ /\ m.type = "reply" /\ m.session = session
                               /\ rAddr'[q] = m.mcast
      BY <3>1, <3>2, <3>3 DEF InSession
    <3> QED
      BY <1>0, <2>1, <3>4, ReceiverSuits
  <2> QED
    BY <1>3, <2>2, <2>3 DEF HearReply
<1> QED
  BY <1>1, <1>2, <1>3 DEF Receiver

LEMMA NextSuits == ChoosesOnce /\ IInv /\ SuitInv /\ [Next]_vars => SuitInv'
<1> SUFFICES ASSUME ChoosesOnce, IInv, SuitInv, [Next]_vars PROVE SuitInv'
  OBVIOUS
<1>1. CASE Sender
  BY <1>1, SenderStepSuits
<1>2. ASSUME NEW r \in Receivers, Receiver(r) PROVE SuitInv'
  BY <1>2, ReceiverStepSuits
<1>3. CASE Lose
  BY <1>3, SenderSuits DEF Lose, sender, Used
<1>4. CASE UNCHANGED vars
  BY <1>4, SenderSuits DEF vars, sender, Used
<1> QED
  BY <1>1, <1>2, <1>3, <1>4 DEF Next

(* Once the transfer has begun, what was agreed suits every participant: data go
   where it listens, everybody knows the features in use, and no receive buffer
   is smaller than assumed (doTransfer, sendConnectionReply).  A daemon that
   chooses point-to-point mode by itself is left out: there the property fails,
   because the address of the session before is kept. *)
THEOREM AgreementSuits == ASSUME ChoosesOnce PROVE Spec => []TransferSuitsParticipants
<1>1. IInv /\ SuitInv /\ [Next]_vars => SuitInv'
  BY NextSuits
<1>2. Spec => []SuitInv
  BY <1>1, InitSuits, Invariant, PTL DEF Spec
<1> QED
  BY <1>2, Invariant, SuitsEnough, PTL
=============================================================================
