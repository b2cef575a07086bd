----------------------------- MODULE Negotiation -----------------------------
(***************************************************************************)
(* How sender and receivers find each other, agree on the parameters of a  *)
(* transfer and begin it: udps-negotiate.c, participants.c, the loop over  *)
(* sessions of udp-sender.c, and udpr-negotiate.c with the part of         *)
(* dispatchMessage (receivedata.c) that runs before the first data block.  *)
(*                                                                         *)
(* The network is a set of messages: they may be delayed, reordered and    *)
(* lost; a message to a receiver that would not look at it is not kept.    *)
(* Time is counted in turns of select; what a timer says beyond the        *)
(* largest limit it is compared with makes no difference.  The transfer    *)
(* itself is the subject of Transfer; here it makes the receivers start,   *)
(* drops participants and ends at some time.  A receiver that has ended    *)
(* may start again with its old address.                                   *)
(***************************************************************************)
EXTENDS Integers, FiniteSets, FiniteSetsExt

CONSTANTS
  Receivers,     \* addresses of receivers
  NoOne,         \* an entry of the table not in use
  OldReceivers,  \* those that lack CAP_NEW_GEN
  RcvBuf,        \* size of the receive buffer each announces, 0 if unknown
  MAX_CLIENTS,   \* entries of the table
  Configurations \* options of the sender and bounds: see ConfigurationType

ConfigurationType ==
  [pointopoint : {"auto", "always", "never"}, \* FLAG_POINTOPOINT, FLAG_NOPOINTOPOINT
   async : BOOLEAN, bcast : BOOLEAN, kbd : BOOLEAN,
   duplex : {"full", "option", "half"}, \* full: found at the interface, option: FLAG_SN given
   min_receivers : Nat, min_receivers_wait : Nat, max_receivers_wait : Nat,
   startTimeout : Nat, autostart : Nat,
   rexmit_hello : BOOLEAN,  \* rexmit_hello_interval is not 0
   sessions : Nat \ {0},    \* 1, or how many sessions a daemon is watched for
   runs : [Receivers -> Nat]] \* bound: how often each receiver is started

ASSUME NegotiationAssumption ==
  /\ MAX_CLIENTS \in Nat \ {0} /\ OldReceivers \subseteq Receivers /\ NoOne \notin Receivers
  /\ {"none", "group", "control"} \cap Receivers = {}
  /\ RcvBuf \in [Receivers -> Nat]
  /\ \A c \in Configurations :
       /\ c \in ConfigurationType
       \* the normalisation of options in udp-sender.c
       /\ c.async => c.pointopoint # "always"
       /\ c.autostart > 0 \/ c.async => c.rexmit_hello

VARIABLES
  conf,
  sPc, session,
  table, nrParticipants,
  tries, sinceFirst, sinceLoop, due, console,
  dataAddr, flags, newGen, rcvbuf,
  rPc, clNr, rAddr, rConsole, rSession,
  rRuns,   \* how often a receiver was started
  net

sender == <<sPc, session, table, nrParticipants, tries, sinceFirst, sinceLoop, due, console,
            dataAddr, flags, newGen, rcvbuf>>
receivers == <<rPc, clNr, rAddr, rConsole, rSession, rRuns>>
vars == <<conf, sender, receivers, net>>

-----------------------------------------------------------------------------
(* Messages; "session" in a reply is a history field no receiver reads *)

Connecting == {r \in Receivers : rPc[r] = "connecting"}

Hello(address, async) ==
  {[type |-> "hello", to |-> r, mcast |-> address, async |-> async] : r \in Connecting}
Reply(r, n, address) ==
  {[type |-> "reply", to |-> q, clNr |-> n, mcast |-> address, session |-> session] :
     q \in {r} \cap Connecting}
ConnectReq(r) == [type |-> "connect_req", from |-> r]
Go(r) == [type |-> "go", from |-> r]
Disconnect(r) == [type |-> "disconnect", from |-> r]

ToSender == {m \in net : m.type \in {"connect_req", "go", "disconnect"}}
ToReceiver(r) == {m \in net : m.type \in {"hello", "reply"} /\ m.to = r}

-----------------------------------------------------------------------------
(* The table of participants *)

Entries == 0..MAX_CLIENTS - 1
Used == {i \in Entries : table[i] # NoOne}

\* Ports compared instead of addresses: all receivers have the same.
LookupMutant(r) == IF Used = {} THEN -1 ELSE Min(Used)

lookupParticipant(r) ==
  IF \E i \in Used : table[i] = r THEN Min({i \in Used : table[i] = r}) ELSE -1

\* addParticipant: the number the address has or gets, -1 if there is no room.
addParticipant(r, pointopoint) ==
  LET unused == {i \in Entries : table[i] = NoOne}
  IN  IF lookupParticipant(r) >= 0 THEN lookupParticipant(r)
      ELSE IF unused = {} \/ (pointopoint /\ 0 \notin unused) THEN -1
      ELSE Min(unused)

Added(r, n) ==
  IF n = -1 \/ table[n] = r THEN UNCHANGED <<table, nrParticipants>>
  ELSE table' = [table EXCEPT ![n] = r] /\ nrParticipants' = nrParticipants + 1

\* The entry is cleared, the count forgotten.
RemovedMutant(i) == table' = [table EXCEPT ![i] = NoOne] /\ UNCHANGED nrParticipants

\* removeParticipant
Removed(i) ==
  table' = [table EXCEPT ![i] = NoOne] /\ nrParticipants' = nrParticipants - 1

-----------------------------------------------------------------------------
(* The sender before the transfer *)

Bounded(x, limit) == IF x < limit THEN x ELSE limit

WaitsForReceivers ==
  conf.min_receivers > 0 \/ conf.min_receivers_wait > 0 \/ conf.max_receivers_wait > 0

\* The data address at the start of a session: what the last session left is
\* kept, a group address is derived if there is none.
FirstDataAddr(old) ==
  IF conf.pointopoint = "always" THEN "none" ELSE IF old = "none" THEN "group" ELSE old

\* startSender, up to the first call of mainDispatcher.
Init ==
  /\ conf \in Configurations
  /\ sPc = "dispatch" /\ session = 1
  /\ table = [i \in Entries |-> NoOne] /\ nrParticipants = 0
  /\ tries = 0 /\ sinceFirst = -1 /\ sinceLoop = 0 /\ due = FALSE /\ console = conf.kbd
  /\ dataAddr = FirstDataAddr("none") /\ newGen = TRUE /\ rcvbuf = 0
  /\ flags = {f \in {"SN", "ASYNC"} : IF f = "SN" THEN conf.duplex # "half" ELSE conf.async}
  /\ net = {}
  /\ rPc = [r \in Receivers |-> "off"] /\ clNr = [r \in Receivers |-> 0]
  /\ rAddr = [r \in Receivers |-> "none"] /\ rSession = [r \in Receivers |-> 0]
  /\ rConsole = [r \in Receivers |-> FALSE] /\ rRuns = [r \in Receivers |-> 0]

\* What doTransfer keeps of the capabilities when somebody lacks CAP_NEW_GEN:
\* all, the participants not being asked.
AgreedNewGenMutant == TRUE

\* doTransfer: whether all participants have CAP_NEW_GEN.
AgreedNewGen == \A i \in Used : table[i] \notin OldReceivers

\* The receive buffer assumed of a receiver that does not tell its own.
Announced(r) == IF RcvBuf[r] = 0 THEN 65536 ELSE RcvBuf[r]

\* The least receive buffer; 0 without participants.
AgreedRcvbuf == IF Used = {} THEN 0 ELSE Min({Announced(table[i]) : i \in Used})

isPointToPoint ==
  \/ conf.pointopoint = "always"
  \/ conf.pointopoint = "auto" /\ "ASYNC" \notin flags /\ nrParticipants = 1

\* The address data go to: that of the last participant in point-to-point mode;
\* the control address if somebody needs it.
AgreedAddr ==
  IF conf.bcast \/ ~AgreedNewGen THEN "control"
  ELSE IF isPointToPoint THEN table[Max(Used)] ELSE dataAddr

\* The dispatcher returned 1: the transfer begins if there is anybody.
BeginTransfer ==
  IF "ASYNC" \notin flags /\ nrParticipants = 0
  THEN sPc' = "over" /\ UNCHANGED <<dataAddr, flags, newGen, rcvbuf>>
  ELSE IF conf.pointopoint = "always" /\ nrParticipants # 1
  THEN sPc' = "failed" /\ UNCHANGED <<dataAddr, flags, newGen, rcvbuf>>
  ELSE /\ sPc' = "transfer"
       /\ newGen' = AgreedNewGen /\ rcvbuf' = AgreedRcvbuf
       /\ dataAddr' = AgreedAddr
       /\ flags' = IF AgreedNewGen THEN flags ELSE flags \ {"SN", "ASYNC"}

Undecided == UNCHANGED <<sPc, dataAddr, flags, newGen, rcvbuf>>

\* More participants than the least number asked for.
CheckMutant ==
  /\ nrParticipants > 0 /\ sinceFirst >= 0
  /\ \/ conf.max_receivers_wait > 0 /\ sinceFirst >= conf.max_receivers_wait
     \/ nrParticipants > conf.min_receivers /\ sinceFirst >= conf.min_receivers_wait

\* checkClientWait
checkClientWait ==
  /\ nrParticipants > 0 /\ sinceFirst >= 0
  /\ \/ conf.max_receivers_wait > 0 /\ sinceFirst >= conf.max_receivers_wait
     \/ /\ nrParticipants >= conf.min_receivers
        /\ sinceFirst >= conf.min_receivers_wait

\* Whether the select of mainDispatcher has a time limit.
Timed == \/ conf.rexmit_hello \/ conf.startTimeout > 0
         \/ WaitsForReceivers /\ nrParticipants > 0

\* Time passes.
Tick ==
  /\ sPc = "dispatch"
  /\ due' = Timed
  /\ sinceFirst' = IF sinceFirst < 0 THEN sinceFirst
                   ELSE Bounded(sinceFirst + 1, Max({conf.min_receivers_wait, conf.max_receivers_wait}))
  /\ sinceLoop' = Bounded(sinceLoop + 1, conf.startTimeout)
  /\ UNCHANGED <<conf, sPc, session, table, nrParticipants, tries, console, dataAddr, flags,
                 newGen, rcvbuf, receivers, net>>

\* The time limit of select: hello is sent again, and the reasons to start are
\* looked at, then the one to give up.
Timeout ==
  LET sent == IF conf.rexmit_hello THEN Bounded(tries + 1, conf.autostart + 1) ELSE tries
  IN  /\ sPc = "dispatch" /\ due
      /\ due' = FALSE /\ tries' = sent
      /\ net' = net \cup IF conf.rexmit_hello THEN Hello(dataAddr, "ASYNC" \in flags) ELSE {}
      /\ IF \/ conf.autostart > 0 /\ sent > conf.autostart
            \/ WaitsForReceivers /\ checkClientWait
         THEN BeginTransfer
         ELSE IF conf.startTimeout > 0 /\ sinceLoop >= conf.startTimeout
         THEN sPc' = "over" /\ UNCHANGED <<dataAddr, flags, newGen, rcvbuf>>
         ELSE Undecided
      /\ UNCHANGED <<conf, session, table, nrParticipants, sinceFirst, sinceLoop, console, receivers>>

\* mainDispatcher is called again: its timer starts anew, and the first
\* connection is noted.
Called ==
  /\ sinceLoop' = 0 /\ due' = FALSE
  /\ sinceFirst' = IF WaitsForReceivers /\ sinceFirst = -1 /\ nrParticipants' > 0 THEN 0
                   ELSE sinceFirst

\* A request to connect: sendConnectionReply.
Connect(r) ==
  LET n == addParticipant(r, conf.pointopoint = "always")
      address == IF conf.pointopoint = "always" THEN r ELSE dataAddr
  IN  /\ Added(r, n) /\ dataAddr' = address
      /\ net' = (net \ {ConnectReq(r)}) \cup Reply(r, n, address)
      /\ UNCHANGED <<sPc, flags, newGen, rcvbuf>>

\* mainDispatcher handles a message; in asynchronous mode it is thrown away.
Dispatch(m) ==
  /\ sPc = "dispatch" /\ m \in ToSender
  /\ IF "ASYNC" \in flags
     THEN net' = net \ {m} /\ Undecided /\ UNCHANGED <<table, nrParticipants>>
     ELSE \/ m.type = "connect_req" /\ Connect(m.from)
          \/ /\ m.type = "go" /\ BeginTransfer
             /\ net' = net \ {m} /\ UNCHANGED <<table, nrParticipants>>
          \/ /\ m.type = "disconnect" /\ net' = net \ {m} /\ Undecided
             /\ IF lookupParticipant(m.from) >= 0 THEN Removed(lookupParticipant(m.from))
                ELSE UNCHANGED <<table, nrParticipants>>
  /\ Called
  /\ UNCHANGED <<conf, session, tries, console, receivers>>

\* A key: "q" quits; another begins the transfer, unless a message that came with
\* it is thrown away in asynchronous mode and the key with it; there is no console
\* after it.
KeyPressed ==
  /\ sPc = "dispatch" /\ console /\ console' = FALSE
  /\ \/ /\ \/ BeginTransfer
           \/ sPc' = "failed" /\ UNCHANGED <<dataAddr, flags, newGen, rcvbuf>>
        /\ due' = FALSE /\ UNCHANGED <<sinceFirst, sinceLoop, net>>
     \/ /\ "ASYNC" \in flags /\ Undecided /\ Called
        /\ \E m \in ToSender : net' = net \ {m}
  /\ UNCHANGED <<conf, session, table, nrParticipants, tries, receivers>>

-----------------------------------------------------------------------------
(* The sender during the transfer *)

\* Who gets what is sent to the data address.
Reached ==
  IF dataAddr = "control" THEN Receivers
  ELSE IF dataAddr = "group"
  THEN {r \in Receivers : rAddr[r] = "group" /\ rPc[r] \in {"ready", "started"}}
  ELSE {dataAddr}

\* The return channel: only a participant's leaving matters here.
ReturnChannel ==
  /\ sPc = "transfer"
  /\ \E m \in ToSender :
       /\ net' = net \ {m}
       /\ IF m.type = "disconnect" /\ lookupParticipant(m.from) >= 0
          THEN Removed(lookupParticipant(m.from))
          ELSE UNCHANGED <<table, nrParticipants>>
  /\ UNCHANGED <<conf, sPc, session, tries, sinceFirst, sinceLoop, due, console, dataAddr, flags,
                 newGen, rcvbuf, receivers>>

\* A participant that did not become ready for a slice after all retries is
\* dropped: it is not told and goes on listening.  Which one, and when, the
\* transfer decides.
DropParticipant ==
  /\ sPc = "transfer"
  /\ \E i \in Used : Removed(i)
  /\ UNCHANGED <<conf, sPc, session, tries, sinceFirst, sinceLoop, due, console, dataAddr, flags,
                 newGen, rcvbuf, receivers, net>>

\* The transfer is complete: the participants are removed.
TransferEnds ==
  /\ sPc = "transfer" /\ sPc' = "over"
  /\ table' = [i \in Entries |-> NoOne] /\ nrParticipants' = 0
  /\ UNCHANGED <<conf, session, tries, sinceFirst, sinceLoop, due, console, dataAddr, flags, newGen,
                 rcvbuf, receivers, net>>

\* A daemon waits for the next receivers, on the same main socket; a full duplex
\* interface is found again.
NextSession ==
  /\ sPc = "over" /\ session < conf.sessions
  /\ sPc' = "dispatch" /\ session' = session + 1
  /\ table' = [i \in Entries |-> NoOne] /\ nrParticipants' = 0
  /\ tries' = 0 /\ sinceFirst' = -1 /\ sinceLoop' = 0 /\ due' = FALSE /\ console' = conf.kbd
  /\ dataAddr' = FirstDataAddr(dataAddr) /\ newGen' = TRUE /\ rcvbuf' = 0
  /\ flags' = flags \cup {f \in {"SN"} : conf.duplex = "full"}
  /\ net' = net \cup Hello(FirstDataAddr(dataAddr), "ASYNC" \in flags)
  /\ UNCHANGED <<conf, receivers>>

Sender == \/ Tick \/ Timeout \/ (\E m \in net : Dispatch(m)) \/ KeyPressed
          \/ ReturnChannel \/ DropParticipant \/ TransferEnds \/ NextSession

-----------------------------------------------------------------------------
(* The receivers *)

\* startReceiver, up to its first select.  Nothing of an earlier run that the
\* sender or the receiver could take for one of this run is still on its way.
StartReceiver(r) ==
  /\ rPc[r] \in {"off", "gone", "failed"} /\ Disconnect(r) \notin net
  /\ rRuns[r] < conf.runs[r] /\ rRuns' = [rRuns EXCEPT ![r] = @ + 1]
  /\ rPc' = [rPc EXCEPT ![r] = "connecting"] /\ net' = net \cup {ConnectReq(r)}
  /\ UNCHANGED <<conf, sender, clNr, rAddr, rConsole, rSession>>

\* The loop of startReceiver is left; a receiver that did not have to ask has no
\* console.
Connected(r, n, address, asked, s) ==
  /\ rPc' = [rPc EXCEPT ![r] = "ready"] /\ clNr' = [clNr EXCEPT ![r] = n]
  /\ rAddr' = [rAddr EXCEPT ![r] = IF r \in OldReceivers THEN "none" ELSE address]
  /\ rSession' = [rSession EXCEPT ![r] = s] /\ rConsole' = [rConsole EXCEPT ![r] = asked]
  /\ net' = net \ ToReceiver(r) /\ UNCHANGED rRuns

\* The fatal error has no message to the sender: the handler is not set yet.
Fail(r) ==
  /\ rPc' = [rPc EXCEPT ![r] = "failed"] /\ net' = net \ ToReceiver(r)
  /\ UNCHANGED <<clNr, rAddr, rConsole, rSession, rRuns>>

\* An asynchronous sender needs no request.
Passive(r, m) == m.async /\ r \notin OldReceivers

\* A message in the loop of startReceiver.
HearHello(r, m) ==
  /\ rPc[r] = "connecting" /\ m \in ToReceiver(r) /\ m.type = "hello"
  /\ IF Passive(r, m) THEN Connected(r, 0, m.mcast, FALSE, 0)
     ELSE net' = (net \ {m}) \cup {ConnectReq(r)} /\ UNCHANGED receivers
  /\ UNCHANGED <<conf, sender>>

\* The number of a reply is not looked at.
HearReplyMutant(r, m) ==
  /\ rPc[r] = "connecting" /\ m \in ToReceiver(r) /\ m.type = "reply"
  /\ Connected(r, m.clNr, m.mcast, TRUE, m.session)
  /\ UNCHANGED <<conf, sender>>

HearReply(r, m) ==
  /\ rPc[r] = "connecting" /\ m \in ToReceiver(r) /\ m.type = "reply"
  /\ IF m.clNr = -1 THEN Fail(r) ELSE Connected(r, m.clNr, m.mcast, TRUE, m.session)
  /\ UNCHANGED <<conf, sender>>

\* What is sent to the data address: a connected receiver starts; a request for
\* acknowledgement is a fatal surprise in the loop of startReceiver, where data
\* blocks are passed over.
HearTransfer(r) ==
  /\ sPc = "transfer" /\ r \in Reached
  /\ \/ /\ rPc[r] = "ready" /\ rPc' = [rPc EXCEPT ![r] = "started"]
        /\ UNCHANGED <<clNr, rAddr, rConsole, rSession, rRuns, net>>
     \/ rPc[r] = "connecting" /\ "ASYNC" \notin flags /\ Fail(r)
  /\ UNCHANGED <<conf, sender>>

\* A key at a receiver that has not started: the signal to start, given once.
SendGo(r) ==
  /\ rPc[r] = "ready" /\ rConsole[r]
  /\ rConsole' = [rConsole EXCEPT ![r] = FALSE] /\ net' = net \cup {Go(r)}
  /\ UNCHANGED <<conf, sender, rPc, clNr, rAddr, rSession, rRuns>>

\* The end: the transfer is complete, or the start timeout ran out; a receiver
\* that has not found the sender leaves without a word.
Leave(r) ==
  /\ rPc[r] \in {"connecting", "ready", "started"}
  /\ rPc' = [rPc EXCEPT ![r] = "gone"] /\ rConsole' = [rConsole EXCEPT ![r] = FALSE]
  /\ net' = (net \ ToReceiver(r)) \cup IF rPc[r] = "connecting" THEN {} ELSE {Disconnect(r)}
  /\ UNCHANGED <<conf, sender, clNr, rAddr, rSession, rRuns>>

Receiver(r) ==
  \/ StartReceiver(r) \/ HearTransfer(r) \/ SendGo(r) \/ Leave(r)
  \/ \E m \in net : HearHello(r, m) \/ HearReply(r, m)

\* The network loses a message.
Lose == \E m \in net : net' = net \ {m} /\ UNCHANGED <<conf, sender, receivers>>

Next == Sender \/ (\E r \in Receivers : Receiver(r)) \/ Lose

Spec == Init /\ [][Next]_vars

\* Time passes and select returns; of messages sent again and again some arrive.
\* No user presses a key and no receiver leaves or starts of necessity.
FairSpec ==
  /\ Spec
  /\ WF_vars(Tick) /\ WF_vars(Timeout)
  /\ \A r \in Receivers :
       /\ SF_vars(Dispatch(ConnectReq(r)))
       /\ SF_vars(\E m \in net : HearHello(r, m))
       /\ SF_vars(\E m \in net : HearReply(r, m))

-----------------------------------------------------------------------------
(* Properties *)

Addresses == Receivers \cup {"none", "group", "control"}

\* The variables have their types.
TypeOK ==
  /\ conf \in Configurations
  /\ sPc \in {"dispatch", "transfer", "over", "failed"} /\ session \in 1..conf.sessions
  /\ table \in [Entries -> Receivers \cup {NoOne}] /\ nrParticipants \in 0..MAX_CLIENTS
  /\ tries \in 0..conf.autostart + 1 /\ sinceFirst \in Nat \cup {-1} /\ sinceLoop \in Nat
  /\ due \in BOOLEAN /\ console \in BOOLEAN /\ newGen \in BOOLEAN /\ rcvbuf \in Nat
  /\ dataAddr \in Addresses /\ flags \subseteq {"SN", "ASYNC"}
  /\ rPc \in [Receivers -> {"off", "connecting", "ready", "started", "gone", "failed"}]
  /\ clNr \in [Receivers -> Entries] /\ rSession \in [Receivers -> 0..session]
  /\ rAddr \in [Receivers -> Addresses] /\ rConsole \in [Receivers -> BOOLEAN]
  /\ rRuns \in [Receivers -> Nat]

\* The count of participants is that of the entries in use, no address has two
\* entries, and in point-to-point mode there is one participant at most
\* (addParticipant, removeParticipant, repeated requests).
ParticipantsConsistent ==
  /\ nrParticipants = Cardinality(Used)
  /\ \A i, j \in Used : table[i] = table[j] => i = j
  /\ conf.pointopoint = "always" => Used \subseteq {0}

\* Number n is that of r; in the transfer it may be nobody's, r being dropped.
RegisteredAs(r, n) ==
  /\ sPc = "dispatch" => table[n] = r
  /\ sPc = "transfer" => table[n] \in {r, NoOne}

\* A receiver that was told its number in this session is registered under it
\* until the transfer begins, however late or often its requests and their replies
\* arrive, also when it was started before and left an entry behind.  In the
\* transfer it may have been dropped, but nobody else gets its number
\* (sendConnectionReply, addParticipant, removeParticipant).  Not claimed of a
\* receiver that believes a reply of an earlier session.
ConnectedIsRegistered ==
  \A r \in Receivers :
    rPc[r] \in {"ready", "started"} /\ rSession[r] = session => RegisteredAs(r, clNr[r])

\* What is agreed on suits every participant: it listens where the data go, all
\* know the features in use, no receive buffer is smaller than the one assumed
\* (doTransfer; the address a receiver was told may be another one).
TransferSuitsParticipants ==
  sPc = "transfer" =>
    \A i \in Used : LET r == table[i] IN
      /\ rPc[r] \in {"ready", "started"} /\ rSession[r] = session => r \in Reached
      /\ r \in OldReceivers => ~newGen /\ flags = {}
      /\ RcvBuf[r] > 0 => rcvbuf <= RcvBuf[r]

\* With hello repeated, no receiver is left connecting while the sender waits for
\* receivers, and a sender with enough of them does not wait for ever, though
\* each message starts its timers anew.
EverybodyIsServed ==
  /\ \A r \in Receivers :
       []<>(conf.rexmit_hello => rPc[r] # "connecting" \/ sPc # "dispatch")
  /\ []<>(~WaitsForReceivers \/ sPc # "dispatch" \/ nrParticipants = 0
          \/ nrParticipants < conf.min_receivers)
=============================================================================
