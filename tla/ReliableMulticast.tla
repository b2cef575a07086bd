-------------------------- MODULE ReliableMulticast --------------------------
(***************************************************************************)
(* What the slice transfer promises: every receiver is handed the slices   *)
(* of the file in order, the sender forgets a slice (and reuses its        *)
(* memory) only when every receiver that is still a member was handed it,  *)
(* and nobody is ever more than Window slices ahead of what the slowest    *)
(* member has.  Members may leave (disconnect, or be dropped).             *)
(* Transfer is shown to implement this module, and so is the receiver of   *)
(* FecReceiver, alone, where the sender waits for acknowledgements.        *)
(***************************************************************************)
EXTENDS Integers

CONSTANTS Receivers,  \* those that registered before the transfer
          Window      \* slices in flight: 1, or 2 with full duplex

VARIABLES members,    \* receivers the sender still serves
          delivered,  \* number of slices handed to each receiver's writer
          released    \* number of slices the sender has forgotten

multicastVars == <<members, delivered, released>>

MulticastInit ==
    /\ members = Receivers
    /\ delivered = [r \in Receivers |-> 0]
    /\ released = 0

(* Completing one slice may complete the ones after it as well. *)
Deliver ==
    /\ \E r \in Receivers : \E n \in delivered[r] + 1 .. released + Window :
          delivered' = [delivered EXCEPT ![r] = n]
    /\ UNCHANGED <<members, released>>

Release ==
    /\ \A r \in members : delivered[r] > released
    /\ released' = released + 1
    /\ UNCHANGED <<members, delivered>>

Leave ==
    /\ \E gone \in SUBSET members : members' = members \ gone
    /\ UNCHANGED <<delivered, released>>

MulticastNext == Deliver \/ Release \/ Leave

MulticastSpec == MulticastInit /\ [][MulticastNext]_multicastVars
=============================================================================
