--------------------------- MODULE MCSenderThreads ---------------------------
(* Values for the constants of SenderThreads. *)
EXTENDS SenderThreads
CONSTANT r1

MCReceivers == {r1}

MCModes == {m \in ModeType : m.async => m.sn}
=============================================================================
