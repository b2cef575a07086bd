--------------------------- MODULE MCNegotiation ---------------------------
(* Receivers and the options of the sender to try. *)
EXTENDS Negotiation

CONSTANTS r1, r2

Base == [pointopoint |-> "auto", async |-> FALSE, bcast |-> FALSE, kbd |-> FALSE,
         duplex |-> "full", min_receivers |-> 0, min_receivers_wait |-> 0, max_receivers_wait |-> 0,
         startTimeout |-> 0, autostart |-> 0, rexmit_hello |-> FALSE, sessions |-> 1,
         runs |-> [r \in Receivers |-> 1]]

\* One receiver is started again.
Again == [r \in Receivers |-> IF r = r2 THEN 2 ELSE 1]

MCConfigurations ==
  { [Base EXCEPT !.kbd = TRUE, !.startTimeout = 2],
    [Base EXCEPT !.min_receivers = 2, !.max_receivers_wait = 2, !.rexmit_hello = TRUE],
    [Base EXCEPT !.min_receivers = 1, !.min_receivers_wait = 1, !.bcast = TRUE,
                    !.duplex = "half"],
    [Base EXCEPT !.pointopoint = "always", !.kbd = TRUE, !.duplex = "option", !.runs = Again],
    [Base EXCEPT !.pointopoint = "never", !.sessions = 2, !.runs = Again],
    [Base EXCEPT !.async = TRUE, !.kbd = TRUE, !.autostart = 1, !.rexmit_hello = TRUE] }

MCRcvBuf == [r \in Receivers |-> IF r = r1 THEN 0 ELSE 3]
=============================================================================
