---------------------------- MODULE ServingGate -----------------------------
(* What the data plane of a connector sees of its authorization: the serving  *)
(* state that AckTracker publishes and whether the clock has passed the       *)
(* deadline D that goes with it.  ConnectorAuthz implements this              *)
(* specification, and SessionTeardown runs against it.                        *)

VARIABLES state,   \* ServingState
          lapsed   \* the state is open and now >= D

gateVars == <<state, lapsed>>

Open(s) == s \in {"Serving", "ServingDisconnected"}
Terminal(s) == s \in {"Revoked", "UnknownIdentity"}

GateTypeOK ==
    /\ state \in {"Starting", "Serving", "ServingDisconnected", "Disabled",
                  "Recovering", "Revoked", "UnknownIdentity"}
    /\ lapsed \in BOOLEAN

GateInit == state = "Starting" /\ lapsed = FALSE

\* AuthzSnapshot::admits.
Admits == Open(state) /\ ~lapsed

\* expire, which every event but a terminal signal applies first.
Expired == IF lapsed THEN "Disabled" ELSE state

\* The clock reaches D; no event yet.
Lapse == Admits /\ lapsed' = TRUE /\ UNCHANGED state

Event(to) ==
    /\ state' = to
    /\ lapsed' = FALSE

\* The expiry timer, or any event that changes nothing else.
Expire == Event(Expired)

\* An accepted acknowledgement.
Acknowledge == ~Terminal(state) /\ Event("Serving")

StreamUp == Event(IF Expired = "Disabled" THEN "Recovering" ELSE Expired)

StreamDown ==
    Event(CASE Expired = "Serving"    -> "ServingDisconnected"
            [] Expired = "Recovering" -> "Disabled"
            [] OTHER                  -> Expired)

\* A terminal signal; the first one wins.
Terminate ==
    /\ ~Terminal(state)
    /\ \E signal \in {"Revoked", "UnknownIdentity"} : Event(signal)

\* The process ends; the next one starts unauthorized.
Exit == Event("Starting")

GateEvent == Expire \/ Acknowledge \/ StreamUp \/ StreamDown \/ Terminate

GateNext == Lapse \/ GateEvent \/ Exit

GateSpec == GateInit /\ [][GateNext]_gateVars
=============================================================================
