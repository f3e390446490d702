--------------------------- MODULE SessionContract ---------------------------
(***************************************************************************)
(* What the session layer promises an application about one connection,    *)
(* independently of threads, locks and sockets.  A session is new, then it *)
(* is registered with the SessionManager, then it is released; a released  *)
(* session never comes back.  The OnDisconnected hook is called only for a *)
(* released session, at most once because its read loop ended and at most  *)
(* once because it was force-disconnected.  (Each failed write calls the   *)
(* hook again, so for the "write" path there is no bound to promise.)      *)
(***************************************************************************)
EXTENDS Naturals

CONSTANT Sessions

VARIABLES
    phase,      \* where each session is in its life
    reports     \* how often OnDisconnected was called, by session and path

contractVars == <<phase, reports>>

Paths == {"read", "write", "force"}

ContractInit ==
    /\ phase = [s \in Sessions |-> "new"]
    /\ reports = [s \in Sessions |-> [p \in Paths |-> 0]]

Register(s) ==
    /\ phase[s] = "new"
    /\ phase' = [phase EXCEPT ![s] = "registered"]
    /\ UNCHANGED reports

Release(s, p) ==
    /\ phase[s] \in {"registered", "released"}
    /\ p # "write" => reports[s][p] = 0
    /\ phase' = [phase EXCEPT ![s] = "released"]
    /\ reports' = [reports EXCEPT ![s][p] = @ + 1]

ContractNext == \E s \in Sessions : Register(s) \/ \E p \in Paths : Release(s, p)

ContractSpec == ContractInit /\ [][ContractNext]_contractVars
==============================================================================
