---------------------------- MODULE MCControlHub ----------------------------
(* The control hub of V1, and what is assumed of its constants.  Conns are   *)
(* the Clients of ControlHub, a name that the port manager uses as well.     *)
EXTENDS Naturals

CONSTANTS Conns, Watched, Tasks, MaxFE, MaxBE, None
VARIABLES life, role, reg, authed, first, phase, todo, casts, tele, mu, closing, full, gone

ASSUME ConnAssumption == None \notin Conns \cup Tasks /\ Conns \cap Tasks = {}
ASSUME MaxAssumption == Watched \subseteq Conns /\ MaxFE \in Nat /\ MaxBE \in Nat

CH == INSTANCE ControlHub WITH Clients <- Conns

HubSpec == CH!FairSpec

\* The first message a client receives is its auth reply, whatever is broadcast
\* while handleConn registers it, and no role has more clients than its limit.
AuthFirst == CH!AuthFirst

\* Every entry of the maps has a handler or a Close that will remove it, except
\* that of a client whose auth reply failed (handleConnection, Close, Unregister).
EntriesAttended == CH!EntriesAttended

\* What was started for a client that left ends and the client is unregistered,
\* unless another one does not read or its own auth reply failed; and Unregister
\* ends, although its Close needs c.mu while it holds h.mu.
DepartureCleansUp == CH!DepartureCleansUp
=============================================================================
