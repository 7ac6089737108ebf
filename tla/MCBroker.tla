------------------------------ MODULE MCBroker ------------------------------
(* Instances for TLC of Broker alone and of the daemon around it             *)
(* (DaemonRoutes).                                                           *)
EXTENDS DaemonRoutes, TLC

CONSTANTS c1, c2, c3, p1, p2, t1, t2

OneTarget == [p \in Pane |-> t1]

\* The broker alone: nothing performs what it asks for.
BrokerSpec == DaemonInit /\ [][Next /\ UNCHANGED daemonVars]_allVars

\* Clients are interchangeable, and so are panes.
Symmetries == Permutations(ClientId) \cup Permutations(Pane)
=============================================================================
