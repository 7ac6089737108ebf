------------------------------- MODULE Leases -------------------------------
(***************************************************************************)
(* What the broker promises about one keyboard per pane, with none of the  *)
(* machinery: who watches a pane and who, at most one of them, holds its   *)
(* control lease.  Broker.tla implements this specification.               *)
(*                                                                         *)
(* A keyboard leaves a client that is still watching in two ways only: a   *)
(* watcher takes it explicitly, or the far side refuses input altogether.  *)
(* When its holder goes away it becomes free; it is never handed on.       *)
(***************************************************************************)
CONSTANTS ClientId, Pane, None

VARIABLES watching,  \* watching[p]: the clients subscribed to pane p
          holder     \* holder[p]: the client whose keys reach p, or None

leaseVars == <<watching, holder>>

LeaseInit == /\ watching = [p \in Pane |-> {}]
             /\ holder = [p \in Pane |-> None]

\* A client starts (or restarts) watching and may be given a free keyboard.
Watch(c, p) ==
    /\ watching' = [watching EXCEPT ![p] = @ \cup {c}]
    /\ \/ UNCHANGED holder
       \/ holder[p] = None /\ holder' = [holder EXCEPT ![p] = c]

\* A watcher takes the keyboard on purpose, free or from its holder.
Seize(c, p) == /\ c \in watching[p]
               /\ holder' = [holder EXCEPT ![p] = c]
               /\ UNCHANGED watching

\* A client stops watching the panes P; what it held becomes free.
Leave(c, P) ==
    /\ watching' = [p \in Pane |-> IF p \in P THEN watching[p] \ {c}
                                              ELSE watching[p]]
    /\ holder' = [p \in Pane |-> IF p \in P /\ holder[p] = c
                                 THEN None ELSE holder[p]]

\* The far side refuses input: nobody holds the keyboard.
Revoke(p) == /\ holder' = [holder EXCEPT ![p] = None]
             /\ UNCHANGED watching

\* The panes P ended: nobody watches them and nobody holds them.
Retire(P) ==
    /\ watching' = [p \in Pane |-> IF p \in P THEN {} ELSE watching[p]]
    /\ holder' = [p \in Pane |-> IF p \in P THEN None ELSE holder[p]]

LeaseNext ==
    \/ \E c \in ClientId, p \in Pane : Watch(c, p) \/ Seize(c, p)
    \/ \E c \in ClientId, P \in SUBSET Pane : Leave(c, P)
    \/ \E p \in Pane : Revoke(p)
    \/ \E P \in SUBSET Pane : Retire(P)

LeaseSpec == LeaseInit /\ [][LeaseNext]_leaseVars
=============================================================================
