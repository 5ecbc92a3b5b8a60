------------------------- MODULE MCCollectionTasks -------------------------
(* Small instances of CollectionTasks for TLC. *)
EXTENDS CollectionTasks

CONSTANTS t1, t2, s1

\* Two deliveries of the same logical job.
MCScopeOf == [t \in Tasks |-> s1]

\* Both over all retailers.
MCPlanOf == [t \in Tasks |-> Retailers]
=============================================================================
