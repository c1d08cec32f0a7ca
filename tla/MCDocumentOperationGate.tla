----------------------- MODULE MCDocumentOperationGate -----------------------
(* The gate with small sets of operations and coordinators for TLC.  A        *)
(* behaviour is one of two scenarios: operations of any coordinators compete  *)
(* for bytes while no context changes, or operations of one coordinator, all  *)
(* of the same size, meet changes of context and of authorization.            *)
EXTENDS DocumentOperationGate

CONSTANTS Small,    \* the input length of the second scenario
          Meeting   \* and its coordinator

VARIABLE scenario

MCInit ==
    /\ Init
    /\ scenario \in {"compete", "change"}
    /\ scenario = "change" => \A o \in Op : op[o].gate = Meeting

Compete == UNCHANGED <<group, roles>>

Change ==
    /\ \A g \in Gate \ {Meeting} : UNCHANGED <<group[g], roles[g], queue[g]>>
    /\ \A o \in Op : /\ op'[o].size \in {0, Small}
                     /\ op'[o].at = "preparing" => op'[o].nested = 0

MCNext ==
    /\ Next
    /\ scenario = "compete" => Compete
    /\ scenario = "change" => Change
    /\ UNCHANGED scenario

MCSpec == MCInit /\ [][MCNext]_<<vars, scenario>> /\ TimerFairness
=============================================================================
