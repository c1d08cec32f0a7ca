------------------------ MODULE MCCoordinatedDocument ------------------------
(* Three scenarios of CoordinatedDocument for TLC.  A behaviour is in one of *)
(* them, with bounds of its own below the constants.                         *)
EXTENDS CoordinatedDocument

VARIABLE scenario

(* Two authors in one context: compaction, crashes, ambiguous errors.        *)
Replays == epoch'[Controller] = 1

(* A writer and a reader through several contexts.                           *)
Contexts == (\A i \in DOMAIN signed' : signed'[i].writers = {Controller}) /\ faults' = 0

(* A group transition with competing role records, and a writer beside the   *)
(* controller that may lose its role.                                        *)
Roles ==
    /\ epoch'[Controller] <= 2 /\ faults' <= 1
    /\ \A m \in Member :
          mem'[m].op.stage = "prepared" => mem'[m].op.frame.author # Controller

MCInit ==
    /\ Init
    /\ scenario \in {"replays", "contexts", "roles"}
    /\ scenario \in {"replays", "roles"} => signed[1].writers = Member
    /\ scenario = "contexts" => signed[1].writers = {Controller}

MCNext ==
    /\ Next
    /\ scenario = "replays" => Replays
    /\ scenario = "contexts" => Contexts
    /\ scenario = "roles" => Roles
    /\ UNCHANGED scenario

MCSpec == MCInit /\ [][MCNext]_<<vars, scenario>>
==============================================================================
