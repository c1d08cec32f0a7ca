--------------------------- MODULE MCGroupSecurity ---------------------------
(* Three scenarios of GroupSecurity for TLC: members join by key packages,   *)
(* the store may be set back to an older image, or two commits follow each   *)
(* other and wait in the outbox together.  In the last two the member may be *)
(* removed.                                                                  *)
EXTENDS GroupSecurity

CONSTANT Second     \* the second commit, which only the scenario "commits" has

VARIABLE scenario

MCInit == Init /\ scenario \in {"joins", "falls back", "commits"}

MCNext ==
    /\ Next
    /\ scenario # "falls back" => UNCHANGED <<backup, backups>>
    /\ scenario # "joins" => \A o \in Owner : co'[o].op # "package"
    /\ \A o \in Owner : \A n \in DOMAIN co'[o].rec :
          /\ co'[o].rec[n] = Second => scenario = "commits" /\ n = 2
          /\ co'[o].rec[n] \in Removal => scenario # "joins"
    /\ UNCHANGED scenario

MCSpec == MCInit /\ [][MCNext]_<<vars, scenario>> /\ Fairness
==============================================================================
