---------------------------- MODULE GroupLineage ----------------------------
(***************************************************************************)
(* What the security coordinator promises about a group, without stores,   *)
(* providers or faults: one line of control records that only grows at its *)
(* end, may be stopped for good, and of which only members are reported to *)
(* a caller as committed.                                                  *)
(***************************************************************************)
EXTENDS Naturals, Sequences

CONSTANT Record     \* control records, each the chain of operations it ends

VARIABLES
    line,       \* the last record of the group's line, << >> before it exists
    status,     \* "active", "forked" or "removed"
    told        \* records some caller was told are committed

vars == <<line, status, told>>

Init == line = << >> /\ status = "active" /\ told = {}

Stopped == {"forked", "removed"}

\* The group comes to exist by creation or by joining, possibly stopped at once.
Found ==
    /\ line = << >> /\ status = "active"
    /\ line' \in Record /\ status' \in {"active", "forked"}
    /\ UNCHANGED told

Extend ==
    /\ line # << >> /\ status = "active"
    /\ line' \in Record
    /\ Len(line') = Len(line) + 1 /\ SubSeq(line', 1, Len(line)) = line
    /\ UNCHANGED status

Stop == status = "active" /\ status' \in Stopped /\ UNCHANGED <<line, told>>

\* A caller learns of the record the line ends in as it is accepted.
Tell ==
    /\ told' = told \cup {line'}
    /\ UNCHANGED status
    /\ Extend \/ (line = << >> /\ line' \in Record /\ status = "active")

Next == Found \/ (Extend /\ UNCHANGED told) \/ Stop \/ Tell

Spec == Init /\ [][Next]_vars
=============================================================================
