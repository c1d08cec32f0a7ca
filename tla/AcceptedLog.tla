--------------------------- MODULE AcceptedLog ---------------------------
(***************************************************************************)
(* What the document journal promises, without stores, anchors or faults:  *)
(* one append-only log of accepted items; an owner that is open sees a     *)
(* prefix of it; an item is acknowledged to the owner whose view it        *)
(* extends; only accepted items are published.                             *)
(***************************************************************************)
EXTENDS Naturals, Sequences

CONSTANTS Owner, Item

VARIABLES
    accepted,   \* the accepted items, oldest first
    open,       \* open[o]: the owner may be used
    view,       \* view[o]: the items an open owner has been given
    acked,      \* items whose commit was reported to the caller
    published   \* items handed to the network

vars == <<accepted, open, view, acked, published>>

Prefix(k) == {accepted[i] : i \in 1..k}

Init ==
    /\ accepted = << >> /\ acked = {} /\ published = {}
    /\ open = [o \in Owner |-> FALSE]
    /\ view = [o \in Owner |-> {}]

Accept(n) ==
    /\ n \notin Prefix(Len(accepted))
    /\ accepted' = Append(accepted, n)
    /\ UNCHANGED <<open, view, acked, published>>

Open(o) ==
    /\ ~open[o]
    /\ open' = [open EXCEPT ![o] = TRUE]
    /\ \E k \in 0..Len(accepted) : view' = [view EXCEPT ![o] = Prefix(k)]
    /\ UNCHANGED <<accepted, acked, published>>

\* The owner's own commit: the item after its view, and nothing in between.
Acknowledge(o) ==
    /\ open[o]
    /\ \E k \in 1..Len(accepted) :
          /\ view[o] = Prefix(k - 1)
          /\ view' = [view EXCEPT ![o] = Prefix(k)]
          /\ acked' = acked \cup {accepted[k]}
    /\ UNCHANGED <<accepted, open, published>>

Close(o) ==
    /\ open' = [open EXCEPT ![o] = FALSE]
    /\ view' = [view EXCEPT ![o] = {}]
    /\ UNCHANGED <<accepted, acked, published>>

Publish(n) ==
    /\ n \in Prefix(Len(accepted))
    /\ published' = published \cup {n}
    /\ UNCHANGED <<accepted, open, view, acked>>

Next ==
    \/ \E n \in Item : Accept(n) \/ Publish(n)
    \/ \E o \in Owner : Open(o) \/ Acknowledge(o) \/ Close(o)

Spec == Init /\ [][Next]_vars
==========================================================================
