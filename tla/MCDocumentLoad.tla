-------------------------- MODULE MCDocumentLoad --------------------------
\* An honest peer and one authority behind two peers, for TLC.
EXTENDS DocumentLoad

CONSTANTS p1, p3, p4, A, C

MCAuthOf == (p1 :> A) @@ (p3 :> C) @@ (p4 :> C)
MCOrders == {<<p3, p1, p4>>, <<p1, p1>>}
===========================================================================
