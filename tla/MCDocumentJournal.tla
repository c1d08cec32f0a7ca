-------------------------- MODULE MCDocumentJournal --------------------------
(* Two scenarios of DocumentJournal for TLC, told apart by whether storage   *)
(* may fall back.  Each has bounds of its own below the constants.           *)
EXTENDS DocumentJournal, TLC

Owners == Permutations(Owner)

(* One process at a time fills the journal with entries of all sizes and     *)
(* frames to the limits of rows, bytes and outbox; storage keeps what it     *)
(* acknowledged.                                                             *)
FillsUp == fresh' <= 3 /\ faults' <= 1 /\ Cardinality({o \in Owner : pc'[o] # "off"}) <= 1

(* Two processes, two faults and a store that falls back to earlier images:  *)
(* a delta with a frame, then a checkpoint without one.                      *)
FallsBack ==
    /\ fresh' <= 2
    /\ \A o \in Owner : LET e == prep'[o] IN
          e # NoEntry => /\ e.size = 1
                         /\ (HasFrame(e) <=> ~e.ckpt) /\ (e.ckpt <=> e.rev = 2)

InScenario == IF backups = {} THEN FillsUp ELSE FallsBack
==============================================================================
