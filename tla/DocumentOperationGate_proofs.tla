--------------------- MODULE DocumentOperationGate_proofs ---------------------
(***************************************************************************)
(* Proofs about the document operation gate, for any number of operations  *)
(* and coordinators and any budgets.                                       *)
(***************************************************************************)
EXTENDS DocumentOperationGate, FiniteSetTheorems, TLAPS

(* The shape of the state, as far as the proofs need it. *)
Place == {"new", "capturing", "preparing", "prepared", "committing", "settling",
          "draining", "done"}
Phase == {"preparing", "prepared", "committed", "cancelled"}
Outcome == {"none", "ok", "capacity", "cancelled", "failed", "invalid", "stale",
            "unauthorized"}
Reply == Outcome \cup {"aborted", "timeout"}

OpRecord ==
  [at : Place, gate : Gate, size : Nat, phase : Phase, answer : Reply,
   result : Outcome, ctx : Nat, role : Nat, read : Nat, nested : Nat,
   stuck : BOOLEAN, applied : BOOLEAN]

Shape ==
  /\ op \in [Op -> OpRecord]
  /\ queue \in [Gate -> Op \cup {"free", "transition"}]
  /\ group \in [Gate -> Nat]
  /\ roles \in [Gate -> Nat]
  /\ poisoned \in [Gate -> BOOLEAN]

(* What Answered and Leaves do to an operation. *)
LEMMA AnsweredFields ==
  ASSUME NEW x \in OpRecord, NEW a \in Reply
  PROVE  /\ Answered(x, a) \in OpRecord
         /\ Answered(x, a).at = x.at
         /\ Answered(x, a).gate = x.gate
         /\ Answered(x, a).phase = x.phase
         /\ Answered(x, a).read = x.read
         /\ Answered(x, a).result = x.result
         /\ Answered(x, a).applied = x.applied
         /\ Answered(x, a).answer \in {x.answer, a}
BY DEF Answered, OpRecord

LEMMA LeavesFields ==
  ASSUME NEW x \in OpRecord, NEW r \in Outcome
  PROVE  /\ Leaves(x, r) \in OpRecord
         /\ Leaves(x, r).at = "draining"
         /\ Leaves(x, r).gate = x.gate
         /\ Leaves(x, r).phase = x.phase
         /\ Leaves(x, r).result = r
         /\ Leaves(x, r).applied = x.applied
         /\ Leaves(x, r).answer = x.answer
BY DEF Leaves, OpRecord, Place

LEMMA QuarantinedFields ==
  ASSUME NEW x \in OpRecord
  PROVE  /\ Quarantined(x) \in OpRecord
         /\ Quarantined(x).at = x.at
         /\ Quarantined(x).gate = x.gate
         /\ Quarantined(x).phase = x.phase
         /\ Quarantined(x).read = x.read
         /\ Quarantined(x).result = x.result
         /\ Quarantined(x).applied = x.applied
         /\ Quarantined(x).answer \in {x.answer, "invalid"}
<1> DEFINE y == [x EXCEPT !.stuck = TRUE]
<1>1. /\ y \in OpRecord /\ y.at = x.at /\ y.gate = x.gate /\ y.phase = x.phase
      /\ y.read = x.read /\ y.result = x.result /\ y.applied = x.applied
      /\ y.answer = x.answer
  BY DEF OpRecord
<1>2. Quarantined(x) = Answered(y, "invalid")
  BY DEF Quarantined
<1> HIDE DEF y
<1>3. "invalid" \in Reply
  BY DEF Reply, Outcome
<1> QED BY <1>1, <1>2, <1>3, AnsweredFields

(* PhaseInv for one operation. *)
PhaseOK(x) ==
  /\ x.applied => x.phase = "committed"
  /\ x.phase = "committed" => x.at \in {"settling", "draining", "done"}
  /\ x.answer \in {"aborted", "timeout"} => x.phase = "cancelled"
  /\ x.result \notin {"aborted", "timeout"}

(* A step that replaces the state of o by y keeps shape and phases if y    *)
(* has them.                                                               *)
LEMMA Update ==
  ASSUME op \in [Op -> OpRecord], PhaseInv,
         NEW o \in Op, NEW y \in OpRecord, PhaseOK(y),
         op' = [op EXCEPT ![o] = y]
  PROVE  /\ op' \in [Op -> OpRecord]
         /\ PhaseInv'
         /\ op'[o] = y
         /\ \A p \in Op : p # o => op'[p] = op[p]
<1>1. /\ op' \in [Op -> OpRecord]
      /\ op'[o] = y
      /\ \A p \in Op : p # o => op'[p] = op[p]
  OBVIOUS
<1>2. ASSUME NEW p \in Op PROVE PhaseOK(op'[p])
  BY <1>1 DEF PhaseInv, PhaseOK
<1> QED BY <1>1, <1>2 DEF PhaseInv, PhaseOK

(* One operation at a time moves; its record keeps its gate. *)
Moves(o, y) ==
  /\ y \in OpRecord
  /\ PhaseOK(y)
  /\ y.gate = op[o].gate
  /\ op' = [op EXCEPT ![o] = y]

(* The move applies nothing, and neither enters the commit turn nor alters *)
(* what was read there.                                                    *)
Quiet(o, y) ==
  /\ y.applied = op[o].applied
  /\ y.at # "committing" \/ (y.at = op[o].at /\ y.read = op[o].read)

LEMMA RunMoves ==
  ASSUME Shape, PhaseInv, NEW o \in Op, NEW bytes \in Size, Run(o, bytes)
  PROVE  \E y : Moves(o, y) /\ Quiet(o, y)
<1> USE ConstantsAssumption
<1>1. op[o] \in OpRecord /\ PhaseOK(op[o]) /\ op[o].at = "new"
  BY DEF Shape, PhaseInv, PhaseOK, Run
<1>2. CASE op' = [op EXCEPT ![o].at = "capturing", ![o].size = bytes,
                            ![o].ctx = group[op[o].gate]]
  <2> DEFINE y == [op[o] EXCEPT !.at = "capturing", !.size = bytes,
                                !.ctx = group[op[o].gate]]
  <2>1. y \in OpRecord /\ PhaseOK(y) /\ y.gate = op[o].gate /\ y.applied = op[o].applied
        /\ y.at # "committing"
    BY <1>1 DEF Shape, OpRecord, PhaseOK, Place
  <2>2. op' = [op EXCEPT ![o] = y]
    BY <1>2 DEF Shape
  <2> QED BY <2>1, <2>2 DEF Moves, Quiet
<1>3. CASE op' = [op EXCEPT ![o].at = "done", ![o].answer = "capacity"]
  <2> DEFINE y == [op[o] EXCEPT !.at = "done", !.answer = "capacity"]
  <2>1. y \in OpRecord /\ PhaseOK(y) /\ y.gate = op[o].gate /\ y.applied = op[o].applied
        /\ y.at # "committing"
    BY <1>1 DEF Shape, OpRecord, PhaseOK, Place, Reply, Outcome
  <2>2. op' = [op EXCEPT ![o] = y]
    BY <1>3 DEF Shape
  <2> QED BY <2>1, <2>2 DEF Moves, Quiet
<1> QED BY <1>2, <1>3 DEF Run

LEMMA CaptureMoves ==
  ASSUME Shape, PhaseInv, NEW o \in Op, Capture(o)
  PROVE  \E y : Moves(o, y) /\ Quiet(o, y)
<1>1. op[o] \in OpRecord /\ PhaseOK(op[o]) /\ op[o].at = "capturing"
  BY DEF Shape, PhaseInv, PhaseOK, Capture
<1>2. ASSUME NEW r \in {"cancelled", "failed", "stale"},
             op' = [op EXCEPT ![o] = Leaves(@, r)]
      PROVE  \E y : Moves(o, y) /\ Quiet(o, y)
  <2> DEFINE y == Leaves(op[o], r)
  <2>1. y \in OpRecord /\ PhaseOK(y) /\ y.gate = op[o].gate /\ y.applied = op[o].applied
        /\ y.at = "draining"
    BY <1>1, LeavesFields DEF PhaseOK, Outcome
  <2>2. op' = [op EXCEPT ![o] = y]
    BY <1>2 DEF Shape
  <2> QED BY <2>1, <2>2 DEF Moves, Quiet
<1>3. ASSUME op' = [op EXCEPT ![o] =
                      [@ EXCEPT !.at = "preparing", !.role = roles[op[o].gate]]]
      PROVE  \E y : Moves(o, y) /\ Quiet(o, y)
  <2> DEFINE y == [op[o] EXCEPT !.at = "preparing", !.role = roles[op[o].gate]]
  <2>1. y \in OpRecord /\ PhaseOK(y) /\ y.gate = op[o].gate /\ y.applied = op[o].applied
        /\ y.at # "committing"
    BY <1>1 DEF Shape, OpRecord, PhaseOK, Place
  <2>2. op' = [op EXCEPT ![o] = y]
    BY <1>3 DEF Shape
  <2> QED BY <2>1, <2>2 DEF Moves, Quiet
<1>4. \/ op' = [op EXCEPT ![o] = Leaves(@, "cancelled")]
      \/ op' = [op EXCEPT ![o] = Leaves(@, "failed")]
      \/ op' = [op EXCEPT ![o] = Leaves(@, "stale")]
      \/ op' = [op EXCEPT ![o] =
                  [@ EXCEPT !.at = "preparing", !.role = roles[op[o].gate]]]
  BY DEF Capture, Shape
<1> QED BY <1>2, <1>3, <1>4

LEMMA WorkMoves ==
  ASSUME Shape, PhaseInv, NEW o \in Op, Observe(o) \/ Settle(o)
  PROVE  \E y : Moves(o, y) /\ Quiet(o, y)
<1>1. op[o] \in OpRecord /\ PhaseOK(op[o])
  BY DEF Shape, PhaseInv, PhaseOK
<1>2. ASSUME NEW n \in Nat, op' = [op EXCEPT ![o].nested = n]
      PROVE  \E y : Moves(o, y) /\ Quiet(o, y)
  <2> DEFINE y == [op[o] EXCEPT !.nested = n]
  <2>1. y \in OpRecord /\ PhaseOK(y) /\ y.gate = op[o].gate /\ y.applied = op[o].applied
        /\ y.at = op[o].at /\ y.read = op[o].read
    BY <1>1 DEF OpRecord, PhaseOK
  <2>2. op' = [op EXCEPT ![o] = y]
    BY <1>2 DEF Shape
  <2> QED BY <2>1, <2>2 DEF Moves, Quiet
<1>3. op[o].nested \in Nat
  BY <1>1 DEF OpRecord
<1>4. CASE Observe(o)
  <2>1. op' = [op EXCEPT ![o].nested = op[o].nested + 1]
    BY <1>4 DEF Observe, Shape
  <2>2. op[o].nested + 1 \in Nat
    BY <1>3
  <2> QED BY <1>2, <2>1, <2>2
<1>5. CASE Settle(o)
  <2>1. op' = [op EXCEPT ![o].nested = op[o].nested - 1] /\ op[o].nested > 0
    BY <1>5 DEF Settle, Shape
  <2>2. op[o].nested - 1 \in Nat
    BY <1>3, <2>1
  <2> QED BY <1>2, <2>1, <2>2
<1> QED BY <1>4, <1>5

LEMMA QuarantineMoves ==
  ASSUME Shape, PhaseInv, NEW o \in Op, Quarantine(o)
  PROVE  \E y : Moves(o, y) /\ Quiet(o, y)
<1> DEFINE x == Quarantined(op[o])
<1>1. op[o] \in OpRecord /\ PhaseOK(op[o]) /\ op[o].at = "preparing"
  BY DEF Shape, PhaseInv, PhaseOK, Quarantine
<1>2. x \in OpRecord /\ PhaseOK(x) /\ x.gate = op[o].gate /\ x.applied = op[o].applied
      /\ x.at = "preparing"
  BY <1>1, QuarantinedFields DEF PhaseOK
<1>3. Leaves(x, "invalid") \in OpRecord /\ PhaseOK(Leaves(x, "invalid"))
      /\ Leaves(x, "invalid").applied = op[o].applied
      /\ Leaves(x, "invalid").gate = op[o].gate
      /\ Leaves(x, "invalid").at = "draining"
  BY <1>2, LeavesFields DEF PhaseOK, Outcome
<1>4. \/ op' = [op EXCEPT ![o] = x]
      \/ op' = [op EXCEPT ![o] = Leaves(x, "invalid")]
  BY DEF Quarantine, Shape
<1> QED BY <1>2, <1>3, <1>4 DEF Moves, Quiet

LEMMA EndPrepareMoves ==
  ASSUME Shape, PhaseInv, NEW o \in Op, EndPrepare(o)
  PROVE  \E y : Moves(o, y) /\ Quiet(o, y)
<1>1. op[o] \in OpRecord /\ PhaseOK(op[o]) /\ op[o].at = "preparing"
  BY DEF Shape, PhaseInv, PhaseOK, EndPrepare
<1>2. ASSUME NEW x \in OpRecord, PhaseOK(x), x.gate = op[o].gate,
             x.applied = op[o].applied,
             x.at = "preparing", NEW r \in Outcome,
             op' = [op EXCEPT ![o] = Leaves(x, r)]
      PROVE  \E y : Moves(o, y) /\ Quiet(o, y)
  <2> DEFINE y == Leaves(x, r)
  <2>1. y \in OpRecord /\ PhaseOK(y) /\ y.gate = op[o].gate /\ y.applied = op[o].applied
        /\ y.at = "draining"
    BY <1>2, LeavesFields DEF PhaseOK, Outcome
  <2> QED BY <1>2, <2>1 DEF Moves, Quiet
<1>3. {"failed", "cancelled", "invalid"} \subseteq Outcome /\ "invalid" \in Reply
  BY DEF Outcome, Reply
<1>4. /\ Answered(op[o], "invalid") \in OpRecord
      /\ PhaseOK(Answered(op[o], "invalid"))
      /\ Answered(op[o], "invalid").gate = op[o].gate
      /\ Answered(op[o], "invalid").applied = op[o].applied
      /\ Answered(op[o], "invalid").at = "preparing"
  BY <1>1, <1>3, AnsweredFields DEF PhaseOK
<1>5. ASSUME ~Cancelled(o),
             op' = [op EXCEPT ![o].at = "prepared", ![o].phase = "prepared"]
      PROVE  \E y : Moves(o, y) /\ Quiet(o, y)
  <2> DEFINE y == [op[o] EXCEPT !.at = "prepared", !.phase = "prepared"]
  <2>1. y \in OpRecord /\ PhaseOK(y) /\ y.gate = op[o].gate /\ y.applied = op[o].applied
        /\ y.at # "committing"
    BY <1>1, <1>5 DEF Cancelled, OpRecord, PhaseOK, Place, Phase
  <2>2. op' = [op EXCEPT ![o] = y]
    BY <1>5 DEF Shape
  <2> QED BY <2>1, <2>2 DEF Moves, Quiet
<1>6. \/ \E r \in {"failed", "cancelled", "invalid"} :
            op' = [op EXCEPT ![o] = Leaves(op[o], r)]
      \/ op' = [op EXCEPT ![o] = Leaves(Answered(op[o], "invalid"), "invalid")]
      \/ /\ ~Cancelled(o)
         /\ op' = [op EXCEPT ![o].at = "prepared", ![o].phase = "prepared"]
  BY DEF EndPrepare, Shape
<1> QED BY <1>1, <1>2, <1>3, <1>4, <1>5, <1>6

LEMMA CancelMoves ==
  ASSUME Shape, PhaseInv, NEW o \in Op, NEW code \in {"aborted", "timeout"},
         Cancel(o, code)
  PROVE  \E y : Moves(o, y) /\ Quiet(o, y)
<1> DEFINE x == [op[o] EXCEPT !.phase = "cancelled"]
           y == Answered(x, code)
<1>1. op[o] \in OpRecord /\ PhaseOK(op[o]) /\ op[o].phase # "committed"
  BY DEF Shape, PhaseInv, PhaseOK, Cancel
<1>2. /\ x \in OpRecord /\ PhaseOK(x) /\ x.gate = op[o].gate /\ x.applied = op[o].applied
      /\ x.phase = "cancelled" /\ x.at = op[o].at /\ x.read = op[o].read
  BY <1>1 DEF OpRecord, PhaseOK, Phase
<1>3. code \in Reply
  BY DEF Reply
<1>4. op' = [op EXCEPT ![o] = y]
  BY DEF Cancel, Shape
<1> HIDE DEF x
<1>5. /\ y \in OpRecord /\ PhaseOK(y) /\ y.gate = op[o].gate /\ y.applied = op[o].applied
      /\ y.at = op[o].at /\ y.read = op[o].read
  BY <1>2, <1>3, AnsweredFields DEF PhaseOK
<1> QED BY <1>4, <1>5 DEF Moves, Quiet

LEMMA StopTimerMoves ==
  ASSUME Shape, PhaseInv, NEW o \in Op, StopTimer(o)
  PROVE  \E y : Moves(o, y) /\ Quiet(o, y)
<1> DEFINE y == [op[o] EXCEPT !.at = "draining"]
<1>1. op[o] \in OpRecord /\ PhaseOK(op[o])
  BY DEF Shape, PhaseInv, PhaseOK
<1>2. y \in OpRecord /\ PhaseOK(y) /\ y.gate = op[o].gate /\ y.applied = op[o].applied
        /\ y.at # "committing"
  BY <1>1 DEF OpRecord, PhaseOK, Place
<1>3. op' = [op EXCEPT ![o] = y]
  BY DEF StopTimer, Shape
<1> QED BY <1>2, <1>3 DEF Moves, Quiet

LEMMA ReleaseMoves ==
  ASSUME Shape, PhaseInv, NEW o \in Op, Release(o)
  PROVE  \E y : Moves(o, y) /\ Quiet(o, y)
<1> DEFINE x == [op[o] EXCEPT !.at = "done"]
           y == Answered(x, op[o].result)
<1>1. op[o] \in OpRecord /\ PhaseOK(op[o])
  BY DEF Shape, PhaseInv, PhaseOK
<1>2. /\ x \in OpRecord /\ PhaseOK(x) /\ x.gate = op[o].gate /\ x.applied = op[o].applied
      /\ x.at = "done"
      /\ op[o].result \in Reply /\ op[o].result \notin {"aborted", "timeout"}
  BY <1>1 DEF OpRecord, PhaseOK, Place, Reply
<1>3. op' = [op EXCEPT ![o] = y]
  BY DEF Release, Shape
<1> HIDE DEF x
<1>4. y \in OpRecord /\ PhaseOK(y) /\ y.gate = op[o].gate /\ y.applied = op[o].applied
        /\ y.at = "done"
  BY <1>2, AnsweredFields DEF PhaseOK
<1> QED BY <1>3, <1>4 DEF Moves, Quiet

(* The inductive invariant. *)
Inv == Shape /\ PhaseInv /\ TurnInv

(* A quiet move that leaves queue and contexts alone keeps the invariant. *)
LEMMA QuietKept ==
  ASSUME Inv, NEW o \in Op, NEW y, Moves(o, y), Quiet(o, y),
         UNCHANGED <<queue, group>>,
         roles' \in [Gate -> Nat], poisoned' \in [Gate -> BOOLEAN]
  PROVE  Inv'
<1>1. /\ op' \in [Op -> OpRecord]
      /\ PhaseInv'
      /\ op'[o] = y
      /\ \A p \in Op : p # o => op'[p] = op[p]
  BY Update DEF Moves, Inv, Shape
<1>2. Shape'
  BY <1>1 DEF Inv, Shape
<1>3. TurnInv'
  BY <1>1 DEF Inv, TurnInv, Moves, Quiet
<1> QED BY <1>1, <1>2, <1>3 DEF Inv

(* BeginCommit either leaves, or starts the commit turn with the context   *)
(* it has just read.                                                       *)
LEMMA BeginCommitKept ==
  ASSUME Inv, NEW o \in Op, BeginCommit(o)
  PROVE  Inv' /\ op'[o].applied = op[o].applied
              /\ \A p \in Op : p # o => op'[p] = op[p]
<1> DEFINE g == op[o].gate
<1>1. op[o] \in OpRecord /\ PhaseOK(op[o]) /\ op[o].at = "prepared" /\ g \in Gate
  BY DEF Inv, Shape, PhaseInv, PhaseOK, BeginCommit, OpRecord
<1>2. ASSUME NEW r \in {"cancelled", "failed"},
             op' = [op EXCEPT ![o] = Leaves(op[o], r)], UNCHANGED queue
      PROVE  Inv' /\ op'[o].applied = op[o].applied
                  /\ \A p \in Op : p # o => op'[p] = op[p]
  <2> DEFINE y == Leaves(op[o], r)
  <2>1. /\ y \in OpRecord /\ PhaseOK(y) /\ y.gate = g
        /\ y.applied = op[o].applied /\ y.at = "draining"
    BY <1>1, LeavesFields DEF PhaseOK, Outcome
  <2>2. UNCHANGED <<group, roles, poisoned>>
    BY DEF BeginCommit
  <2>3. Moves(o, y) /\ Quiet(o, y)
    BY <1>2, <2>1 DEF Moves, Quiet
  <2>4. Inv'
    BY <1>2, <2>2, <2>3, QuietKept DEF Inv, Shape
  <2> QED BY <1>2, <2>1, <2>4 DEF Inv, Shape
<1>3. ASSUME op' = [op EXCEPT ![o].at = "committing", ![o].read = group[g]],
             Turn(g), Enter(g, o)
      PROVE  Inv' /\ op'[o].applied = op[o].applied
                  /\ \A p \in Op : p # o => op'[p] = op[p]
  <2> DEFINE y == [op[o] EXCEPT !.at = "committing", !.read = group[g]]
  <2>1. /\ y \in OpRecord /\ PhaseOK(y) /\ y.gate = g /\ y.read = group[g]
        /\ y.applied = op[o].applied
    BY <1>1 DEF Inv, Shape, OpRecord, PhaseOK, Place
  <2>2. op' = [op EXCEPT ![o] = y]
    BY <1>3 DEF Inv, Shape
  <2> HIDE DEF y
  <2>3. /\ op' \in [Op -> OpRecord]
        /\ PhaseInv'
        /\ op'[o] = y
        /\ \A p \in Op : p # o => op'[p] = op[p]
    BY <2>1, <2>2, Update DEF Inv, Shape
  <2>4. /\ queue \in [Gate -> Op \cup {"free", "transition"}]
        /\ queue[g] = "free"
        /\ queue' = [queue EXCEPT ![g] = o]
        /\ UNCHANGED <<group, roles, poisoned>>
    BY <1>3 DEF Inv, Shape, Turn, Enter, BeginCommit
  <2>5. queue' \in [Gate -> Op \cup {"free", "transition"}]
    BY <2>4
  <2>6. Shape'
    BY <2>3, <2>4, <2>5 DEF Inv, Shape
  <2>7. ASSUME NEW p \in Op, op'[p].at = "committing"
        PROVE  queue'[op'[p].gate] = p /\ op'[p].read = group'[op'[p].gate]
    <3>1. CASE p = o
      BY <1>1, <2>1, <2>3, <2>4, <3>1
    <3>2. CASE p # o
      <4>1. op'[p] = op[p] /\ op[p].at = "committing" /\ op[p].gate \in Gate
        BY <2>3, <2>7, <3>2 DEF Inv, Shape, OpRecord
      <4>2. queue[op[p].gate] = p /\ op[p].read = group[op[p].gate]
        BY <4>1 DEF Inv, TurnInv
      <4>3. op[p].gate # g
        BY <2>4, <4>2, ConstantsAssumption
      <4> QED BY <2>4, <4>1, <4>2, <4>3
    <3> QED BY <3>1, <3>2
  <2>8. TurnInv'
    BY <2>7 DEF TurnInv
  <2> QED BY <2>1, <2>3, <2>6, <2>8 DEF Inv
<1>4. \/ /\ \E r \in {"cancelled", "failed"} :
               op' = [op EXCEPT ![o] = Leaves(op[o], r)]
         /\ UNCHANGED queue
      \/ /\ op' = [op EXCEPT ![o].at = "committing", ![o].read = group[g]]
         /\ Turn(g) /\ Enter(g, o)
  BY DEF BeginCommit, Inv, Shape
<1> QED BY <1>2, <1>3, <1>4

(* The end of a commit turn: the operation settles and the queue is free.  *)
(* It has been applied only if it was prepared, in the context read in     *)
(* this turn and with the roles as they are.                               *)
Ends(o, y) ==
  /\ y \in OpRecord
  /\ PhaseOK(y)
  /\ y.at = "settling"
  /\ op' = [op EXCEPT ![o] = y]
  /\ y.applied /\ ~op[o].applied =>
       op[o].read = op[o].ctx /\ op[o].role = roles[op[o].gate]

(* The records the commit turn may end with. *)
LEMMA SettlesFields ==
  ASSUME NEW x \in OpRecord, PhaseOK(x), x.phase # "committed", NEW r \in Outcome
  PROVE  /\ Settles(x, r) \in OpRecord
         /\ PhaseOK(Settles(x, r))
         /\ Settles(x, r).at = "settling"
         /\ ~Settles(x, r).applied
BY DEF Settles, OpRecord, PhaseOK, Place, Outcome

LEMMA AppliedFields ==
  ASSUME NEW x \in OpRecord, PhaseOK(x), x.phase = "prepared", NEW r \in Outcome
  PROVE  /\ Applied(x, r) \in OpRecord
         /\ PhaseOK(Applied(x, r))
         /\ Applied(x, r).at = "settling"
BY DEF Applied, Settles, OpRecord, PhaseOK, Place, Phase, Outcome

LEMMA RetainedFields ==
  ASSUME NEW x \in OpRecord, PhaseOK(x)
  PROVE  /\ Retained(x) \in OpRecord
         /\ PhaseOK(Retained(x))
         /\ Retained(x).at = x.at
         /\ Retained(x).applied = x.applied
<1> DEFINE z == [x EXCEPT !.nested = x.nested + 1]
<1>1. x.nested + 1 \in Nat
  BY DEF OpRecord
<1>2. z \in OpRecord /\ PhaseOK(z) /\ z.at = x.at /\ z.applied = x.applied
  BY <1>1 DEF OpRecord, PhaseOK
<1>3. "invalid" \in Reply
  BY DEF Reply, Outcome
<1>4. Retained(x) = Answered(z, "invalid")
  BY DEF Retained
<1> HIDE DEF z
<1> QED BY <1>2, <1>3, <1>4, AnsweredFields DEF PhaseOK

LEMMA FinishEnds ==
  ASSUME Shape, PhaseInv, NEW o \in Op, Finish(o)
  PROVE  \E y : Ends(o, y)
<1> DEFINE x == op[o]
           Becomes(y) == op' = [op EXCEPT ![o] = y]
           InContext == MayFinish(o) /\ x.read = x.ctx /\ x.role = roles[x.gate]
<1>1. x \in OpRecord /\ PhaseOK(x) /\ x.at = "committing"
  BY DEF Shape, PhaseInv, PhaseOK, Finish
<1>2. x.phase # "committed" /\ ~x.applied
  BY <1>1 DEF PhaseOK
<1>3. \/ \E r \in {"cancelled", "stale", "unauthorized", "invalid"} :
          Becomes(Settles(x, r))
      \/ Becomes(Retained(Settles(x, "invalid")))
      \/ InContext /\ \E r \in {"ok", "failed", "invalid"} : Becomes(Applied(x, r))
      \/ InContext /\ Becomes(Retained(Applied(x, "invalid")))
  BY DEF Finish
<1>4. {"cancelled", "stale", "unauthorized", "invalid", "ok", "failed"} \subseteq Outcome
  BY DEF Outcome
<1>5. CASE \E r \in {"cancelled", "stale", "unauthorized", "invalid"} :
          Becomes(Settles(x, r))
  <2>1. PICK r \in {"cancelled", "stale", "unauthorized", "invalid"} :
          Becomes(Settles(x, r))
    BY <1>5
  <2> QED BY <1>1, <1>2, <1>4, <2>1, SettlesFields DEF Ends
<1>6. CASE Becomes(Retained(Settles(x, "invalid")))
  <2>1. /\ Settles(x, "invalid") \in OpRecord
        /\ PhaseOK(Settles(x, "invalid"))
        /\ Settles(x, "invalid").at = "settling"
        /\ ~Settles(x, "invalid").applied
    BY <1>1, <1>2, <1>4, SettlesFields
  <2>2. /\ Retained(Settles(x, "invalid")) \in OpRecord
        /\ PhaseOK(Retained(Settles(x, "invalid")))
        /\ Retained(Settles(x, "invalid")).at = "settling"
        /\ Retained(Settles(x, "invalid")).applied = Settles(x, "invalid").applied
    BY <2>1, RetainedFields
  <2>3. ~Retained(Settles(x, "invalid")).applied
    BY <2>1, <2>2
  <2> QED BY <1>6, <2>2, <2>3 DEF Ends
<1>7. CASE InContext /\ \E r \in {"ok", "failed", "invalid"} : Becomes(Applied(x, r))
  <2>1. PICK r \in {"ok", "failed", "invalid"} : Becomes(Applied(x, r))
    BY <1>7
  <2> QED BY <1>1, <1>4, <1>7, <2>1, AppliedFields DEF Ends, MayFinish
<1>8. CASE InContext /\ Becomes(Retained(Applied(x, "invalid")))
  <2>1. /\ Applied(x, "invalid") \in OpRecord
        /\ PhaseOK(Applied(x, "invalid"))
        /\ Applied(x, "invalid").at = "settling"
    BY <1>1, <1>4, <1>8, AppliedFields DEF MayFinish
  <2> QED BY <1>8, <2>1, RetainedFields DEF Ends
<1> QED BY <1>3, <1>5, <1>6, <1>7, <1>8

LEMMA FinishKept ==
  ASSUME Inv, NEW o \in Op, NEW y, Ends(o, y), Finish(o)
  PROVE  /\ Inv'
         /\ op'[o] = y
         /\ \A p \in Op : p # o => op'[p] = op[p]
         /\ op[o].read = group[op[o].gate]
<1> DEFINE g == op[o].gate
<1>1. /\ op' \in [Op -> OpRecord]
      /\ PhaseInv'
      /\ op'[o] = y
      /\ \A p \in Op : p # o => op'[p] = op[p]
  BY Update DEF Ends, Inv, Shape
<1>2. g \in Gate /\ queue[g] = o /\ op[o].read = group[g]
  BY DEF Inv, Shape, TurnInv, OpRecord, Finish
<1>3. /\ queue \in [Gate -> Op \cup {"free", "transition"}]
      /\ queue' = [queue EXCEPT ![g] = "free"]
      /\ UNCHANGED <<group, roles>>
  BY DEF Inv, Shape, Finish, Leave
<1>4. poisoned' \in [Gate -> BOOLEAN]
  BY <1>2 DEF Inv, Shape, Finish
<1>5. queue' \in [Gate -> Op \cup {"free", "transition"}]
  BY <1>3
<1>6. Shape'
  BY <1>1, <1>3, <1>4, <1>5 DEF Inv, Shape
<1>7. ASSUME NEW p \in Op, op'[p].at = "committing"
      PROVE  queue'[op'[p].gate] = p /\ op'[p].read = group'[op'[p].gate]
  <2>1. p # o
    BY <1>1, <1>7 DEF Ends
  <2>2. op'[p] = op[p] /\ op[p].at = "committing" /\ op[p].gate \in Gate
    BY <1>1, <1>7, <2>1 DEF Inv, Shape, OpRecord
  <2>3. queue[op[p].gate] = p /\ op[p].read = group[op[p].gate]
    BY <2>2 DEF Inv, TurnInv
  <2>4. op[p].gate # g
    BY <1>2, <2>1, <2>3
  <2> QED BY <1>3, <2>2, <2>3, <2>4
<1>8. TurnInv'
  BY <1>7 DEF TurnInv
<1> QED BY <1>1, <1>2, <1>6, <1>8 DEF Inv

LEMMA InitInv ==
  ASSUME Init
  PROVE  Inv
<1>1. ASSUME NEW o \in Op
      PROVE  op[o] \in OpRecord /\ PhaseOK(op[o]) /\ op[o].at = "new"
  <2>1. PICK g \in Gate : op[o] = NewOp(g)
    BY DEF Init
  <2> QED BY <2>1 DEF NewOp, OpRecord, PhaseOK, Place, Phase, Outcome, Reply
<1>2. op \in [Op -> OpRecord]
  BY <1>1 DEF Init
<1>3. Shape
  BY <1>2 DEF Init, Shape
<1>4. PhaseInv /\ TurnInv
  BY <1>1 DEF PhaseInv, PhaseOK, TurnInv
<1> QED BY <1>3, <1>4 DEF Inv

(* What a step may do: besides keeping the invariant, it applies an        *)
(* operation only in the context and with the roles it was prepared for.   *)
StepOK ==
  /\ Inv'
  /\ \A o \in Op : op'[o].applied /\ ~op[o].applied =>
       /\ group[op[o].gate] = op[o].ctx
       /\ roles[op[o].gate] = op[o].role

LEMMA QuietStep ==
  ASSUME Inv, NEW o \in Op, \E y : Moves(o, y) /\ Quiet(o, y),
         UNCHANGED <<queue, group, roles, poisoned>>
  PROVE  StepOK
<1>1. PICK y : Moves(o, y) /\ Quiet(o, y)
  OBVIOUS
<1>2. Inv'
  BY <1>1, QuietKept DEF Inv, Shape
<1>3. op'[o].applied = op[o].applied /\ \A p \in Op : p # o => op'[p] = op[p]
  BY <1>1 DEF Moves, Quiet, Inv, Shape
<1> QED BY <1>2, <1>3 DEF StepOK

LEMMA FinishStep ==
  ASSUME Inv, NEW o \in Op, Finish(o)
  PROVE  StepOK
<1>1. PICK y : Ends(o, y)
  BY FinishEnds DEF Inv
<1>2. /\ Inv'
      /\ op'[o] = y
      /\ \A p \in Op : p # o => op'[p] = op[p]
      /\ op[o].read = group[op[o].gate]
  BY <1>1, FinishKept
<1> QED BY <1>1, <1>2 DEF StepOK, Ends

(* Steps that change the queue or the context of a coordinator in which no *)
(* commit turn is going on.                                                *)
LEMMA QueueStep ==
  ASSUME Inv, NEW g \in Gate, NEW w \in Op \cup {"free", "transition"},
         queue' = [queue EXCEPT ![g] = w],
         \A o \in Op : op[o].at = "committing" => queue[g] # o,
         group' \in [Gate -> Nat], \A h \in Gate : h # g => group'[h] = group[h],
         UNCHANGED <<op, roles, poisoned>>
  PROVE  StepOK
<1>1. queue' \in [Gate -> Op \cup {"free", "transition"}]
  BY DEF Inv, Shape
<1>2. Shape' /\ PhaseInv'
  BY <1>1 DEF Inv, Shape, PhaseInv
<1>3. ASSUME NEW p \in Op, op[p].at = "committing"
      PROVE  queue'[op[p].gate] = p /\ op[p].read = group'[op[p].gate]
  <2>1. queue[op[p].gate] = p /\ op[p].read = group[op[p].gate] /\ op[p].gate \in Gate
    BY <1>3 DEF Inv, TurnInv, Shape, OpRecord
  <2>2. op[p].gate # g
    BY <1>3, <2>1
  <2> QED BY <2>1, <2>2 DEF Inv, Shape
<1>4. TurnInv'
  BY <1>3 DEF TurnInv
<1> QED BY <1>2, <1>4 DEF Inv, StepOK

LEMMA NextStep ==
  ASSUME Inv, [Next]_vars
  PROVE  StepOK
<1> USE ConstantsAssumption
<1>1. ASSUME NEW o \in Op, NEW bytes \in Size, Run(o, bytes) PROVE StepOK
  BY <1>1, RunMoves, QuietStep DEF Run, Inv
<1>2. ASSUME NEW o \in Op, Capture(o) PROVE StepOK
  BY <1>2, CaptureMoves, QuietStep DEF Capture, Inv
<1>3. ASSUME NEW o \in Op, Observe(o) \/ Settle(o) PROVE StepOK
  BY <1>3, WorkMoves, QuietStep DEF Observe, Settle, Inv
<1>4. ASSUME NEW o \in Op, Quarantine(o) PROVE StepOK
  BY <1>4, QuarantineMoves, QuietStep DEF Quarantine, Inv
<1>5. ASSUME NEW o \in Op, BeginDerive(o) PROVE StepOK
  <2>1. op[o].gate \in Gate
    BY DEF Inv, Shape, OpRecord
  <2>2. \A p \in Op : queue[op[o].gate] # p
    BY <1>5 DEF BeginDerive, Turn
  <2> QED BY <1>5, <2>1, <2>2, QueueStep DEF BeginDerive, Enter, Inv, Shape
<1>6. ASSUME NEW o \in Op, EndDerive(o) PROVE StepOK
  <2>1. op[o].gate \in Gate
    BY DEF Inv, Shape, OpRecord
  <2>2. queue[op[o].gate] = o /\ op[o].at # "committing"
    BY <1>6 DEF EndDerive
  <2> QED BY <1>6, <2>1, <2>2, QueueStep DEF EndDerive, Leave, Inv, Shape
<1>7. ASSUME NEW o \in Op, EndPrepare(o) PROVE StepOK
  BY <1>7, EndPrepareMoves, QuietStep DEF EndPrepare, Inv
<1>8. ASSUME NEW o \in Op, BeginCommit(o) PROVE StepOK
  BY <1>8, BeginCommitKept DEF StepOK
<1>9. ASSUME NEW o \in Op, Finish(o) PROVE StepOK
  BY <1>9, FinishStep
<1>10. ASSUME NEW o \in Op, StopTimer(o) PROVE StepOK
  BY <1>10, StopTimerMoves, QuietStep DEF StopTimer, Inv
<1>11. ASSUME NEW o \in Op, NEW code \in {"aborted", "timeout"}, Cancel(o, code)
       PROVE  StepOK
  BY <1>11, CancelMoves, QuietStep DEF Cancel, Inv
<1>12. ASSUME NEW o \in Op, Release(o) PROVE StepOK
  BY <1>12, ReleaseMoves, QuietStep DEF Release, Inv
<1>13. ASSUME NEW g \in Gate, BeginTransition(g) PROVE StepOK
  <2>1. \A p \in Op : queue[g] # p
    BY <1>13 DEF BeginTransition, Turn
  <2> QED BY <1>13, <2>1, QueueStep DEF BeginTransition, Enter, Inv, Shape
<1>14. ASSUME NEW g \in Gate, EndTransition(g) PROVE StepOK
  <2>1. \A p \in Op : queue[g] # p
    BY <1>14 DEF EndTransition
  <2>2. group' \in [Gate -> Nat] /\ \A h \in Gate : h # g => group'[h] = group[h]
    BY <1>14 DEF EndTransition, Inv, Shape
  <2> QED BY <1>14, <2>1, <2>2, QueueStep DEF EndTransition, Leave
<1>15. ASSUME NEW g \in Gate, ChangeRole(g) PROVE StepOK
  <2>1. roles' \in [Gate -> Nat]
    BY <1>15 DEF ChangeRole, Inv, Shape
  <2>2. UNCHANGED <<op, queue, group, poisoned>>
    BY <1>15 DEF ChangeRole
  <2> QED BY <2>1, <2>2 DEF StepOK, Inv, Shape, PhaseInv, TurnInv
<1>16. CASE UNCHANGED vars
  BY <1>16 DEF StepOK, Inv, Shape, PhaseInv, TurnInv, vars
<1> QED
  BY <1>1, <1>2, <1>3, <1>4, <1>5, <1>6, <1>7, <1>8, <1>9, <1>10, <1>11, <1>12,
     <1>13, <1>14, <1>15, <1>16 DEF Next

(* The phases and the commit turn are kept in every behaviour of run().    *)
THEOREM GateInvariant == Spec => []Inv
<1>1. Init => Inv
  BY InitInv
<1>2. Inv /\ [Next]_vars => Inv'
  BY NextStep DEF StepOK
<1> QED BY <1>1, <1>2, PTL DEF Spec

(* A caller told 'aborted' or 'timeout' by run() can rely on the operation *)
(* never being applied, for any number of operations and coordinators.     *)
THEOREM CancelledSafe == Spec => []CancelledNeverApplied
<1>1. Inv => CancelledNeverApplied
  BY DEF Inv, PhaseInv, CancelledNeverApplied
<1> QED BY <1>1, GateInvariant, PTL

(* finish() calls a finalizer only while context and authorization are the *)
(* ones the operation was prepared for.                                    *)
THEOREM CommitInContext == Spec => AppliedInContext
<1> DEFINE A == \A o \in Op : op'[o].applied /\ ~op[o].applied =>
                  /\ group[op[o].gate] = op[o].ctx
                  /\ roles[op[o].gate] = op[o].role
<1>1. Inv /\ [Next]_vars => [A]_vars
  BY NextStep DEF StepOK
<1>2. Spec => [][A]_vars
  BY <1>1, GateInvariant, PTL DEF Spec
<1> QED BY <1>2 DEF AppliedInContext

-----------------------------------------------------------------------------
(* The accounts.  S is charged to a budget when the budget counts its      *)
(* operations and the bytes of their input, r being the state of the       *)
(* operations.                                                             *)
InputOf(S, r) == UNION {{o} \X (1 .. r[o].size) : o \in S}

ChargedTo(S, r, use) ==
  /\ IsFiniteSet(S) /\ IsFiniteSet(InputOf(S, r))
  /\ use \in Use
  /\ use.count = Cardinality(S)
  /\ use.bytes = Cardinality(InputOf(S, r))

(* An operation with n bytes of input has n elements in Input.             *)
LEMMA OneInput ==
  ASSUME NEW o, NEW n \in Nat
  PROVE  IsFiniteSet({o} \X (1 .. n)) /\ Cardinality({o} \X (1 .. n)) = n
<1> DEFINE f == [i \in 1 .. n |-> <<o, i>>]
<1>1. f \in Bijection(1 .. n, {o} \X (1 .. n))
  <2>1. f \in [1 .. n -> {o} \X (1 .. n)]
    OBVIOUS
  <2>2. \A i, j \in 1 .. n : f[i] = f[j] => i = j
    OBVIOUS
  <2>3. \A p \in {o} \X (1 .. n) : \E i \in 1 .. n : f[i] = p
    OBVIOUS
  <2> HIDE DEF f
  <2> QED BY <2>1, <2>2, <2>3 DEF Bijection, Injection, Surjection, IsInjective
<1>2. IsFiniteSet(1 .. n) /\ Cardinality(1 .. n) = n
  BY FS_Interval
<1> QED BY <1>1, <1>2, FS_Bijection DEF ExistsBijection

LEMMA SameInput ==
  ASSUME NEW S, NEW r, NEW q, \A o \in S : q[o].size = r[o].size
  PROVE  InputOf(S, q) = InputOf(S, r)
BY DEF InputOf

LEMMA InputMonotone ==
  ASSUME NEW T, NEW S \in SUBSET T, NEW r
  PROVE  InputOf(S, r) \subseteq InputOf(T, r)
BY DEF InputOf

(* reserve() for one more operation keeps the budget exact.                *)
LEMMA ChargeAdds ==
  ASSUME NEW S, NEW r, NEW q, NEW use, ChargedTo(S, r, use),
         NEW x, x \notin S, \A o \in S : q[o].size = r[o].size,
         NEW n \in Nat, q[x].size = n
  PROVE  ChargedTo(S \cup {x}, q, Reserved(use, n))
<1> DEFINE I == InputOf(S, r)
           J == {x} \X (1 .. n)
<1>1. InputOf(S \cup {x}, q) = I \cup J
  <2>1. InputOf(S \cup {x}, q) = InputOf(S, q) \cup ({x} \X (1 .. q[x].size))
    BY DEF InputOf
  <2> QED BY <2>1, SameInput
<1>2. I \cap J = {}
  BY DEF InputOf
<1>3. /\ IsFiniteSet(S \cup {x})
      /\ Cardinality(S \cup {x}) = Cardinality(S) + 1
  BY FS_AddElement DEF ChargedTo
<1>4. IsFiniteSet(J) /\ Cardinality(J) = n
  BY OneInput
<1>5. /\ IsFiniteSet(I \cup J)
      /\ Cardinality(I \cup J) = Cardinality(I) + Cardinality(J) - Cardinality(I \cap J)
  BY <1>4, FS_Union DEF ChargedTo
<1>6. Cardinality(I \cap J) = 0
  BY <1>2, FS_EmptySet
<1>7. Cardinality(S) \in Nat /\ Cardinality(I) \in Nat
  BY FS_CardinalityType DEF ChargedTo
<1> HIDE DEF I, J
<1>8. Cardinality(I \cup J) = Cardinality(I) + n
  BY <1>4, <1>5, <1>6, <1>7
<1>9. use.count = Cardinality(S) /\ use.bytes = Cardinality(I) /\ use \in Use
  BY DEF ChargedTo, I
<1>10. /\ Reserved(use, n) \in Use
       /\ Reserved(use, n).count = Cardinality(S) + 1
       /\ Reserved(use, n).bytes = Cardinality(I) + n
  BY <1>7, <1>9 DEF Reserved, Use
<1> QED BY <1>1, <1>3, <1>5, <1>8, <1>10 DEF ChargedTo

(* release() of one of its operations keeps the budget exact; it never     *)
(* makes a budget negative.                                                *)
LEMMA ChargeRemoves ==
  ASSUME NEW S, NEW r, NEW q, NEW use, ChargedTo(S, r, use),
         NEW x \in S, \A o \in S \ {x} : q[o].size = r[o].size,
         NEW n \in Nat, r[x].size = n
  PROVE  ChargedTo(S \ {x}, q, Released(use, n))
<1> DEFINE T == S \ {x}
           I == InputOf(T, q)
           J == {x} \X (1 .. n)
<1>1. InputOf(S, r) = I \cup J
  <2>1. S = T \cup {x}
    OBVIOUS
  <2>2. InputOf(T \cup {x}, r) = InputOf(T, r) \cup ({x} \X (1 .. r[x].size))
    BY DEF InputOf
  <2>3. InputOf(T, q) = InputOf(T, r)
    BY SameInput
  <2> QED BY <2>1, <2>2, <2>3
<1>2. I \cap J = {}
  BY DEF InputOf
<1>3. /\ IsFiniteSet(T)
      /\ Cardinality(T) = Cardinality(S) - 1
  BY FS_RemoveElement DEF ChargedTo
<1>4. IsFiniteSet(J) /\ Cardinality(J) = n
  BY OneInput
<1>5. IsFiniteSet(I)
  BY <1>1, FS_Subset DEF ChargedTo
<1>6. Cardinality(I \cup J) = Cardinality(I) + Cardinality(J) - Cardinality(I \cap J)
  BY <1>4, <1>5, FS_Union
<1>7. Cardinality(I \cap J) = 0
  BY <1>2, FS_EmptySet
<1>8. Cardinality(T) \in Nat /\ Cardinality(I) \in Nat /\ Cardinality(S) \in Nat
  BY <1>3, <1>5, FS_CardinalityType DEF ChargedTo
<1>9. use.count = Cardinality(S) /\ use.bytes = Cardinality(I \cup J) /\ use \in Use
  BY <1>1 DEF ChargedTo
<1> HIDE DEF T, I, J
<1>10. /\ Released(use, n).count = Cardinality(T)
       /\ Released(use, n).bytes = Cardinality(I)
       /\ Released(use, n) \in Use
  BY <1>3, <1>4, <1>6, <1>7, <1>8, <1>9 DEF Released, Use
<1>11. ChargedTo(T, q, Released(use, n))
  BY <1>3, <1>5, <1>10 DEF ChargedTo, I
<1> QED BY <1>11 DEF T

LEMMA ChargeSame ==
  ASSUME NEW S, NEW r, NEW q, NEW use, ChargedTo(S, r, use),
         \A o \in S : q[o].size = r[o].size
  PROVE  ChargedTo(S, q, use)
BY SameInput DEF ChargedTo

Working == {o \in Op : Live(o)}

Within(use, maxCount, maxBytes) == use.count <= maxCount /\ use.bytes <= maxBytes

(* An operation that has not begun or is over holds on to nothing.         *)
IdleInv == \A o \in Op : ~Live(o) =>
             op[o].nested = 0 /\ ~op[o].stuck /\ queue[op[o].gate] # o

CreditInv ==
  /\ used \in [Gate -> Use]
  /\ ChargedTo(Working, op, shared)
  /\ \A g \in Gate : ChargedTo(Charged(g), op, used[g])
  /\ Within(shared, AllOps, AllBytes)
  /\ \A g \in Gate : Within(used[g], MaxOps, MaxBytes)
  /\ IdleInv

(* The operators that change an operation leave its gate and input alone.  *)
LEMMA Untouched ==
  ASSUME NEW x \in OpRecord, NEW a, NEW r
  PROVE  /\ \A y \in {Answered(x, a), Quarantined(x), Retained(x)} :
              y.at = x.at /\ y.gate = x.gate /\ y.size = x.size
         /\ \A y \in {Leaves(x, r), Leaves(Answered(x, a), r), Leaves(Quarantined(x), r)} :
              y.at = "draining" /\ y.gate = x.gate /\ y.size = x.size
         /\ \A y \in {Settles(x, r), Applied(x, r), Retained(Settles(x, r)),
                        Retained(Applied(x, r))} :
              y.at = "settling" /\ y.gate = x.gate /\ y.size = x.size
BY DEF Answered, Quarantined, Retained, Leaves, Settles, Applied, OpRecord

(* A step of an operation in progress that stays in progress.  Only the    *)
(* turn in the queue of a gate may change, to it, to nobody, or to a       *)
(* transition.                                                             *)
Proceeds(o) ==
  /\ Live(o)
  /\ op' \in [Op -> OpRecord]
  /\ op'[o].at \notin {"new", "done"}
  /\ op'[o].gate = op[o].gate /\ op'[o].size = op[o].size
  /\ \A p \in Op : p # o => op'[p] = op[p]
  /\ \A g \in Gate : queue'[g] \in {queue[g], o, "free", "transition"}
  /\ UNCHANGED <<used, shared>>

LEMMA ProceedsKept ==
  ASSUME Inv, CreditInv, NEW o \in Op, Proceeds(o)
  PROVE  CreditInv'
<1> USE ConstantsAssumption
<1>1. \A p \in Op : op'[p].gate = op[p].gate /\ op'[p].size = op[p].size /\ (Live(p)' <=> Live(p))
  BY DEF Proceeds, Live
<1>2. Working' = Working /\ \A g \in Gate : Charged(g)' = Charged(g)
  BY <1>1 DEF Working, Charged
<1>3. ChargedTo(Working, op', shared)
  BY <1>1, ChargeSame DEF CreditInv, Working
<1>4. ASSUME NEW g \in Gate PROVE ChargedTo(Charged(g), op', used[g])
  BY <1>1, ChargeSame DEF CreditInv, Charged
<1>5. ASSUME NEW p \in Op, ~Live(p)'
      PROVE  op'[p].nested = 0 /\ ~op'[p].stuck /\ queue'[op'[p].gate] # p
  <2>1. ~Live(p) /\ p # o
    BY <1>1, <1>5 DEF Proceeds
  <2>2. op'[p] = op[p] /\ op[p].gate \in Gate
    BY <2>1 DEF Proceeds, OpRecord, Inv, Shape
  <2> QED BY <2>1, <2>2 DEF CreditInv, IdleInv, Proceeds
<1>6. IdleInv'
  BY <1>5 DEF IdleInv
<1>7. UNCHANGED <<used, shared>>
  BY DEF Proceeds
<1> QED BY <1>2, <1>3, <1>4, <1>6, <1>7 DEF CreditInv

LEMMA UpdateProceeds ==
  ASSUME Inv, NEW o \in Op, Live(o), NEW y,
         op' = [op EXCEPT ![o] = y], Inv',
         y.at \notin {"new", "done"}, y.gate = op[o].gate, y.size = op[o].size,
         \A g \in Gate : queue'[g] \in {queue[g], o, "free", "transition"},
         UNCHANGED <<used, shared>>
  PROVE  Proceeds(o)
BY DEF Proceeds, Inv, Shape

(* Every action of an operation but admission and release.                 *)
LEMMA OperationProceeds ==
  ASSUME Inv, Inv', NEW o \in Op,
         \/ Capture(o) \/ Observe(o) \/ Quarantine(o) \/ EndPrepare(o)
         \/ StopTimer(o) \/ \E code \in {"aborted", "timeout"} : Cancel(o, code)
  PROVE  Proceeds(o)
<1> DEFINE x == op[o]
           To(y) == /\ op' = [op EXCEPT ![o] = y]
                    /\ y.at \notin {"new", "done"}
                    /\ y.gate = x.gate /\ y.size = x.size
<1>1. x \in OpRecord /\ op \in [Op -> OpRecord]
  BY DEF Inv, Shape
<1>2. CASE Capture(o)
  <2>1. \/ \E r \in {"cancelled", "failed", "stale"} : op' = [op EXCEPT ![o] = Leaves(x, r)]
        \/ op' = [op EXCEPT ![o] = [x EXCEPT !.at = "preparing", !.role = roles[x.gate]]]
    BY <1>1, <1>2 DEF Capture
  <2>2. \E y : To(y)
    <3>1. CASE op' = [op EXCEPT ![o] = [x EXCEPT !.at = "preparing", !.role = roles[x.gate]]]
      <4>1. To([x EXCEPT !.at = "preparing", !.role = roles[x.gate]])
        BY <1>1, <3>1 DEF OpRecord
      <4> QED BY <4>1
    <3>2. ASSUME NEW r, op' = [op EXCEPT ![o] = Leaves(x, r)] PROVE \E y : To(y)
      <4>1. To(Leaves(x, r))
        BY <1>1, <3>2, Untouched
      <4> QED BY <4>1
    <3> QED BY <2>1, <3>1, <3>2
  <2> QED BY <1>2, <2>2, UpdateProceeds DEF Capture, Live
<1>3. CASE Observe(o)
  <2>1. To([x EXCEPT !.nested = x.nested + 1])
    BY <1>1, <1>3 DEF Observe, OpRecord
  <2> QED BY <1>3, <2>1, UpdateProceeds DEF Observe, Live
<1>4. CASE Quarantine(o)
  <2>1. To(Quarantined(x)) \/ To(Leaves(Quarantined(x), "invalid"))
    BY <1>1, <1>4, Untouched DEF Quarantine
  <2> QED BY <1>4, <2>1, UpdateProceeds DEF Quarantine, Live
<1>5. CASE EndPrepare(o)
  <2>1. \/ \E r \in {"failed", "cancelled", "invalid"} : op' = [op EXCEPT ![o] = Leaves(x, r)]
        \/ op' = [op EXCEPT ![o] = Leaves(Answered(x, "invalid"), "invalid")]
        \/ op' = [op EXCEPT ![o] = [x EXCEPT !.at = "prepared", !.phase = "prepared"]]
    BY <1>1, <1>5 DEF EndPrepare
  <2>2. \E y : To(y)
    <3>1. CASE op' = [op EXCEPT ![o] = [x EXCEPT !.at = "prepared", !.phase = "prepared"]]
      <4>1. To([x EXCEPT !.at = "prepared", !.phase = "prepared"])
        BY <1>1, <3>1 DEF OpRecord
      <4> QED BY <4>1
    <3>2. ASSUME NEW r, op' = [op EXCEPT ![o] = Leaves(x, r)] PROVE \E y : To(y)
      <4>1. To(Leaves(x, r))
        BY <1>1, <3>2, Untouched
      <4> QED BY <4>1
    <3>3. CASE op' = [op EXCEPT ![o] = Leaves(Answered(x, "invalid"), "invalid")]
      <4>1. To(Leaves(Answered(x, "invalid"), "invalid"))
        BY <1>1, <3>3, Untouched
      <4> QED BY <4>1
    <3> QED BY <2>1, <3>1, <3>2, <3>3
  <2> QED BY <1>5, <2>2, UpdateProceeds DEF EndPrepare, Live
<1>6. CASE StopTimer(o)
  <2>1. To([x EXCEPT !.at = "draining"])
    BY <1>1, <1>6 DEF StopTimer, OpRecord
  <2> QED BY <1>6, <2>1, UpdateProceeds DEF StopTimer, Live
<1>7. ASSUME NEW code \in {"aborted", "timeout"}, Cancel(o, code) PROVE Proceeds(o)
  <2> DEFINE z == [x EXCEPT !.phase = "cancelled"]
  <2>1. op' = [op EXCEPT ![o] = Answered(z, code)]
    BY <1>1, <1>7 DEF Cancel
  <2>2. z \in OpRecord /\ z.at = x.at /\ z.gate = x.gate /\ z.size = x.size
    BY <1>1 DEF OpRecord, Phase
  <2> HIDE DEF z
  <2>3. LET y == Answered(z, code) IN y.at = z.at /\ y.gate = z.gate /\ y.size = z.size
    BY <2>2, Untouched
  <2>4. x.at \notin {"new", "done"}
    BY <1>7 DEF Cancel
  <2>5. To(Answered(z, code))
    BY <2>1, <2>2, <2>3, <2>4
  <2> QED BY <1>7, <2>5, UpdateProceeds DEF Cancel, Live
<1> QED BY <1>2, <1>3, <1>4, <1>5, <1>6, <1>7

(* Actions that take or give back a turn in the queue. *)
LEMMA TurnProceeds ==
  ASSUME Inv, Inv', NEW o \in Op,
         BeginDerive(o) \/ EndDerive(o) \/ BeginCommit(o) \/ Finish(o)
  PROVE  Proceeds(o)
<1> DEFINE x == op[o]
           To(y) == /\ op' = [op EXCEPT ![o] = y]
                    /\ y.at \notin {"new", "done"}
                    /\ y.gate = x.gate /\ y.size = x.size
           Passes(w) == queue' = [queue EXCEPT ![x.gate] = w]
<1>1. x \in OpRecord /\ op \in [Op -> OpRecord] /\ queue \in [Gate -> Op \cup {"free", "transition"}]
  BY DEF Inv, Shape
<1>2. \A w : Passes(w) /\ w \in {o, "free"} => \A g \in Gate : queue'[g] \in {queue[g], o, "free", "transition"}
  BY <1>1
<1>3. CASE BeginDerive(o)
  <2>1. Passes(o) /\ UNCHANGED <<op, used, shared>> /\ x.at = "preparing"
    BY <1>3 DEF BeginDerive, Enter
  <2> QED BY <1>1, <1>2, <2>1 DEF Proceeds, Live
<1>4. CASE EndDerive(o)
  <2>1. Passes("free") /\ UNCHANGED <<op, used, shared>> /\ x.at \in {"preparing", "draining"}
    BY <1>4 DEF EndDerive, Leave
  <2> QED BY <1>1, <1>2, <2>1 DEF Proceeds, Live
<1>5. CASE BeginCommit(o)
  <2>1. x.at = "prepared" /\ UNCHANGED <<used, shared>>
    BY <1>5 DEF BeginCommit
  <2>2. \/ \E r : op' = [op EXCEPT ![o] = Leaves(x, r)] /\ UNCHANGED queue
        \/ /\ op' = [op EXCEPT ![o] = [x EXCEPT !.at = "committing", !.read = group[x.gate]]]
           /\ Passes(o)
    BY <1>1, <1>5 DEF BeginCommit, Enter
  <2>3. \E y : To(y)
    <3>1. CASE op' = [op EXCEPT ![o] = [x EXCEPT !.at = "committing", !.read = group[x.gate]]]
      <4>1. To([x EXCEPT !.at = "committing", !.read = group[x.gate]])
        BY <1>1, <3>1 DEF OpRecord
      <4> QED BY <4>1
    <3>2. ASSUME NEW r, op' = [op EXCEPT ![o] = Leaves(x, r)] PROVE \E y : To(y)
      <4>1. To(Leaves(x, r))
        BY <1>1, <3>2, Untouched
      <4> QED BY <4>1
    <3> QED BY <2>2, <3>1, <3>2
  <2>4. \A g \in Gate : queue'[g] \in {queue[g], o, "free", "transition"}
    BY <1>2, <2>2
  <2> QED BY <2>1, <2>3, <2>4, UpdateProceeds DEF Live
<1>6. CASE Finish(o)
  <2>1. x.at = "committing" /\ Passes("free") /\ UNCHANGED <<used, shared>>
    BY <1>6 DEF Finish, Leave
  <2>2. \E r : \E y \in {Settles(x, r), Applied(x, r), Retained(Settles(x, r)),
                         Retained(Applied(x, r))} : op' = [op EXCEPT ![o] = y]
    BY <1>6 DEF Finish
  <2>3. \E y : To(y)
    <3>1. PICK r : \E y \in {Settles(x, r), Applied(x, r), Retained(Settles(x, r)),
                            Retained(Applied(x, r))} : op' = [op EXCEPT ![o] = y]
      BY <2>2
    <3>2. PICK y \in {Settles(x, r), Applied(x, r), Retained(Settles(x, r)),
                     Retained(Applied(x, r))} : op' = [op EXCEPT ![o] = y]
      BY <3>1
    <3>3. y.at = "settling" /\ y.gate = x.gate /\ y.size = x.size
      BY <1>1, Untouched
    <3> QED BY <3>2, <3>3
  <2>4. \A g \in Gate : queue'[g] \in {queue[g], o, "free", "transition"}
    BY <1>2, <2>1
  <2> QED BY <2>1, <2>3, <2>4, UpdateProceeds DEF Live
<1> QED BY <1>3, <1>4, <1>5, <1>6

(* Settle needs the idle part of the invariant: only an operation in       *)
(* progress has work that can settle.                                      *)
LEMMA SettleProceeds ==
  ASSUME Inv, Inv', CreditInv, NEW o \in Op, Settle(o)
  PROVE  Proceeds(o)
<1>1. op[o] \in OpRecord /\ op \in [Op -> OpRecord]
  BY DEF Inv, Shape
<1>2. Live(o)
  BY <1>1 DEF Settle, CreditInv, IdleInv
<1> DEFINE y == [op[o] EXCEPT !.nested = op[o].nested - 1]
<1>3. /\ op' = [op EXCEPT ![o] = y]
      /\ y.at = op[o].at /\ y.gate = op[o].gate /\ y.size = op[o].size
  BY <1>1 DEF Settle, OpRecord
<1> HIDE DEF y
<1> QED BY <1>2, <1>3, UpdateProceeds DEF Settle, Live

(* Admission charges both budgets, and a refusal charges neither. *)
LEMMA RunKept ==
  ASSUME Inv, Inv', CreditInv, NEW o \in Op, NEW bytes \in Size, Run(o, bytes)
  PROVE  CreditInv'
<1> USE ConstantsAssumption
<1> DEFINE g == op[o].gate
<1>1. op[o] \in OpRecord /\ op \in [Op -> OpRecord] /\ g \in Gate /\ bytes \in Nat
  BY DEF Inv, Shape, OpRecord
<1>2. op[o].at = "new" /\ ~Live(o) /\ UNCHANGED queue
  BY DEF Run, Live
<1>3. op[o].nested = 0 /\ ~op[o].stuck /\ queue[g] # o
  BY <1>2 DEF CreditInv, IdleInv
<1>4. CASE /\ Fits(shared, bytes, AllOps, AllBytes) /\ Fits(used[g], bytes, MaxOps, MaxBytes)
           /\ shared' = Reserved(shared, bytes)
           /\ used' = [used EXCEPT ![g] = Reserved(@, bytes)]
           /\ op' = [op EXCEPT ![o].at = "capturing", ![o].size = bytes, ![o].ctx = group[g]]
  <2>1. /\ op'[o].at = "capturing" /\ op'[o].size = bytes /\ op'[o].gate = g
        /\ \A p \in Op : p # o => op'[p] = op[p]
    BY <1>1, <1>4 DEF OpRecord
  <2>2. Working' = Working \cup {o} /\ o \notin Working
    BY <1>2, <2>1 DEF Working, Live
  <2>3. Charged(g)' = Charged(g) \cup {o} /\ o \notin Charged(g)
    BY <1>2, <2>1 DEF Charged, Live
  <2>4. \A h \in Gate : h # g => Charged(h)' = Charged(h) /\ o \notin Charged(h)
    BY <1>2, <2>1 DEF Charged, Live
  <2>5. ChargedTo(Working', op', shared')
    <3>1. ChargedTo(Working, op, shared) /\ \A p \in Working : op'[p].size = op[p].size
      BY <2>1, <2>2 DEF CreditInv, Working
    <3>2. ChargedTo(Working \cup {o}, op', Reserved(shared, bytes))
      BY <1>1, <2>1, <2>2, <3>1, ChargeAdds
    <3> QED BY <1>4, <2>2, <3>2
  <2>6. ChargedTo(Charged(g)', op', Reserved(used[g], bytes))
    <3>1. ChargedTo(Charged(g), op, used[g]) /\ \A p \in Charged(g) : op'[p].size = op[p].size
      BY <1>1, <2>1, <2>3 DEF CreditInv, Charged
    <3>2. ChargedTo(Charged(g) \cup {o}, op', Reserved(used[g], bytes))
      BY <1>1, <2>1, <2>3, <3>1, ChargeAdds
    <3> QED BY <2>3, <3>2
  <2>7. ASSUME NEW h \in Gate, h # g PROVE ChargedTo(Charged(h)', op', used[h])
    BY <2>1, <2>4, <2>7, ChargeSame DEF CreditInv, Charged
  <2>8. /\ used' \in [Gate -> Use]
        /\ used'[g] = Reserved(used[g], bytes)
        /\ \A h \in Gate : h # g => used'[h] = used[h]
    BY <1>1, <1>4, <2>6 DEF CreditInv, ChargedTo
  <2>9. Within(shared', AllOps, AllBytes) /\ Within(used'[g], MaxOps, MaxBytes)
    <3>1. shared \in Use /\ used[g] \in Use
      BY <1>1 DEF CreditInv, ChargedTo
    <3>2. \A use \in Use, c, b \in Nat :
             Fits(use, bytes, c, b) => Within(Reserved(use, bytes), c, b)
      BY <1>1 DEF Use, Fits, Reserved, Within
    <3> QED BY <1>4, <2>8, <3>1, <3>2
  <2>10. ASSUME NEW p \in Op, ~Live(p)'
         PROVE  op'[p].nested = 0 /\ ~op'[p].stuck /\ queue'[op'[p].gate] # p
    <3>1. p # o
      BY <2>1, <2>10 DEF Live
    <3>2. op'[p] = op[p] /\ ~Live(p)
      BY <2>1, <2>10, <3>1 DEF Live
    <3> QED BY <1>2, <3>2 DEF CreditInv, IdleInv
  <2>11. ASSUME NEW h \in Gate PROVE ChargedTo(Charged(h)', op', used'[h])
    <3>1. CASE h = g
      <4>1. Charged(h)' = Charged(g)'
        BY <2>1, <3>1 DEF Charged, Live
      <4> QED BY <2>6, <2>8, <3>1, <4>1
    <3>2. CASE h # g
      BY <2>7, <2>8, <3>2
    <3> QED BY <3>1, <3>2
  <2>12. \A h \in Gate : Within(used'[h], MaxOps, MaxBytes)
    BY <2>8, <2>9 DEF CreditInv
  <2>13. IdleInv'
    BY <2>10 DEF IdleInv
  <2> QED BY <2>5, <2>8, <2>9, <2>11, <2>12, <2>13 DEF CreditInv
<1>5. CASE /\ op' = [op EXCEPT ![o].at = "done", ![o].answer = "capacity"]
           /\ UNCHANGED <<used, shared>>
  <2>1. /\ op'[o].at = "done" /\ op'[o].nested = 0 /\ ~op'[o].stuck /\ op'[o].gate = g
        /\ \A p \in Op : p # o => op'[p] = op[p]
    BY <1>1, <1>3, <1>5 DEF OpRecord
  <2>2. \A p \in Op : op'[p].gate = op[p].gate /\ (Live(p)' <=> Live(p))
    BY <1>2, <2>1 DEF Live
  <2>3. Working' = Working /\ \A h \in Gate : Charged(h)' = Charged(h)
    BY <2>2 DEF Working, Charged
  <2>4. o \notin Working /\ \A h \in Gate : o \notin Charged(h)
    BY <1>2 DEF Working, Charged
  <2>5. ChargedTo(Working, op', shared)
    BY <2>1, <2>4, ChargeSame DEF CreditInv, Working
  <2>6. ASSUME NEW h \in Gate PROVE ChargedTo(Charged(h), op', used[h])
    BY <2>1, <2>4, ChargeSame DEF CreditInv, Charged
  <2>7. IdleInv'
    BY <1>2, <1>3, <2>1, <2>2 DEF CreditInv, IdleInv
  <2> QED BY <1>5, <2>3, <2>5, <2>6, <2>7 DEF CreditInv
<1> QED BY <1>4, <1>5 DEF Run, Refused

(* The end of the finally block gives back what reserve() took, once. *)
LEMMA ReleaseKept ==
  ASSUME Inv, Inv', CreditInv, NEW o \in Op, Release(o)
  PROVE  CreditInv'
<1> USE ConstantsAssumption
<1> DEFINE g == op[o].gate
           n == op[o].size
           z == [op[o] EXCEPT !.at = "done"]
<1>1. /\ op[o] \in OpRecord /\ op \in [Op -> OpRecord] /\ g \in Gate /\ n \in Nat
      /\ op[o].at = "draining" /\ Live(o)
  BY DEF Inv, Shape, OpRecord, Release, Live
<1>2. op[o].nested = 0 /\ ~op[o].stuck /\ queue[g] # o /\ UNCHANGED queue
  <2>1. op[o].nested \in Nat
    BY <1>1 DEF OpRecord
  <2> QED BY <1>1, <2>1 DEF Release, Drained, Outstanding
<1>3. op' = [op EXCEPT ![o] = Answered(z, op[o].result)]
  BY <1>1 DEF Release
<1>4. z \in OpRecord /\ z.at = "done" /\ z.gate = g /\ z.nested = 0 /\ ~z.stuck
  BY <1>1, <1>2 DEF OpRecord, Place
<1>5. LET y == Answered(z, op[o].result) IN
        y.at = z.at /\ y.gate = z.gate /\ y.nested = z.nested /\ y.stuck = z.stuck
  <2> HIDE DEF z
  <2> QED BY <1>4 DEF Answered, OpRecord
<1>6. /\ op'[o].at = "done" /\ op'[o].gate = g /\ op'[o].nested = 0 /\ ~op'[o].stuck
      /\ \A p \in Op : p # o => op'[p] = op[p]
  BY <1>1, <1>3, <1>4, <1>5
<1>7. Working' = Working \ {o} /\ o \in Working
  BY <1>1, <1>6 DEF Working, Live
<1>8. Charged(g)' = Charged(g) \ {o} /\ o \in Charged(g)
  BY <1>1, <1>6 DEF Charged, Live
<1>9. \A h \in Gate : h # g => Charged(h)' = Charged(h) /\ o \notin Charged(h)
  BY <1>1, <1>6 DEF Charged, Live
<1>10. ChargedTo(Working', op', shared')
  <2>1. ChargedTo(Working, op, shared) /\ \A p \in Working \ {o} : op'[p].size = op[p].size
    BY <1>6 DEF CreditInv, Working
  <2>2. ChargedTo(Working \ {o}, op', Released(shared, n))
    BY <1>1, <1>7, <2>1, ChargeRemoves
  <2> QED BY <1>7, <2>2 DEF Release
<1>11. ChargedTo(Charged(g)', op', Released(used[g], n))
  <2>1. ChargedTo(Charged(g), op, used[g]) /\ \A p \in Charged(g) \ {o} : op'[p].size = op[p].size
    BY <1>1, <1>6 DEF CreditInv, Charged
  <2>2. ChargedTo(Charged(g) \ {o}, op', Released(used[g], n))
    BY <1>1, <1>8, <2>1, ChargeRemoves
  <2> QED BY <1>8, <2>2
<1>12. ASSUME NEW h \in Gate, h # g PROVE ChargedTo(Charged(h)', op', used[h])
  BY <1>6, <1>9, <1>12, ChargeSame DEF CreditInv, Charged
<1>13. /\ used' \in [Gate -> Use]
       /\ used'[g] = Released(used[g], n)
       /\ \A h \in Gate : h # g => used'[h] = used[h]
  BY <1>1, <1>11 DEF CreditInv, ChargedTo, Release
<1>14. ASSUME NEW h \in Gate PROVE ChargedTo(Charged(h)', op', used'[h])
  <2>1. CASE h = g
    <3>1. Charged(h)' = Charged(g)'
      BY <1>6, <2>1 DEF Charged, Live
    <3> QED BY <1>11, <1>13, <2>1, <3>1
  <2>2. CASE h # g
    BY <1>12, <1>13, <2>2
  <2> QED BY <2>1, <2>2
<1>15. Within(shared', AllOps, AllBytes) /\ Within(used'[g], MaxOps, MaxBytes)
  <2>1. shared \in Use /\ used[g] \in Use
    BY <1>1 DEF CreditInv, ChargedTo
  <2>2. \A use \in Use, c, b \in Nat : Within(use, c, b) => Within(Released(use, n), c, b)
    BY <1>1 DEF Use, Released, Within
  <2> QED BY <1>1, <1>13, <2>1, <2>2 DEF CreditInv, Release
<1>16. \A h \in Gate : Within(used'[h], MaxOps, MaxBytes)
  BY <1>13, <1>15 DEF CreditInv
<1>17. ASSUME NEW p \in Op, ~Live(p)'
       PROVE  op'[p].nested = 0 /\ ~op'[p].stuck /\ queue'[op'[p].gate] # p
  <2>1. CASE p = o
    BY <1>2, <1>6, <2>1
  <2>2. CASE p # o
    <3>1. op'[p] = op[p] /\ ~Live(p)
      BY <1>6, <1>17, <2>2 DEF Live
    <3> QED BY <1>2, <3>1 DEF CreditInv, IdleInv
  <2> QED BY <2>1, <2>2
<1>18. IdleInv'
  BY <1>17 DEF IdleInv
<1> QED BY <1>10, <1>13, <1>14, <1>15, <1>16, <1>18 DEF CreditInv

(* The rest of the coordinator takes turns, and charges nothing. *)
LEMMA CoordinatorKept ==
  ASSUME Inv, CreditInv, UNCHANGED <<op, used, shared>>,
         \A g \in Gate : queue'[g] \in {queue[g], "free", "transition"}
  PROVE  CreditInv'
<1> USE ConstantsAssumption
<1>1. Working' = Working /\ \A g \in Gate : Charged(g)' = Charged(g)
  BY DEF Working, Charged, Live
<1>2. ASSUME NEW p \in Op, ~Live(p)'
      PROVE  op'[p].nested = 0 /\ ~op'[p].stuck /\ queue'[op'[p].gate] # p
  BY <1>2 DEF CreditInv, IdleInv, Live, Inv, Shape, OpRecord
<1>3. IdleInv'
  BY <1>2 DEF IdleInv
<1> QED BY <1>1, <1>3 DEF CreditInv

LEMMA CreditNext ==
  ASSUME Inv, Inv', CreditInv, [Next]_vars
  PROVE  CreditInv'
<1>1. ASSUME NEW o \in Op, NEW bytes \in Size, Run(o, bytes) PROVE CreditInv'
  BY <1>1, RunKept
<1>2. ASSUME NEW o \in Op,
             \/ Capture(o) \/ Observe(o) \/ Quarantine(o) \/ EndPrepare(o)
             \/ StopTimer(o) \/ \E code \in {"aborted", "timeout"} : Cancel(o, code)
      PROVE  CreditInv'
  BY <1>2, OperationProceeds, ProceedsKept
<1>3. ASSUME NEW o \in Op, BeginDerive(o) \/ EndDerive(o) \/ BeginCommit(o) \/ Finish(o)
      PROVE  CreditInv'
  BY <1>3, TurnProceeds, ProceedsKept
<1>4. ASSUME NEW o \in Op, Settle(o) PROVE CreditInv'
  BY <1>4, SettleProceeds, ProceedsKept
<1>5. ASSUME NEW o \in Op, Release(o) PROVE CreditInv'
  BY <1>5, ReleaseKept
<1>6. ASSUME NEW g \in Gate, BeginTransition(g) \/ EndTransition(g) \/ ChangeRole(g)
      PROVE  CreditInv'
  <2>1. UNCHANGED <<op, used, shared>>
    BY <1>6 DEF BeginTransition, EndTransition, ChangeRole
  <2>2. \A h \in Gate : queue'[h] \in {queue[h], "free", "transition"}
    BY <1>6 DEF BeginTransition, EndTransition, ChangeRole, Enter, Leave, Inv, Shape
  <2> QED BY <2>1, <2>2, CoordinatorKept
<1>7. CASE UNCHANGED vars
  BY <1>7, CoordinatorKept DEF vars
<1> QED BY <1>1, <1>2, <1>3, <1>4, <1>5, <1>6, <1>7 DEF Next

LEMMA InitCredit ==
  ASSUME Init
  PROVE  CreditInv
<1> USE ConstantsAssumption
<1>1. ASSUME NEW o \in Op
      PROVE  ~Live(o) /\ op[o].nested = 0 /\ ~op[o].stuck /\ op[o].gate \in Gate
  <2>1. PICK g \in Gate : op[o] = NewOp(g)
    BY DEF Init
  <2> QED BY <2>1 DEF NewOp, Live
<1>2. Working = {} /\ \A g \in Gate : Charged(g) = {}
  BY <1>1 DEF Working, Charged
<1>3. ChargedTo({}, op, NoUse)
  <2>1. InputOf({}, op) = {}
    BY DEF InputOf
  <2> QED BY <2>1, FS_EmptySet DEF ChargedTo, NoUse, Use
<1>4. IdleInv
  BY <1>1 DEF IdleInv, Init
<1>5. used \in [Gate -> Use] /\ \A g \in Gate : used[g] = NoUse
  BY DEF Init, NoUse, Use
<1>6. Within(NoUse, AllOps, AllBytes) /\ Within(NoUse, MaxOps, MaxBytes)
  BY DEF Within, NoUse
<1> QED BY <1>2, <1>3, <1>4, <1>5, <1>6 DEF CreditInv, Init

(* What a budget counts bounds every part of the operations it is charged  *)
(* for.                                                                    *)
LEMMA PartWithin ==
  ASSUME NEW S, NEW T \in SUBSET S, NEW use, ChargedTo(S, op, use),
         NEW c \in Nat, NEW b \in Nat, Within(use, c, b)
  PROVE  Cardinality(T) <= c /\ Cardinality(Input(T)) <= b
<1>1. Input(T) = InputOf(T, op) /\ InputOf(T, op) \subseteq InputOf(S, op)
  BY InputMonotone DEF Input, InputOf
<1>2. IsFiniteSet(S) /\ IsFiniteSet(InputOf(S, op))
  BY DEF ChargedTo
<1>3. IsFiniteSet(T) /\ Cardinality(T) <= Cardinality(S)
  BY <1>2, FS_Subset
<1>4. IsFiniteSet(InputOf(T, op)) /\ Cardinality(InputOf(T, op)) <= Cardinality(InputOf(S, op))
  BY <1>1, <1>2, FS_Subset
<1>5. /\ Cardinality(S) \in Nat /\ Cardinality(T) \in Nat
      /\ Cardinality(InputOf(S, op)) \in Nat /\ Cardinality(InputOf(T, op)) \in Nat
  BY <1>2, <1>3, <1>4, FS_CardinalityType
<1>6. Cardinality(S) <= c /\ Cardinality(InputOf(S, op)) <= b
  BY DEF ChargedTo, Within
<1> QED BY <1>1, <1>3, <1>4, <1>5, <1>6

LEMMA CreditGivesAccounts ==
  ASSUME Inv, CreditInv
  PROVE  WorkAccounted
<1> USE ConstantsAssumption
<1>1. \A S : Input(S) = InputOf(S, op)
  BY DEF Input, InputOf
<1>2. CreditsExact
  BY <1>1 DEF CreditsExact, CreditInv, ChargedTo, Working
<1>3. \A o \in Op : Busy(o) => Live(o)
  <2> TAKE o \in Op
  <2>1. op[o].nested \in Nat
    BY DEF Inv, Shape, OpRecord
  <2> QED BY <2>1 DEF Busy, Outstanding, CreditInv, IdleInv, Live
<1>4. {o \in Op : Busy(o)} \subseteq Working
  BY <1>3 DEF Working
<1>5. \A g \in Gate : {o \in {p \in Op : op[p].gate = g} : Busy(o)} \subseteq Charged(g)
  BY <1>3 DEF Charged
<1>6. /\ Cardinality({o \in Op : Busy(o)}) <= AllOps
      /\ Cardinality(Input({o \in Op : Busy(o)})) <= AllBytes
  BY <1>4, PartWithin DEF CreditInv
<1>7. ASSUME NEW g \in Gate
      PROVE  /\ Cardinality({o \in {p \in Op : op[p].gate = g} : Busy(o)}) <= MaxOps
             /\ Cardinality(Input({o \in {p \in Op : op[p].gate = g} : Busy(o)})) <= MaxBytes
  BY <1>5, PartWithin DEF CreditInv
<1>8. WorkBounded
  BY <1>6, <1>7 DEF WorkBounded
<1> QED BY <1>2, <1>8 DEF WorkAccounted

(* reserve() and release() of run() account exactly for every operation    *)
(* in progress, and work that outlives its caller stays within the budgets *)
(* of its gate and of all gates, however many gates and operations.        *)
THEOREM AccountsExact == Spec => []WorkAccounted
<1>1. Init => Inv /\ CreditInv
  BY InitInv, InitCredit
<1>2. Inv /\ CreditInv /\ [Next]_vars => (Inv /\ CreditInv)'
  BY NextStep, CreditNext DEF StepOK
<1>3. Inv /\ CreditInv => WorkAccounted
  BY CreditGivesAccounts
<1> QED BY <1>1, <1>2, <1>3, PTL DEF Spec
=============================================================================
