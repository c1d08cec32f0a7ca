------------------------ MODULE DocumentOperationGate ------------------------
(***************************************************************************)
(* The gate every document operation passes through                        *)
(* (packages/core/src/group-document-operation.ts), as the coordinator     *)
(* uses it in runDocumentOperation (group-security-coordinator.ts).        *)
(*                                                                         *)
(* An operation is charged to the budget of its coordinator and to one     *)
(* budget that all coordinators share.  It captures the group context in   *)
(* the coordinator's exclusive queue, prepares outside it, and commits in  *)
(* it again if context and authorization are still the same.  A timer and  *)
(* the caller's signal may cancel it at any moment before the commit.  The *)
(* caller is then answered at once, while work that cannot be cancelled    *)
(* goes on and keeps its credits until it settles.                         *)
(*                                                                         *)
(* Work is anything passed to work.observe, and the preparation itself.    *)
(* A value whose settlement cannot be observed safely keeps its slot for   *)
(* ever: it is quarantined.                                                *)
(***************************************************************************)
EXTENDS Naturals, FiniteSets

CONSTANTS Op,         \* operations, each run once
          Gate,       \* coordinators, each with its own gate
          Size,       \* input lengths
          MaxOps,     \* operations a gate admits at a time
          MaxBytes,   \* bytes a gate admits at a time
          AllOps,     \* operations all gates admit together
          AllBytes,   \* bytes all gates admit together
          MaxNested,  \* bound on nested work of one preparation
          MaxContext, \* bound on group contexts of a coordinator
          MaxRoles    \* bound on authorization changes

ASSUME ConstantsAssumption ==
  /\ Op \cap {"free", "transition"} = {}
  /\ Size \subseteq Nat
  /\ {MaxOps, MaxBytes, AllOps, AllBytes} \subseteq Nat \ {0}
  /\ {MaxNested, MaxContext, MaxRoles} \subseteq Nat

VARIABLES
  op,        \* op[o]: the local state of run() for o
  used,      \* used[g]: GroupDocumentOperationBudget of g
  shared,    \* the aggregate budget
  queue,     \* queue[g]: who runs in the coordinator's exclusive queue
  group,     \* group[g]: the coordinator's anchored document context
  roles,     \* roles[g]: the revision isAuthorizationCurrent looks at
  poisoned   \* poisoned[g]: a finalizer broke its contract

vars == <<op, used, shared, queue, group, roles, poisoned>>

-----------------------------------------------------------------------------
NoUse == [count |-> 0, bytes |-> 0]

(* at:     where the asynchronous function of run() is                     *)
(* phase:  the DocumentOperationPhase                                      *)
(* answer: how the promise given to the caller has settled                 *)
(* result: how the asynchronous function will settle                       *)
NewOp(g) ==
  [at |-> "new", gate |-> g, size |-> 0, phase |-> "preparing",
   answer |-> "none", result |-> "none", ctx |-> 0, role |-> 0, read |-> 0,
   nested |-> 0, stuck |-> FALSE, applied |-> FALSE]

(* canReserveDocumentOperation. *)
Fits(use, bytes, maxCount, maxBytes) ==
  use.count < maxCount /\ bytes <= maxBytes - use.bytes

Reserved(use, bytes) == [count |-> use.count + 1, bytes |-> use.bytes + bytes]

Released(use, bytes) == [count |-> use.count - 1, bytes |-> use.bytes - bytes]

(* Promise.race: the first settlement is the caller's answer. *)
Answered(x, answer) == IF x.answer = "none" THEN [x EXCEPT !.answer = answer] ELSE x

(* run() leaves its body, by return or throw, for the finally block. *)
Leaves(x, result) == [x EXCEPT !.at = "draining", !.result = result]

(* The work o has in progress: its preparation, nested work, an export of  *)
(* secrets inside the exclusive queue.                                     *)
Outstanding(o) ==
  op[o].nested + (IF op[o].at = "preparing" THEN 1 ELSE 0)
               + (IF queue[op[o].gate] = o /\ op[o].at # "committing" THEN 1 ELSE 0)

Init ==
  /\ op \in [Op -> {NewOp(g) : g \in Gate}]
  /\ used = [g \in Gate |-> NoUse]
  /\ shared = NoUse
  /\ queue = [g \in Gate |-> "free"]
  /\ group = [g \in Gate |-> 0]
  /\ roles = [g \in Gate |-> 0]
  /\ poisoned = [g \in Gate |-> FALSE]

(* Mutant: a turn in the queue is taken while another one is running. *)
TurnAlways(g) == TRUE

(* runExclusive: tasks of a coordinator run one at a time. *)
Turn(g) == queue[g] = "free"

Enter(g, who) == queue' = [queue EXCEPT ![g] = who]

Leave(g) == queue' = [queue EXCEPT ![g] = "free"]

-----------------------------------------------------------------------------

(* The catch block of run(): what was reserved is given back. *)
Refused(o, bytes) == shared' = shared

(* Admission: first the aggregate, then the gate's own budget. *)
Run(o, bytes) ==
  LET g == op[o].gate
      all == Fits(shared, bytes, AllOps, AllBytes)
      own == Fits(used[g], bytes, MaxOps, MaxBytes) IN
    /\ op[o].at = "new"
    /\ ~poisoned[g]
    /\ \/ /\ all /\ own
          /\ shared' = Reserved(shared, bytes)
          /\ used' = [used EXCEPT ![g] = Reserved(@, bytes)]
          /\ op' = [op EXCEPT ![o].at = "capturing", ![o].size = bytes,
                              ![o].ctx = group[g]]
       \/ /\ all /\ ~own
          /\ Refused(o, bytes)
          /\ op' = [op EXCEPT ![o].at = "done", ![o].answer = "capacity"]
          /\ UNCHANGED used
       \/ /\ ~all
          /\ op' = [op EXCEPT ![o].at = "done", ![o].answer = "capacity"]
          /\ UNCHANGED <<used, shared>>
    /\ UNCHANGED <<queue, group, roles, poisoned>>

Cancelled(o) == op[o].phase = "cancelled"

(* hooks.capture in the queue, and the check that follows it. *)
Capture(o) ==
  LET g == op[o].gate IN
    /\ op[o].at = "capturing"
    /\ Turn(g)
    /\ op' = [op EXCEPT ![o] =
                IF Cancelled(o) THEN Leaves(@, "cancelled")
                ELSE IF poisoned[g] THEN Leaves(@, "failed")
                ELSE IF group[g] # @.ctx THEN Leaves(@, "stale")
                ELSE [@ EXCEPT !.at = "preparing", !.role = roles[g]]]
    /\ UNCHANGED <<used, shared, queue, group, roles, poisoned>>

(* work.observe, and the settlement of what it observes. *)
Observe(o) ==
  /\ op[o].at = "preparing"
  /\ op[o].nested < MaxNested
  /\ op' = [op EXCEPT ![o].nested = @ + 1]
  /\ UNCHANGED <<used, shared, queue, group, roles, poisoned>>

Settle(o) ==
  /\ op[o].nested > 0
  /\ op' = [op EXCEPT ![o].nested = @ - 1]
  /\ UNCHANGED <<used, shared, queue, group, roles, poisoned>>

(* Mutant: the caller is not told. *)
QuarantinedSilently(x) == [x EXCEPT !.stuck = TRUE]

(* Work that cannot be observed safely: rejectInvalid answers the caller. *)
Quarantined(x) == Answered([x EXCEPT !.stuck = TRUE], "invalid")

(* Either nested work, or the preparation itself. *)
Quarantine(o) ==
  /\ op[o].at = "preparing"
  /\ ~op[o].stuck
  /\ \/ op' = [op EXCEPT ![o] = Quarantined(@)]
     \/ op' = [op EXCEPT ![o] = Leaves(Quarantined(@), "invalid")]
  /\ UNCHANGED <<used, shared, queue, group, roles, poisoned>>

(* deriveDocumentEncryptionMaterial: secrets are exported in the queue, by *)
(* an operation that is still active in its context.                       *)
BeginDerive(o) ==
  LET g == op[o].gate IN
    /\ op[o].at = "preparing"
    /\ Turn(g) /\ ~poisoned[g] /\ ~Cancelled(o) /\ group[g] = op[o].ctx
    /\ Enter(g, o)
    /\ UNCHANGED <<op, used, shared, group, roles, poisoned>>

EndDerive(o) ==
  /\ op[o].at \in {"preparing", "draining"}
  /\ queue[op[o].gate] = o
  /\ Leave(op[o].gate)
  /\ UNCHANGED <<op, used, shared, group, roles, poisoned>>

(* The preparation settles: it throws, or it resolves although work it     *)
(* started is still going on, or with something that is not a prepared     *)
(* operation, or as it should.                                             *)
EndPrepare(o) ==
  LET loose == Outstanding(o) > 1 \/ op[o].stuck IN
    /\ op[o].at = "preparing"
    /\ \/ op' = [op EXCEPT ![o] = Leaves(@, "failed")]
       \/ /\ Cancelled(o)
          /\ op' = [op EXCEPT ![o] = Leaves(@, "cancelled")]
       \/ /\ ~Cancelled(o) /\ loose
          /\ op' = [op EXCEPT ![o] = Leaves(Answered(@, "invalid"), "invalid")]
       \/ /\ ~Cancelled(o) /\ ~loose
          /\ op' = [op EXCEPT ![o] = Leaves(@, "invalid")]
       \/ /\ ~Cancelled(o) /\ ~loose
          /\ op' = [op EXCEPT ![o].at = "prepared", ![o].phase = "prepared"]
    /\ UNCHANGED <<used, shared, queue, group, roles, poisoned>>

(* hooks.commit reaches its turn and reads the anchored context. *)
BeginCommit(o) ==
  LET g == op[o].gate IN
    /\ op[o].at = "prepared"
    /\ Turn(g)
    /\ IF Cancelled(o) \/ poisoned[g]
       THEN /\ op' = [op EXCEPT ![o] =
                        Leaves(@, IF Cancelled(o) THEN "cancelled" ELSE "failed")]
            /\ UNCHANGED queue
       ELSE /\ op' = [op EXCEPT ![o].at = "committing", ![o].read = group[g]]
            /\ Enter(g, o)
    /\ UNCHANGED <<used, shared, group, roles, poisoned>>

(* Mutant: neither cancellation nor phase is looked at again. *)
MayFinishLate(o) == TRUE

(* checkActive() and the phase check of finish(). *)
MayFinish(o) == op[o].phase = "prepared"

(* The commit task settles; the finalizer was called; guard or finalizer   *)
(* returned a promise, which is invalid and retained.                      *)
Settles(x, result) == [x EXCEPT !.at = "settling", !.result = result]
Applied(x, result) ==
  [Settles(x, result) EXCEPT !.phase = "committed", !.applied = TRUE]
Retained(x) == Answered([x EXCEPT !.nested = @ + 1], "invalid")

(* finish(): the guard may refuse for any reason, and must if the roles    *)
(* have changed; then the finalizer runs.  A finalizer that throws or      *)
(* returns anything poisons the coordinator.  The turn ends.               *)
Finish(o) ==
  LET g == op[o].gate
      x == op[o]
      Becomes(y) == op' = [op EXCEPT ![o] = y] IN
    /\ x.at = "committing"
    /\ Leave(g)
    /\ \/ /\ ~MayFinish(o)
          /\ Becomes(Settles(x, "cancelled")) /\ UNCHANGED poisoned
       \/ /\ MayFinish(o) /\ x.read # x.ctx
          /\ Becomes(Settles(x, "stale")) /\ UNCHANGED poisoned
       \/ /\ MayFinish(o) /\ x.read = x.ctx
          /\ \E r \in {"unauthorized", "invalid"} : Becomes(Settles(x, r))
          /\ UNCHANGED poisoned
       \/ /\ MayFinish(o) /\ x.read = x.ctx
          /\ Becomes(Retained(Settles(x, "invalid"))) /\ UNCHANGED poisoned
       \/ /\ MayFinish(o) /\ x.read = x.ctx /\ x.role = roles[g]
          /\ \/ Becomes(Applied(x, "ok")) /\ UNCHANGED poisoned
             \/ /\ \E r \in {"failed", "invalid"} : Becomes(Applied(x, r))
                /\ poisoned' = [poisoned EXCEPT ![g] = TRUE]
             \/ /\ Becomes(Retained(Applied(x, "invalid")))
                /\ poisoned' = [poisoned EXCEPT ![g] = TRUE]
    /\ UNCHANGED <<used, shared, group, roles>>

(* The promise of hooks.commit settles; the finally block stops the timer. *)
StopTimer(o) ==
  /\ op[o].at = "settling"
  /\ op' = [op EXCEPT ![o].at = "draining"]
  /\ UNCHANGED <<used, shared, queue, group, roles, poisoned>>

(* cancel(): the timer, or the caller's signal. *)
Cancel(o, code) ==
  /\ op[o].at \in {"capturing", "preparing", "prepared", "committing", "settling"}
  /\ op[o].phase \notin {"committed", "cancelled"}
  /\ op' = [op EXCEPT ![o] = Answered([@ EXCEPT !.phase = "cancelled"], code)]
  /\ UNCHANGED <<used, shared, queue, group, roles, poisoned>>

(* Mutant: credits are given back without waiting for the work. *)
DrainedAtOnce(o) == TRUE

(* Promise.all(unexpectedWork). *)
Drained(o) == Outstanding(o) = 0 /\ ~op[o].stuck

(* The end of the finally block. *)
Release(o) ==
  LET g == op[o].gate IN
    /\ op[o].at = "draining"
    /\ Drained(o)
    /\ used' = [used EXCEPT ![g] = Released(@, op[o].size)]
    /\ shared' = Released(shared, op[o].size)
    /\ op' = [op EXCEPT ![o] = Answered([@ EXCEPT !.at = "done"], @.result)]
    /\ UNCHANGED <<queue, group, roles, poisoned>>

-----------------------------------------------------------------------------
(* The rest of the coordinator: membership transitions take a turn in the  *)
(* queue, changes of identity or role do not.                              *)

BeginTransition(g) ==
  /\ Turn(g) /\ ~poisoned[g]
  /\ group[g] < MaxContext
  /\ Enter(g, "transition")
  /\ UNCHANGED <<op, used, shared, group, roles, poisoned>>

EndTransition(g) ==
  /\ queue[g] = "transition"
  /\ group' = [group EXCEPT ![g] = @ + 1]
  /\ Leave(g)
  /\ UNCHANGED <<op, used, shared, roles, poisoned>>

ChangeRole(g) ==
  /\ roles[g] < MaxRoles
  /\ roles' = [roles EXCEPT ![g] = @ + 1]
  /\ UNCHANGED <<op, used, shared, queue, group, poisoned>>

Next ==
  \/ \E o \in Op :
       \/ \E bytes \in Size : Run(o, bytes)
       \/ Capture(o)
       \/ Observe(o)
       \/ Settle(o)
       \/ Quarantine(o)
       \/ BeginDerive(o)
       \/ EndDerive(o)
       \/ EndPrepare(o)
       \/ BeginCommit(o)
       \/ Finish(o)
       \/ StopTimer(o)
       \/ \E code \in {"aborted", "timeout"} : Cancel(o, code)
       \/ Release(o)
  \/ \E g \in Gate : BeginTransition(g) \/ EndTransition(g) \/ ChangeRole(g)

Spec == Init /\ [][Next]_vars

(* What the platform guarantees whatever the callbacks do: timers fire,    *)
(* and promises that have settled are observed.                            *)
TimerFairness ==
  \A o \in Op : WF_vars(Cancel(o, "timeout")) /\ WF_vars(StopTimer(o))
                /\ WF_vars(Release(o))

AnswerSpec == Spec /\ TimerFairness

-----------------------------------------------------------------------------
(* Properties *)

Use == [count : Nat, bytes : Nat]

(* The variables have their types: the budgets never go below zero.        *)
TypeOK ==
  /\ used \in [Gate -> Use]
  /\ shared \in Use
  /\ queue \in [Gate -> Op \cup {"free", "transition"}]
  /\ \A g \in Gate : group[g] \in 0 .. MaxContext /\ roles[g] \in 0 .. MaxRoles
  /\ poisoned \in [Gate -> BOOLEAN]
  /\ \A o \in Op :
       /\ op[o].at \in {"new", "capturing", "preparing", "prepared", "committing",
                        "settling", "draining", "done"}
       /\ op[o].phase \in {"preparing", "prepared", "committed", "cancelled"}
       /\ op[o].gate \in Gate
       /\ op[o].size \in Size \cup {0}
       /\ op[o].nested \in 0 .. (MaxNested + 1)

Live(o) == op[o].at \notin {"new", "done"}
Charged(g) == {o \in Op : Live(o) /\ op[o].gate = g}

(* The input the operations of S hold on to, one element for every byte.   *)
Input(S) == UNION {{o} \X (1 .. op[o].size) : o \in S}

(* Both budgets account exactly for the operations in progress: a refused  *)
(* operation leaves nothing behind, and credits come back once (reserve(), *)
(* the catch block and the finally block of run()).                        *)
CreditsExact ==
  /\ shared.count = Cardinality({o \in Op : Live(o)})
  /\ shared.bytes = Cardinality(Input({o \in Op : Live(o)}))
  /\ \A g \in Gate :
       /\ used[g].count = Cardinality(Charged(g))
       /\ used[g].bytes = Cardinality(Input(Charged(g)))

Busy(o) == Outstanding(o) > 0 \/ op[o].stuck

(* Work in progress is bounded, work whose caller was answered long ago    *)
(* included: never more than the budgets allow, operations or bytes, holds *)
(* on to its input.                                                        *)
WorkBounded ==
  LET InWork(S) == {o \in S : Busy(o)}
      Within(S, maxCount, maxBytes) ==
        Cardinality(S) <= maxCount /\ Cardinality(Input(S)) <= maxBytes IN
    /\ Within(InWork(Op), AllOps, AllBytes)
    /\ \A g \in Gate : Within(InWork({o \in Op : op[o].gate = g}), MaxOps, MaxBytes)

(* The two together: no credit is lost or given twice in any interleaving  *)
(* of cancellation, failure and late work, so what holds on to input stays *)
(* within what release() and the budgets let in.                           *)
WorkAccounted == CreditsExact /\ WorkBounded

(* A caller that was told 'aborted' or 'timeout' can rely on the operation *)
(* not having been applied, and on it never being applied later.           *)
CancelledNeverApplied ==
  \A o \in Op : op[o].answer \in {"aborted", "timeout"} => ~op[o].applied

(* A finalizer runs only while context and authorization are what they     *)
(* were when the operation was prepared, although the anchored context was *)
(* read in an earlier step.                                                *)
AppliedInContext ==
  [][\A o \in Op : op'[o].applied /\ ~op[o].applied =>
       /\ group[op[o].gate] = op[o].ctx
       /\ roles[op[o].gate] = op[o].role]_vars

(* Why these two hold: an operation reaches 'committed' only in finish(),  *)
(* which a cancelled one does not pass, and a committed one is no longer   *)
(* cancelled; and while an operation is in its commit turn, nobody else    *)
(* has the queue, so the context it has read stays the context.            *)
PhaseInv ==
  \A o \in Op :
    /\ op[o].applied => op[o].phase = "committed"
    /\ op[o].phase = "committed" => op[o].at \in {"settling", "draining", "done"}
    /\ op[o].answer \in {"aborted", "timeout"} => op[o].phase = "cancelled"
    /\ op[o].result \notin {"aborted", "timeout"}

TurnInv ==
  \A o \in Op : op[o].at = "committing" =>
    /\ queue[op[o].gate] = o
    /\ op[o].read = group[op[o].gate]

(* The preparation threw while work it had started was still going on.     *)
ThrewEarly(o) ==
  op[o].at = "draining" /\ op[o].result = "failed" /\ Busy(o)

(* Every caller is answered, even when preparation, nested work, an export *)
(* of secrets or the anchor hangs: by the timer or by rejectInvalid.  The  *)
(* exception: when a preparation throws before work it started has ended,  *)
(* the timer is stopped and the answer waits for that work.                *)
CallerAnswered ==
  \A o \in Op : (op[o].at = "capturing") ~> (op[o].answer # "none" \/ ThrewEarly(o))
=============================================================================
