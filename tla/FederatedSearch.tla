--------------------------- MODULE FederatedSearch ---------------------------
(***************************************************************************)
(* A search over other peers: FederatedSearchCoordinator.search of          *)
(* packages/index/src/federated-search.ts.  Sources only give hints, which  *)
(* documents, at which revision, might match.  Every hint is resolved       *)
(* through the local authority, by several workers at once, and only what   *)
(* that returns is shown.                                                   *)
(*                                                                          *)
(* A source answers, fails or stays silent; so does the resolver.  Both are *)
(* bounded by timers, and all resolution by a budget.  Revision 0 of a hint *)
(* means the source named none.                                             *)
(***************************************************************************)
EXTENDS Integers, Sequences, FiniteSets

CONSTANTS
    SourceAnswers,  \* what a source may answer: [candidates, exhausted]
    SourceCount,    \* sources asked
    Worlds,         \* what the authority holds: [revision, matches, indexed]
    maxTotalCandidates, resolveConcurrency

ASSUME FederatedAssumption ==
    /\ SourceCount \in Nat /\ maxTotalCandidates \in Nat \ {0} /\ resolveConcurrency \in Nat \ {0}

VARIABLES
    world,          \* the revision of each document the user may read (0: none), and which match
    searching,      \* "idle", "asking", "resolving", "done"
    answer,         \* of each source
    interleaved,    \* the candidates to resolve
    position,       \* cursor: the next one
    worker,         \* what each worker resolves, 0 for nothing; Len + 1 when it has returned
    claimed,        \* claimedReferences
    verified,       \* the result: document -> revision it was resolved at
    trouble,        \* resolutionError, resolutionTimeout, resolutionBudgetExhausted
    reasons         \* of the coverage reported

searchVars == <<world, searching, answer, interleaved, position, worker, claimed, verified, trouble, reasons>>

Sources == 1 .. SourceCount
FederatedWorkers == 1 .. resolveConcurrency
Unanswered == [status |-> "none", candidates |-> <<>>, exhausted |-> TRUE]
Returned == 99

SearchBegins ==
    /\ searching = "idle"
    /\ searching' = "asking"
    /\ verified' = [d \in world.indexed |-> world.revision[d]]
    /\ UNCHANGED <<world, answer, interleaved, position, worker, claimed, trouble, reasons>>

SourceReplies(s, a) ==
    /\ searching = "asking" /\ answer[s].status = "none"
    /\ answer' = [answer EXCEPT ![s] = [status |-> "complete", candidates |-> a.candidates, exhausted |-> a.exhausted]]
    /\ UNCHANGED <<world, searching, interleaved, position, worker, claimed, verified, trouble, reasons>>

SourceEnds(s, how) ==
    /\ searching = "asking" /\ answer[s].status = "none"
    /\ answer' = [answer EXCEPT ![s].status = how]
    /\ UNCHANGED <<world, searching, interleaved, position, worker, claimed, verified, trouble, reasons>>

(* Candidates are taken from the sources in turn, up to the limit.          *)
Offered(s, i) == answer[s].status = "complete" /\ i <= Len(answer[s].candidates)
Places == UNION {DOMAIN answer[s].candidates : s \in Sources}
PlacesInTurn ==
    LET Before(l, r) == l[2] < r[2] \/ (l[2] = r[2] /\ l[1] < r[1])
        all == {<<s, i>> \in Sources \X Places : Offered(s, i)}
    IN  [n \in 1 .. Cardinality(all) |->
            CHOOSE p \in all : Cardinality({q \in all : Before(q, p)}) = n - 1]
Available == Len(PlacesInTurn)

AllAnswered ==
    /\ searching = "asking" /\ \A s \in Sources : answer[s].status # "none"
    /\ searching' = "resolving"
    /\ LET places == PlacesInTurn
           kept == IF Len(places) < maxTotalCandidates THEN Len(places) ELSE maxTotalCandidates
       IN  interleaved' = [n \in 1 .. kept |-> answer[places[n][1]].candidates[places[n][2]]]
    /\ UNCHANGED <<world, answer, position, worker, claimed, verified, trouble, reasons>>

-----------------------------------------------------------------------------
(* Workers                                                                  *)

WorkerReturns(w) == worker' = [worker EXCEPT ![w] = Returned]

(* Taking the next candidate: none is left, the budget is spent, it needs   *)
(* no resolving, or it is resolved.                                         *)
WorkerTakes(w) ==
    LET item == interleaved[position]
    IN  /\ searching = "resolving" /\ worker[w] = 0
        /\ position' = position + 1
        /\ \/ /\ position > Len(interleaved)
              /\ WorkerReturns(w)
              /\ UNCHANGED <<claimed, trouble>>
           \/ /\ position <= Len(interleaved) /\ "budget" \in trouble
              /\ WorkerReturns(w)
              /\ UNCHANGED <<claimed, trouble>>
           \/ /\ position <= Len(interleaved) /\ "budget" \notin trouble
              /\ item.path \in DOMAIN verified \/ item \in claimed
              /\ UNCHANGED <<worker, claimed, trouble>>
           \/ /\ position <= Len(interleaved) /\ "budget" \notin trouble
              /\ item.path \notin DOMAIN verified /\ item \notin claimed
              /\ worker' = [worker EXCEPT ![w] = position]
              /\ claimed' = claimed \cup {item}
              /\ UNCHANGED trouble
        /\ UNCHANGED <<world, searching, answer, interleaved, verified, reasons>>

Accepts(item) ==
    /\ world.revision[item.path] # 0
    /\ item.revision \in {0, world.revision[item.path]}
    /\ item.path \in world.matches

(* The authority answers with what the user may read.                       *)
ResolveEnds(w) ==
    LET item == interleaved[worker[w]]
    IN  /\ searching = "resolving" /\ worker[w] \notin {0, Returned}
        /\ verified' = IF Accepts(item)
                       THEN [d \in DOMAIN verified \cup {item.path} |->
                               IF d \in DOMAIN verified THEN verified[d] ELSE world.revision[d]]
                       ELSE verified
        /\ worker' = [worker EXCEPT ![w] = 0]
        /\ UNCHANGED <<world, searching, answer, interleaved, position, claimed, trouble, reasons>>

ResolveFails(w) ==
    /\ searching = "resolving" /\ worker[w] \notin {0, Returned}
    /\ worker' = [worker EXCEPT ![w] = 0]
    /\ trouble' = trouble \cup {"error"}
    /\ UNCHANGED <<world, searching, answer, interleaved, position, claimed, verified, reasons>>

withTimeout(w) == worker[w] \notin {0, Returned}

(* A resolution runs into its own time limit, or into that of the budget.   *)
ResolveExpires(w, budget) ==
    /\ searching = "resolving" /\ withTimeout(w)
    /\ budget \/ "budget" \notin trouble
    /\ worker' = [worker EXCEPT ![w] = 0]
    /\ trouble' = trouble \cup {"timeout"} \cup IF budget THEN {"budget"} ELSE {}
    /\ UNCHANGED <<world, searching, answer, interleaved, position, claimed, verified, reasons>>

(* The budget's timer aborts every resolution in flight.                    *)
BudgetExpires ==
    /\ searching = "resolving" /\ "budget" \notin trouble
    /\ \E w \in FederatedWorkers : worker[w] # Returned
    /\ trouble' = trouble \cup {"budget"} \cup IF \E w \in FederatedWorkers : withTimeout(w) THEN {"timeout"} ELSE {}
    /\ worker' = [w \in FederatedWorkers |-> IF withTimeout(w) THEN 0 ELSE worker[w]]
    /\ UNCHANGED <<world, searching, answer, interleaved, position, claimed, verified, reasons>>

Reasons ==
    trouble \cup {answer[s].status : s \in Sources}
        \cup (IF \E s \in Sources : ~answer[s].exhausted THEN {"truncated"} ELSE {})
        \cup (IF Available > Len(interleaved) THEN {"candidates"} ELSE {})

SearchEnds ==
    /\ searching = "resolving"
    /\ \A w \in FederatedWorkers : worker[w] = Returned
    /\ searching' = "done"
    /\ reasons' = Reasons \ {"complete"}
    /\ UNCHANGED <<world, answer, interleaved, position, worker, claimed, verified, trouble>>

-----------------------------------------------------------------------------
SearchInit ==
    /\ world \in Worlds
    /\ searching = "idle" /\ answer = [s \in Sources |-> Unanswered] /\ interleaved = <<>> /\ position = 1
    /\ worker = [w \in FederatedWorkers |-> 0] /\ claimed = {} /\ verified = <<>> /\ trouble = {} /\ reasons = {}

SearchNext ==
    \/ SearchBegins
    \/ \E s \in Sources, a \in SourceAnswers : SourceReplies(s, a)
    \/ \E s \in Sources, how \in {"timeout", "error"} : SourceEnds(s, how)
    \/ AllAnswered
    \/ \E w \in FederatedWorkers : WorkerTakes(w)
    \/ \E w \in FederatedWorkers : ResolveEnds(w)
    \/ \E w \in FederatedWorkers : ResolveFails(w)
    \/ \E w \in FederatedWorkers, budget \in BOOLEAN : ResolveExpires(w, budget)
    \/ BudgetExpires
    \/ SearchEnds

(* Timers fire and workers go on; nothing is assumed of sources or of the   *)
(* resolver.                                                                *)
SearchFairness ==
    /\ \A s \in Sources : WF_searchVars(SourceEnds(s, "timeout"))
    /\ WF_searchVars(AllAnswered)
    /\ \A w \in FederatedWorkers : WF_searchVars(WorkerTakes(w)) /\ WF_searchVars(ResolveExpires(w, TRUE))
    /\ WF_searchVars(SearchEnds)

SearchSpec == SearchInit /\ [][SearchNext]_searchVars /\ SearchFairness

-----------------------------------------------------------------------------
(* Only documents the authority returned, that match, are shown, and one    *)
(* taken from a hint that names a revision is of that revision or was found *)
(* another way.                                                             *)
OnlyVerified ==
    \A d \in DOMAIN verified :
        /\ world.revision[d] # 0 /\ verified[d] = world.revision[d]
        /\ d \in world.matches
        /\ d \in world.indexed \/ \E i \in 1 .. Len(interleaved) :
               interleaved[i] \in {[path |-> d, revision |-> 0], [path |-> d, revision |-> verified[d]]}

(* A search that reports none of the ways a result can be cut short found   *)
(* every matching document that any source named.                           *)
CoverageHonest ==
    searching = "done" /\ reasons = {} =>
        \A s \in Sources : \A i \in 1 .. Len(answer[s].candidates) :
            Accepts(answer[s].candidates[i]) => answer[s].candidates[i].path \in DOMAIN verified

(* A search ends although sources or the resolver never answer.             *)
SearchTerminates == searching = "asking" ~> searching = "done"
===============================================================================
