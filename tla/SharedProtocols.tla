--------------------------- MODULE SharedProtocols ---------------------------
(***************************************************************************)
(* The protocol handlers a node registers once for all its documents        *)
(* (core/src/peerborne.ts, with the stream readers of core/src/utils.ts):   *)
(* a request is read under a deadline, handed to its document under a       *)
(* second one, and the stream is reset.                                     *)
(*                                                                          *)
(* The document's work is the environment: it commits state through the     *)
(* admission of its stream, may return, throw or hang, and may go on after  *)
(* the handler gave up on it.  A remote may withhold the rest of a request  *)
(* and its FIN.  What a handler answers is left out; chunks are counted.    *)
(***************************************************************************)
EXTENDS Integers

CONSTANTS
    Streams,        \* inbound streams
    MaxChunks,      \* MAX_BOUNDED_STREAM_CHUNKS and the byte limit of a request
    MaxMutations      \* bound: commits a document attempts on behalf of a stream

ASSUME SharedProtocolAssumption == MaxChunks \in Nat \ {0} /\ MaxMutations \in Nat

VARIABLES
    registered,     \* whether _documentRegistry has the document asked for
    stream,         \* what the handler of each stream is doing
    mutations,      \* _mutationCount
    active,         \* _active
    commits,        \* commits attempted so far
    graceOver       \* ghost: the grace period of the stream has elapsed

protocolVars == <<registered, stream, mutations, active, commits, graceOver>>
admissionVars == <<mutations, active, commits, graceOver>>

FreeStream == [phase |-> "idle"]

(* A request of n chunks; routing says how its document is found.           *)
Reading(routing, n) == [phase |-> "reading", routing |-> routing, want |-> n, got |-> 0]
Handling == [phase |-> "handling", document |-> registered, work |-> "running", timedOut |-> FALSE]
Resetting(classification) == [phase |-> "resetting", classification |-> classification]

(* A request may be longer than it may be.                                  *)
StreamAccepted(s, routing) ==
    /\ stream[s] = FreeStream
    /\ \E n \in 1 .. MaxChunks + 1 : stream' = [stream EXCEPT ![s] = Reading(routing, n)]
    /\ UNCHANGED <<registered, admissionVars>>

(* Load requests name their document inside and are answered while the      *)
(* remote keeps its side open.                                              *)
docLoadHandler(s) == StreamAccepted(s, "request")
snapshotLoadHandler(s) == StreamAccepted(s, "request")
securityAdvertiseHandler(s) == StreamAccepted(s, "request")

(* Membership messages have the path before them and end with the stream.   *)
beekemWelcomeHandler(s) == StreamAccepted(s, "header")
beekemPathUpdateHandler(s) == StreamAccepted(s, "header")

Rejects(s) == stream' = [stream EXCEPT ![s] = Resetting("rejected")]
Handles(s) == stream' = [stream EXCEPT ![s] = Handling]

(* readFirstDeserializable: complete as soon as it deserializes.            *)
readFirstDeserializable(s) ==
    /\ stream[s].phase = "reading" /\ stream[s].routing = "request"
    /\ IF stream[s].got = MaxChunks THEN Rejects(s)
       ELSE IF stream[s].got + 1 = stream[s].want THEN Handles(s)
       ELSE stream' = [stream EXCEPT ![s].got = @ + 1]
    /\ UNCHANGED <<registered, admissionVars>>

(* readPathPrefixedProtocolHeader: reads up to the FIN, then looks up.      *)
readPathPrefixedProtocolHeader(s) ==
    /\ stream[s].phase = "reading" /\ stream[s].routing = "header"
    /\ CASE stream[s].got < stream[s].want /\ stream[s].got = MaxChunks -> Rejects(s)
         [] stream[s].got < stream[s].want -> stream' = [stream EXCEPT ![s].got = @ + 1]
         [] OTHER -> IF registered THEN Handles(s) ELSE Rejects(s)
    /\ UNCHANGED <<registered, admissionVars>>

(* The bytes are not a request.                                             *)
RequestUnreadable(s) ==
    /\ stream[s].phase = "reading" /\ stream[s].got > 0
    /\ Rejects(s)
    /\ UNCHANGED <<registered, admissionVars>>

withSharedProtocolRequestDeadline(s) ==
    /\ stream[s].phase = "reading"
    /\ Rejects(s)
    /\ UNCHANGED <<registered, admissionVars>>

-----------------------------------------------------------------------------
(* SharedProtocolHandlerAdmissionController                                 *)

isActive(s) == active[s]

(* The document commits, or is denied; either way the stream has spent one  *)
(* attempt.  Work goes on behind a handler that has given up.               *)
runMutation(s) ==
    /\ commits[s] < MaxMutations
    /\ IF stream[s].phase = "handling" THEN stream[s].document ELSE commits[s] > 0
    /\ commits' = [commits EXCEPT ![s] = @ + 1]
    /\ mutations' = IF isActive(s) THEN [mutations EXCEPT ![s] = @ + 1] ELSE mutations
    /\ UNCHANGED <<registered, stream, active, graceOver>>

MutationEnds(s) ==
    /\ mutations[s] > 0
    /\ mutations' = [mutations EXCEPT ![s] = @ - 1]
    /\ UNCHANGED <<registered, stream, active, commits, graceOver>>

-----------------------------------------------------------------------------
(* runSharedProtocolHandlerPhase                                            *)

(* The document returns or throws, or the empty answer is written that      *)
(* stands for a document that is not registered.                            *)
WorkEnds(s) ==
    /\ stream[s].phase = "handling" /\ stream[s].work = "running"
    /\ \E outcome \in {"returned", "threw"} : stream' = [stream EXCEPT ![s].work = outcome]
    /\ UNCHANGED <<registered, admissionVars>>

withSharedProtocolHandlerDeadline(s) ==
    /\ stream[s].phase = "handling" /\ ~stream[s].timedOut
    /\ stream' = [stream EXCEPT ![s].timedOut = TRUE]
    /\ active' = [active EXCEPT ![s] = FALSE]
    /\ UNCHANGED <<registered, mutations, commits, graceOver>>

Classification(s) == IF stream[s].timedOut THEN "timed out"
                     ELSE IF stream[s].work = "returned" THEN "completed" ELSE "failed"

(* finally: no more commits; those under way are waited for.                *)
HandlerSettles(s) ==
    /\ stream[s].phase = "handling"
    /\ stream[s].work # "running" \/ stream[s].timedOut
    /\ active' = [active EXCEPT ![s] = FALSE]
    /\ stream' = [stream EXCEPT ![s] =
           [phase |-> "grace", classification |-> Classification(s), timedOut |-> stream[s].timedOut]]
    /\ UNCHANGED <<registered, mutations, commits, graceOver>>

GraceTimerFires(s) ==
    /\ stream[s].phase = "grace" /\ ~graceOver[s]
    /\ graceOver' = [graceOver EXCEPT ![s] = TRUE]
    /\ UNCHANGED <<registered, stream, mutations, active, commits>>

whenMutationsQuiesceOrTimeout(s) == mutations[s] = 0 \/ graceOver[s]

GraceEnds(s) ==
    /\ stream[s].phase = "grace"
    /\ whenMutationsQuiesceOrTimeout(s)
    /\ stream' = [stream EXCEPT ![s] = [phase |-> "resetting", classification |-> @.classification,
                                        timedOut |-> @.timedOut]]
    /\ UNCHANGED <<registered, admissionVars>>

(* The reset itself, or both halves closed when it throws.                  *)
abortSharedProtocolStream(s) ==
    /\ stream[s].phase = "resetting"
    /\ \E next \in {"closing", "released"} : stream' = [stream EXCEPT ![s].phase = next]
    /\ UNCHANGED <<registered, admissionVars>>

closeSharedProtocolStream(s) ==
    /\ stream[s].phase = "closing"
    /\ stream' = [stream EXCEPT ![s].phase = "released"]
    /\ UNCHANGED <<registered, admissionVars>>

RegistryChanges ==
    /\ registered' = ~registered
    /\ UNCHANGED <<stream, admissionVars>>

-----------------------------------------------------------------------------
SharedProtocolInit ==
    /\ registered = TRUE
    /\ stream = [s \in Streams |-> FreeStream]
    /\ mutations = [s \in Streams |-> 0]
    /\ active = [s \in Streams |-> TRUE]
    /\ commits = [s \in Streams |-> 0]
    /\ graceOver = [s \in Streams |-> FALSE]

SharedProtocolNext ==
    \/ \E s \in Streams : docLoadHandler(s)
    \/ \E s \in Streams : snapshotLoadHandler(s)
    \/ \E s \in Streams : securityAdvertiseHandler(s)
    \/ \E s \in Streams : beekemWelcomeHandler(s)
    \/ \E s \in Streams : beekemPathUpdateHandler(s)
    \/ \E s \in Streams : readFirstDeserializable(s)
    \/ \E s \in Streams : readPathPrefixedProtocolHeader(s)
    \/ \E s \in Streams : RequestUnreadable(s)
    \/ \E s \in Streams : withSharedProtocolRequestDeadline(s)
    \/ \E s \in Streams : runMutation(s)
    \/ \E s \in Streams : MutationEnds(s)
    \/ \E s \in Streams : WorkEnds(s)
    \/ \E s \in Streams : withSharedProtocolHandlerDeadline(s)
    \/ \E s \in Streams : HandlerSettles(s)
    \/ \E s \in Streams : GraceTimerFires(s)
    \/ \E s \in Streams : GraceEnds(s)
    \/ \E s \in Streams : abortSharedProtocolStream(s)
    \/ \E s \in Streams : closeSharedProtocolStream(s)
    \/ RegistryChanges

(* Timers fire and continuations run.  Nothing is asked of the remote or of *)
(* the document's work: both may hang.                                      *)
SharedProtocolFairness ==
    \A s \in Streams :
        /\ WF_protocolVars(withSharedProtocolRequestDeadline(s))
        /\ WF_protocolVars(withSharedProtocolHandlerDeadline(s))
        /\ WF_protocolVars(HandlerSettles(s))
        /\ WF_protocolVars(GraceTimerFires(s))
        /\ WF_protocolVars(GraceEnds(s))
        /\ WF_protocolVars(abortSharedProtocolStream(s))
        /\ WF_protocolVars(closeSharedProtocolStream(s))

SharedProtocolSpec == SharedProtocolInit /\ [][SharedProtocolNext]_protocolVars /\ SharedProtocolFairness

-----------------------------------------------------------------------------
Over(s) == stream[s].phase \in {"grace", "resetting", "closing", "released"}

(* No commit starts once the handler has timed out, returned or failed,     *)
(* although the work it started may still be running behind it.             *)
CommitsInTime ==
    [][\A s \in Streams : mutations'[s] > mutations[s] =>
           ~Over(s) /\ ~stream[s].timedOut]_protocolVars

(* A stream is reset under a commit only after a full grace period: the     *)
(* remote does not see a reset for what is about to be committed.           *)
ResetAfterCommits ==
    \A s \in Streams :
        stream[s].phase \in {"resetting", "closing", "released"} /\ mutations[s] > 0 => graceOver[s]

(* A handler that returns just after its deadline is not reported as        *)
(* completed.                                                               *)
LateIsNotCompleted ==
    \A s \in Streams :
        Over(s) /\ stream[s].classification = "completed" => ~stream[s].timedOut

(* Every inbound stream is given back, whatever the remote withholds and    *)
(* however the document's work hangs.                                       *)
StreamsReleased == \A s \in Streams : stream[s].phase = "reading" ~> stream[s].phase = "released"
===============================================================================
