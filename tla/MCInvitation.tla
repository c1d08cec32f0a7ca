---------------------------- MODULE MCInvitation ----------------------------
(* Two scenarios of Invitation for TLC.  A behaviour is in one of them, with *)
(* bounds of its own below the constants.                                    *)
EXTENDS Invitation, TLC

VARIABLE scenario

Symmetry == Permutations(Recipients) \cup Permutations(Jobs)

Requested == {job'[j].req : j \in Jobs} \ {NoRequest}

(* An editor and then a reader offer are open at once: recipients join on    *)
(* several streams that stay connected, each with its one request.           *)
OffersCompete ==
    /\ \A o \in Offers \ EditorOffers, e \in EditorOffers : expires'[o] > 0 => expires'[e] > 0
    /\ open' /\ now' = 0 /\ \A j \in Jobs : ~job'[j].aborted
    /\ \A r \in Recipients : node'[r].life = 1
    /\ \A q \in Requested : q.form = "sound"
    /\ \A q \in InvitationJoinRequests :
          /\ attempts'[q] <= 1
          /\ Cached(q) = {} => Cardinality({j \in Jobs : job'[j].req = q}) <= 1

(* One editor offer and one recipient, whose process restarts: its request   *)
(* is repeated, the offer expires, and unusable requests compete with it.    *)
RequestsRepeat ==
    /\ \A o \in Offers \ EditorOffers : expires'[o] = 0
    /\ Cardinality({r \in Recipients : node'[r] # FreshProcess(1)}
                      \cup {q.recipient : q \in Requested}
                      \cup {q.recipient : q \in {p \in InvitationJoinRequests : attempts'[p] > 0}}) <= 1

MCInit == Init /\ scenario \in {"offers compete", "requests repeat"}

MCNext ==
    /\ Next
    /\ scenario = "offers compete" => OffersCompete
    /\ scenario = "requests repeat" => RequestsRepeat
    /\ UNCHANGED scenario

MCSpec == MCInit /\ [][MCNext]_<<vars, scenario>>
=============================================================================
