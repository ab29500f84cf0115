---------------------------- MODULE ResponseGate ----------------------------
(***************************************************************************)
(* What the interception promises a client, whatever the retry behind it   *)
(* does (docs/architecture.md, "降智响应拦截"): a response is either passed  *)
(* through or withheld; a withheld one gives the client a marker and then  *)
(* one terminal error, and nothing of the upstream's body before or after. *)
(***************************************************************************)
CONSTANT Requests

VARIABLES
    given,    \* what the client of each request has last been given
    watched   \* requests whose response the plugin still filters

gateVars == <<given, watched>>

GateInit ==
    /\ given = [r \in Requests |-> "nothing"]
    /\ watched = {}

Watch(r) ==
    /\ given[r] = "nothing"
    /\ watched' = watched \cup {r}
    /\ UNCHANGED given

\* The upstream's body: never to a client that has been told it is withheld.
Pass(r) ==
    /\ given[r] \in {"nothing", "body"}
    /\ given' = [given EXCEPT ![r] = "body"]
    /\ UNCHANGED watched

Mark(r) ==
    /\ r \in watched
    /\ given[r] = "nothing"
    /\ given' = [given EXCEPT ![r] = "mark"]
    /\ UNCHANGED watched

\* The error of a whole response comes with its marker; a stream's follows it.
Fail(r) ==
    /\ given[r] \in {"nothing", "mark"}
    /\ given' = [given EXCEPT ![r] = "error"]
    /\ UNCHANGED watched

\* Responses the plugin stops filtering: it was told they ended, or it was
\* unloaded under them.  It promises nothing about the latter any more.
Forget(rs) == watched' = watched \ rs /\ UNCHANGED given

Unfiltered(r) ==
    /\ r \notin watched
    /\ given' = [given EXCEPT ![r] = "body"]
    /\ UNCHANGED watched

GateNext ==
    \/ \E r \in Requests :
          Watch(r) \/ Pass(r) \/ Mark(r) \/ Fail(r) \/ Unfiltered(r)
    \/ \E rs \in SUBSET Requests : Forget(rs)

GateSpec == GateInit /\ [][GateNext]_gateVars
=============================================================================
