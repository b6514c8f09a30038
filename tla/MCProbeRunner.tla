---------------------------- MODULE MCProbeRunner ----------------------------
(***************************************************************************)
(* One group of a liveness probe, and a command probe that goes through    *)
(* what the first one watches.                                             *)
(***************************************************************************)
EXTENDS ProbeRunner

CONSTANTS api, trip, group, x, y

MCGroups  == <<group>>
MCGroupOf == [p \in Probes |-> group]
MCTextsOf == [p \in Probes |-> IF p = api THEN {x} ELSE {x, y}]

(* No dependency, the declared one, and a cycle.                           *)
MCGraphs == {[p \in Probes |-> NoProbe],
             [p \in Probes |-> IF p = trip THEN api ELSE NoProbe],
             [p \in Probes |-> IF p = trip THEN api ELSE trip]}
=============================================================================
