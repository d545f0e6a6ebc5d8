----------------------------- MODULE MCSession -----------------------------
(***************************************************************************)
(* Session with two client runs that may overlap.                          *)
(***************************************************************************)
EXTENDS Session

Budget(attempts, media, quits, resizes, stops, probes, faults) ==
    [attempts |-> attempts, media |-> media, quits |-> quits, resizes |-> resizes,
     stops |-> stops, probes |-> probes, faults |-> faults]

\* Overlapping runs with video; one run with both media and a stop; a resize under a stop.
MCScenarios == {
    Budget(2, {"video"}, 1, 0, 0, 0, 1),
    Budget(1, {"video", "audio"}, 1, 1, 1, 1, 1)}

\* One client run, and a probe the server cannot run.
MCProbeScenarios == {Budget(1, {"video"}, 0, 0, 0, 1, 0)}
=============================================================================
