---------------------------- MODULE MCClient ----------------------------
(* Instances of the client's display for TLC. *)
EXTENDS ClientContent

\* Two handovers to video over one tile; overlapping rectangles and one handover; two
\* resizes without a video channel; every event at once.
MCScenarios ==
    {[rects |-> {{"t1"}}, events |-> {"video"}, capacity |-> 1, epochs |-> 4, gens |-> 3, frames |-> 2],
     [rects |-> {{"t1"}, {"t1", "t2"}}, events |-> {"video"}, capacity |-> 2,
      epochs |-> 3, gens |-> 2, frames |-> 1],
     [rects |-> {{"t1"}, {"t2"}}, events |-> {"resize"}, capacity |-> 2,
      epochs |-> 3, gens |-> 2, frames |-> 0],
     [rects |-> {{"t1"}}, events |-> {"video", "resize", "channel", "late"}, capacity |-> 1,
      epochs |-> 4, gens |-> 1, frames |-> 1]}

\* One resize, without and with datagrams of the old configuration still under way.
MCResize ==
    {[rects |-> {{"t1"}, {"t2"}}, events |-> {"resize"}, capacity |-> 2,
      epochs |-> 2, gens |-> 1, frames |-> 0]}
MCResizeLate ==
    {[rects |-> {{"t1"}, {"t2"}}, events |-> {"resize", "late"}, capacity |-> 2,
      epochs |-> 2, gens |-> 2, frames |-> 0]}
=========================================================================
