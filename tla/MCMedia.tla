------------------------------ MODULE MCMedia ------------------------------
(***************************************************************************)
(* The two ways a picture reaches the client, each in behaviours of its    *)
(* own: tiles over UDP with their repair, and the video stream over TCP.   *)
(* part says which of the two a behaviour is about; the other stays as it  *)
(* starts.                                                                 *)
(***************************************************************************)
EXTENDS TileRepair, VideoStream

(* Two base tiles in one region: a region is sent whole or tile by tile.   *)

Faults == {"loss", "dup", "budget", "blocked", "failed", "early"}
Whole == [n |-> 1, zip |-> FALSE]
Raw == [n |-> 2, zip |-> FALSE]
Packed == [n |-> 2, zip |-> TRUE]

Calm == [frames |-> 1, faults |-> 1, resizes |-> 0, entries |-> 2, pressure |-> 4,
         forms |-> {Whole}, kinds |-> {"loss"}, full |-> TRUE]

MCScenarios ==
    { [Calm EXCEPT !.frames = 2, !.kinds = Faults],
      [Calm EXCEPT !.faults = 2, !.kinds = Faults],
      [Calm EXCEPT !.faults = 2, !.forms = {Whole, Packed}],
      [Calm EXCEPT !.faults = 2, !.full = FALSE],
      [Calm EXCEPT !.kinds = {"loss", "dup"}, !.forms = {Packed}, !.entries = 1],
      [Calm EXCEPT !.kinds = {"blocked"}, !.forms = {Whole, Packed}],
      [Calm EXCEPT !.kinds = {"early"}, !.forms = {Packed}],
      [Calm EXCEPT !.resizes = 1, !.pressure = 1, !.full = FALSE] }

\* A frame, a send cut short, a loss: enough for two encodings of one generation.
MCMixed == {[Calm EXCEPT !.frames = 2, !.faults = 2, !.kinds = {"blocked", "loss"}, !.forms = {Raw}]}

\* Several entries into video, or fewer pictures with a fault on the way; a
\* change of bitrate.
MCVideoScenarios ==
    {[frames |-> 4, entries |-> 2, gop |-> 0, rates |-> 0, opens |-> 0, faults |-> 0],
     [frames |-> 3, entries |-> 2, gop |-> 0, rates |-> 0, opens |-> 0, faults |-> 1],
     [frames |-> 3, entries |-> 1, gop |-> 1, rates |-> 0, opens |-> 1, faults |-> 1],
     [frames |-> 4, entries |-> 1, gop |-> 0, rates |-> 1, opens |-> 0, faults |-> 0]}

\* The encoder cannot be opened again at the new bitrate.
MCVideoRestarts ==
    {[frames |-> 6, entries |-> 1, gop |-> 0, rates |-> 1, opens |-> 1, faults |-> 0]}

-----------------------------------------------------------------------------
VARIABLE part

mediaVars == <<part, tile_vars, vvars>>

MediaInit ==
    /\ part \in {"tiles", "video"}
    /\ TilesInit /\ VideoInit
    /\ part = "video" => scenario = CHOOSE s \in TileScenarios : TRUE
    /\ part = "tiles" => left = CHOOSE s \in VideoScenarios : TRUE

MediaNext ==
    /\ UNCHANGED part
    /\ \/ part = "tiles" /\ TilesNext /\ UNCHANGED vvars
       \/ part = "video" /\ VideoNext /\ UNCHANGED tile_vars

\* Whoever has something to do goes on.
MediaFairness ==
    \/ []<>(IF part = "tiles" THEN Settled ELSE VideoSettled)
    \/ []<><<TRUE>>_mediaVars

MediaSpec == MediaInit /\ [][MediaNext]_mediaVars /\ MediaFairness

\* The picture arrives, whichever way it is sent.  Tiles: whatever was lost,
\* blocked or answered late, the client ends up with the server's frame in
\* every tile.  Video: after drops, overflows, refused keyframes and failed
\* decodes it comes to show the last coded picture, or the tiles the server
\* fell back to (see EventuallyRepaired and VideoShown).
PictureArrives ==
    <>[](IF part = "tiles" THEN Repaired ELSE Shown)
=============================================================================
