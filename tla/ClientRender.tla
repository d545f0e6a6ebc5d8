---------------------------- MODULE ClientRender ----------------------------
(***************************************************************************)
(* The invariant of the client's display, and that the render thread keeps *)
(* it in every step: for every set of tiles, every capacity of its queues  *)
(* and every number of epochs, resizes and frames.                         *)
(***************************************************************************)
EXTENDS ClientContent, SequenceTheorems, WellFoundedInduction, TLAPS

-----------------------------------------------------------------------------
(* Types.                                                                  *)

Owners == {"TILES", "VIDEO"}
Fence == [epoch : Nat, owner : Owners]
Pixel == [epoch : Nat, gen : Nat]
Configuration == [id : Nat, epoch : Nat]
Packet == [epoch : Nat, rect : SUBSET Tiles, gen : Nat]
VideoMessage == [epoch : Nat, frame_id : Nat, config : Nat]
DecodedFrame == [epoch : Nat, frame_id : Nat, config : Nat, own : Nat]
Upload == [rect : SUBSET Tiles, own : Nat, gen : Nat, epoch : Nat]

Server == [epoch : Nat, owner : Owners, gen : [Tiles -> Nat], config : Nat,
           config_pending : BOOLEAN, control : Seq(Configuration),
           scenario : ContentScenarios, channel : {"open", "closing", "closed"}]

Generations == [received : [Tiles -> Nat], pending : [Tiles -> Nat], presented : [Tiles -> Nat],
                telemetry : [Tiles -> Pixel], rx_epoch : [Tiles -> Nat]]

RenderStages == {"top", "reset", "video", "pop", "current", "upload", "tiles", "ready", "drain",
                 "direct", "apply", "own", "claim_drawn", "take", "plan", "claim", "clear", "copy",
                 "check", "requeue", "epoch", "telemetry", "present", "commit"}

Pass == [pc : RenderStages, needs_full : BOOLEAN, frame_dirty : BOOLEAN, local_dirty : BOOLEAN,
         remote_dirty : BOOLEAN, video_epoch : Nat, frame : DecodedFrame, stale : BOOLEAN,
         own : Fence, allow : BOOLEAN, drained : Seq(Upload), drawn : SUBSET Tiles,
         taken : SUBSET Tiles, full : BOOLEAN, updates : SUBSET (Tiles \X Nat), uploaded : Fence,
         content : BOOLEAN, remote_updated : BOOLEAN, video_valid : BOOLEAN, batch : Nat,
         before : {"tile", "video", "fallback"}]

Surface == [tile : [Tiles -> Pixel], video : DecodedFrame, active : {"tile", "video", "fallback"},
            fallback : BOOLEAN]

\* The state of the client's three threads and of the server beside them is well
\* formed.
ClientTypes ==
    /\ server \in Server /\ udp \in SUBSET Packet /\ stream \in Seq(VideoMessage)
    /\ last_frame \in [epoch : Nat, frame_id : Nat]
    /\ config \in [applied : Configuration, pending : Configuration]
    /\ remote \in Fence /\ local \in Fence /\ gens \in Generations
    /\ uploads \in Seq(Upload) /\ dirty \in [tiles : SUBSET Tiles, epoch : Nat]
    /\ framebuffer \in [Tiles -> Pixel] /\ frames \in Seq(DecodedFrame)
    /\ net \in [pc : {"idle", "push", "blit", "dirty", "mark", "telemetry"}, tile : Packet]
    /\ decode \in [pc : {"idle", "decoded", "publish"}, frame : DecodedFrame]
    /\ render \in Pass /\ surface \in Surface
    /\ acks \in [tile : Nat, video : Nat] /\ newest \in Nat

-----------------------------------------------------------------------------
(* The inductive invariant.                                                *)

\* Where a configuration is: none is under way, or the server's newest one is on
\* the control channel, waits for the render thread, or is being installed.
Newest == [id |-> server.config, epoch |-> server.epoch]

ConfigUnderWay ==
    IF ~server.config_pending
    THEN /\ server.control = <<>> /\ config.pending = NoConfig /\ render.pc # "reset"
         /\ config.applied.id = server.config
    ELSE /\ server.owner = "TILES"
         /\ \/ /\ server.control = <<Newest>> /\ config.pending = NoConfig
               /\ render.pc # "reset" /\ config.applied.id < server.config
            \/ /\ server.control = <<>> /\ config.pending = Newest
               /\ render.pc # "reset" /\ config.applied.id < server.config
            \/ /\ server.control = <<>> /\ config.pending = NoConfig
               /\ render.pc = "reset" /\ config.applied = Newest

\* The client never runs ahead of the server, and its content epoch never falls
\* behind the configuration it applied.
EpochsOrdered ==
    /\ 1 <= server.config /\ 1 <= local.epoch
    /\ remote.epoch <= server.epoch /\ config.applied.epoch <= server.epoch
    /\ last_frame.epoch <= server.epoch
    /\ render.pc # "reset" => config.applied.epoch <= remote.epoch
    /\ \A p \in udp : p.epoch <= server.epoch
    /\ \A i \in 1..Len(stream) :
          stream[i].epoch <= server.epoch /\ stream[i].config <= server.config

\* Generations stop where the scenario says.
GensBounded == \A t \in Tiles : server.gen[t] <= server.scenario.gens

\* Video coded for an older configuration is of an older epoch.
Before(f, cfg) == f.config < cfg.id => f.epoch < cfg.epoch

VideoOfConfig ==
    /\ \A i \in 1..Len(stream) :
          /\ Before(stream[i], config.applied) /\ Before(stream[i], config.pending)
          /\ \A j \in 1..Len(server.control) : Before(stream[i], server.control[j])
    /\ decode.pc # "idle" =>
          /\ Before(decode.frame, config.applied) /\ Before(decode.frame, config.pending)
          /\ \A j \in 1..Len(server.control) : Before(decode.frame, server.control[j])
          /\ decode.frame.config <= server.config /\ decode.frame.epoch <= server.epoch
    /\ decode.pc = "publish" => decode.frame.config <= config.applied.id

\* Nothing the client holds is of an epoch it has not accepted.
HeldAccepted ==
    /\ net.tile.epoch <= remote.epoch
    /\ \A i \in 1..Len(frames) : frames[i].epoch <= remote.epoch
    /\ \A i \in 1..Len(uploads) : uploads[i].epoch <= remote.epoch
    /\ \A i \in 1..Len(render.drained) : render.drained[i].epoch <= remote.epoch
    /\ \A t \in Tiles : framebuffer[t].epoch <= remote.epoch /\ surface.tile[t].epoch <= remote.epoch
    /\ surface.video.epoch <= remote.epoch /\ render.frame.epoch <= remote.epoch
    /\ newest <= remote.epoch

\* The local fence moves with every content epoch: a frame queued under the
\* present fence is of the present epoch.
Fenced(f) == f.own <= local.epoch /\ (f.own = local.epoch => f.epoch = remote.epoch)

FramesFenced ==
    /\ \A i \in 1..Len(frames) : Fenced(frames[i])
    /\ Fenced(render.frame)

\* A frame that passed the fence is not older than anything shown before.
FrameShownNewest ==
    render.video_valid /\ render.pc # "commit" =>
        /\ render.pc \in {"check", "epoch", "telemetry", "present"}
        /\ newest <= surface.video.epoch

\* The epochs a pass is going to report are of the configuration it draws.
ReportsCurrent ==
    render.pc # "reset" =>
        /\ render.batch # 0 => config.applied.epoch <= render.batch
        /\ render.video_epoch # 0 => config.applied.epoch <= render.video_epoch

ClientInv ==
    /\ ClientTypes
    /\ ConfigUnderWay /\ EpochsOrdered /\ VideoOfConfig /\ HeldAccepted
    /\ FramesFenced /\ FrameShownNewest /\ ReportsCurrent /\ GensBounded
    /\ FramesFit /\ AcksCurrent

-----------------------------------------------------------------------------
(* Numbers.                                                                *)

\* A nonempty set of natural numbers has a least element.
LEMMA Least ==
    ASSUME NEW S, S \subseteq Nat, S # {}
    PROVE  \E m \in S : \A k \in S : m <= k
<1> DEFINE R == OpToRel(<, Nat)
<1>1. IsWellFoundedOn(R, Nat)
  BY NatLessThanWellFounded, Zenon
<1>2. R = {ss \in Nat \X Nat : ss[1] < ss[2]}
  BY DEF OpToRel
<1> HIDE DEF R
<1>3. PICK x \in S : \A y \in S : ~ (<<y, x>> \in R)
  BY <1>1, WFMin, Zenon
<1>4. \A y \in S : ~(y < x)
  <2> TAKE y \in S
  <2>1. y < x => <<y, x>> \in R
    BY <1>2
  <2> QED BY <1>3, <2>1
<1>5. \A y \in S : x <= y
  BY <1>4
<1> QED BY <1>5

\* ... and, when it is bounded, a greatest one.
LEMMA Greatest ==
    ASSUME NEW S, S \subseteq Nat, S # {}, NEW b \in Nat, \A k \in S : k <= b
    PROVE  \E m \in S : \A k \in S : m >= k
<1> DEFINE T == {b - k : k \in S}
<1>1. T \subseteq Nat /\ T # {}
  <2>1. PICK s \in S : TRUE
    BY Zenon
  <2>2. b - s \in T
    BY <2>1
  <2>3. ASSUME NEW e \in T PROVE e \in Nat
    <3>1. PICK k \in S : e = b - k
      OBVIOUS
    <3>2. k \in Nat /\ k <= b
      BY Zenon
    <3> QED BY <3>1, <3>2
  <2> HIDE DEF T
  <2> QED BY <2>2, <2>3
<1>2. PICK d \in T : \A e \in T : d <= e
  <2> HIDE DEF T
  <2> QED BY <1>1, Least, Zenon
<1>3. PICK m \in S : d = b - m
  OBVIOUS
<1>4. ASSUME NEW k \in S PROVE m >= k
  <2>1. b - k \in T
    OBVIOUS
  <2>2. d <= b - k
    BY <1>2, <2>1
  <2> QED BY <1>3, <2>2
<1> QED BY <1>4

-----------------------------------------------------------------------------
(* Records keep their type when a field is set to a value of its type.     *)

\* The render thread's locals, field by field.
LEMMA SetPass ==
    ASSUME NEW r \in Pass
    PROVE  /\ \A x \in RenderStages : [r EXCEPT !.pc = x] \in Pass
           /\ \A x \in BOOLEAN : [r EXCEPT !.needs_full = x] \in Pass
           /\ \A x \in BOOLEAN : [r EXCEPT !.frame_dirty = x] \in Pass
           /\ \A x \in BOOLEAN : [r EXCEPT !.local_dirty = x] \in Pass
           /\ \A x \in BOOLEAN : [r EXCEPT !.remote_dirty = x] \in Pass
           /\ \A x \in Nat : [r EXCEPT !.video_epoch = x] \in Pass
           /\ \A x \in DecodedFrame : [r EXCEPT !.frame = x] \in Pass
           /\ \A x \in BOOLEAN : [r EXCEPT !.stale = x] \in Pass
           /\ \A x \in Fence : [r EXCEPT !.own = x] \in Pass
           /\ \A x \in BOOLEAN : [r EXCEPT !.allow = x] \in Pass
           /\ \A x \in Seq(Upload) : [r EXCEPT !.drained = x] \in Pass
           /\ \A x \in SUBSET Tiles : [r EXCEPT !.drawn = x] \in Pass
           /\ \A x \in SUBSET Tiles : [r EXCEPT !.taken = x] \in Pass
           /\ \A x \in BOOLEAN : [r EXCEPT !.full = x] \in Pass
           /\ \A x \in SUBSET (Tiles \X Nat) : [r EXCEPT !.updates = x] \in Pass
           /\ \A x \in Fence : [r EXCEPT !.uploaded = x] \in Pass
           /\ \A x \in BOOLEAN : [r EXCEPT !.content = x] \in Pass
           /\ \A x \in BOOLEAN : [r EXCEPT !.remote_updated = x] \in Pass
           /\ \A x \in BOOLEAN : [r EXCEPT !.video_valid = x] \in Pass
           /\ \A x \in Nat : [r EXCEPT !.batch = x] \in Pass
           /\ \A x \in {"tile", "video", "fallback"} : [r EXCEPT !.before = x] \in Pass
<1>1. \A x \in RenderStages : [r EXCEPT !.pc = x] \in Pass
  BY DEF Pass
<1>2. \A x \in BOOLEAN : [r EXCEPT !.needs_full = x] \in Pass
  BY DEF Pass
<1>3. \A x \in BOOLEAN : [r EXCEPT !.frame_dirty = x] \in Pass
  BY DEF Pass
<1>4. \A x \in BOOLEAN : [r EXCEPT !.local_dirty = x] \in Pass
  BY DEF Pass
<1>5. \A x \in BOOLEAN : [r EXCEPT !.remote_dirty = x] \in Pass
  BY DEF Pass
<1>6. \A x \in Nat : [r EXCEPT !.video_epoch = x] \in Pass
  BY DEF Pass
<1>7. \A x \in DecodedFrame : [r EXCEPT !.frame = x] \in Pass
  BY DEF Pass
<1>8. \A x \in BOOLEAN : [r EXCEPT !.stale = x] \in Pass
  BY DEF Pass
<1>9. \A x \in Fence : [r EXCEPT !.own = x] \in Pass
  BY DEF Pass
<1>10. \A x \in BOOLEAN : [r EXCEPT !.allow = x] \in Pass
  BY DEF Pass
<1>11. \A x \in Seq(Upload) : [r EXCEPT !.drained = x] \in Pass
  BY DEF Pass
<1>12. \A x \in SUBSET Tiles : [r EXCEPT !.drawn = x] \in Pass
  BY DEF Pass
<1>13. \A x \in SUBSET Tiles : [r EXCEPT !.taken = x] \in Pass
  BY DEF Pass
<1>14. \A x \in BOOLEAN : [r EXCEPT !.full = x] \in Pass
  BY DEF Pass
<1>15. \A x \in SUBSET (Tiles \X Nat) : [r EXCEPT !.updates = x] \in Pass
  BY DEF Pass
<1>16. \A x \in Fence : [r EXCEPT !.uploaded = x] \in Pass
  BY DEF Pass
<1>17. \A x \in BOOLEAN : [r EXCEPT !.content = x] \in Pass
  BY DEF Pass
<1>18. \A x \in BOOLEAN : [r EXCEPT !.remote_updated = x] \in Pass
  BY DEF Pass
<1>19. \A x \in BOOLEAN : [r EXCEPT !.video_valid = x] \in Pass
  BY DEF Pass
<1>20. \A x \in Nat : [r EXCEPT !.batch = x] \in Pass
  BY DEF Pass
<1>21. \A x \in {"tile", "video", "fallback"} : [r EXCEPT !.before = x] \in Pass
  BY DEF Pass
<1> QED BY <1>1, <1>2, <1>3, <1>4, <1>5, <1>6, <1>7, <1>8, <1>9, <1>10, <1>11, <1>12, <1>13,
           <1>14, <1>15, <1>16, <1>17, <1>18, <1>19, <1>20, <1>21, Zenon

\* A render thread between two passes.
LEMMA IdleType == IdleRender \in Pass
BY DEF IdleRender, Pass, Fence, RenderStages, Owners, DecodedFrame, NoFrame

-----------------------------------------------------------------------------
(* The render thread.                                                      *)

\* What a step of a pass of run_sdl_viewer's loop must show: it stays inside the
\* pass and the configuration, and draws and keeps only what was there.
PassOK ==
    /\ render.pc # "reset" /\ render'.pc # "reset"
    /\ UNCHANGED <<server, udp, stream, last_frame, config, remote, local, net, decode>>
    /\ \A i \in 1..Len(frames') : \E j \in 1..Len(frames) : frames'[i] = frames[j]
    /\ \A i \in 1..Len(uploads') : uploads'[i].epoch <= remote.epoch
    /\ \A i \in 1..Len(render'.drained) : render'.drained[i].epoch <= remote.epoch
    /\ \A t \in Tiles : framebuffer'[t].epoch <= remote.epoch /\ surface'.tile[t].epoch <= remote.epoch
    /\ surface'.video.epoch <= remote.epoch /\ newest' <= remote.epoch
    /\ render'.frame = NoFrame \/ render'.frame = render.frame
         \/ \E j \in 1..Len(frames) : render'.frame = frames[j]

\* Such a step keeps the invariant, if what it goes on to show and to report is
\* current.
LEMMA PassStep ==
    ASSUME ClientInv, ClientTypes', PassOK, FrameShownNewest', ReportsCurrent', AcksCurrent'
    PROVE  ClientInv'
<1> USE DEF PassOK
<1>1. ConfigUnderWay'
  BY DEF ClientInv, ConfigUnderWay, Newest
<1>2. EpochsOrdered'
  BY DEF ClientInv, EpochsOrdered
<1>3. VideoOfConfig'
  BY DEF ClientInv, VideoOfConfig, Before
<1>4. HeldAccepted'
  <2>1. \A i \in 1..Len(frames') : frames'[i].epoch <= remote'.epoch
    BY DEF ClientInv, HeldAccepted
  <2>2. render'.frame.epoch <= remote'.epoch
    <3>1. NoFrame.epoch = 0 /\ remote.epoch \in Nat
      BY DEF NoFrame, ClientInv, ClientTypes, Fence
    <3>2. CASE render'.frame = NoFrame
      BY <3>1, <3>2
    <3>3. CASE render'.frame = render.frame
      BY <3>3 DEF ClientInv, HeldAccepted
    <3>4. CASE \E j \in 1..Len(frames) : render'.frame = frames[j]
      BY <3>4 DEF ClientInv, HeldAccepted
    <3> QED BY <3>2, <3>3, <3>4
  <2>3. net'.tile.epoch <= remote'.epoch
    BY DEF ClientInv, HeldAccepted
  <2> QED BY <2>1, <2>2, <2>3 DEF HeldAccepted
<1>5. FramesFenced'
  <2>1. \A i \in 1..Len(frames') : frames'[i].own <= local'.epoch
                                    /\ (frames'[i].own = local'.epoch => frames'[i].epoch = remote'.epoch)
    BY DEF ClientInv, FramesFenced, Fenced
  <2>2. render'.frame.own <= local'.epoch
        /\ (render'.frame.own = local'.epoch => render'.frame.epoch = remote'.epoch)
    <3>1. NoFrame.own = 0 /\ local.epoch \in Nat /\ 1 <= local.epoch
      BY DEF NoFrame, ClientInv, ClientTypes, Fence, EpochsOrdered
    <3>2. CASE render'.frame = NoFrame
      BY <3>1, <3>2
    <3>3. CASE render'.frame = render.frame
      BY <3>3 DEF ClientInv, FramesFenced, Fenced
    <3>4. CASE \E j \in 1..Len(frames) : render'.frame = frames[j]
      BY <3>4 DEF ClientInv, FramesFenced, Fenced
    <3> QED BY <3>2, <3>3, <3>4
  <2> QED BY <2>1, <2>2 DEF FramesFenced, Fenced
<1>6. FramesFit'
  BY DEF ClientInv, FramesFit
<1>7. GensBounded'
  BY DEF ClientInv, GensBounded
<1> QED BY <1>1, <1>2, <1>3, <1>4, <1>5, <1>6, <1>7 DEF ClientInv

\* A step that changes nothing but the thread's locals.
LEMMA RenderOnlyStep ==
    ASSUME ClientInv, RenderOnly, render' \in Pass, render.pc # "reset", render'.pc # "reset",
           render'.frame = render.frame \/ render'.frame = NoFrame,
           render'.drained = render.drained \/ render'.drained = <<>>,
           render'.video_valid => render.video_valid /\ render.pc # "commit"
              /\ render'.pc \in {"check", "epoch", "telemetry", "present"},
           ReportsCurrent'
    PROVE  ClientInv'
<1>1. UNCHANGED <<server, udp, stream, last_frame, config, remote, local, gens, uploads, dirty,
                  framebuffer, frames, net, decode, surface, acks, newest>>
  BY Zenon DEF RenderOnly, server_vars, queue_vars, screen_vars
<1>2. ClientTypes'
  BY <1>1 DEF ClientInv, ClientTypes
<1>3. PassOK
  <2>1. \A i \in 1..Len(render'.drained) : render'.drained[i].epoch <= remote.epoch
    BY DEF ClientInv, HeldAccepted
  <2> QED BY <1>1, <2>1 DEF PassOK, ClientInv, HeldAccepted
<1>4. FrameShownNewest'
  BY <1>1 DEF ClientInv, FrameShownNewest
<1>5. AcksCurrent'
  BY <1>1 DEF ClientInv, AcksCurrent
<1> QED BY <1>2, <1>3, <1>4, <1>5, PassStep

\* The names of the stages are names of stages.
LEMMA StageNames ==
    /\ {"top", "reset", "video", "pop", "current", "upload", "tiles", "ready", "drain", "direct"}
         \subseteq RenderStages
    /\ {"apply", "own", "claim_drawn", "take", "plan", "claim", "clear", "copy"} \subseteq RenderStages
    /\ {"check", "requeue", "epoch", "telemetry", "present", "commit"} \subseteq RenderStages
BY DEF RenderStages

\* The start of a pass keeps the invariant.
LEMMA BeginPassInv == ASSUME ClientInv, BeginPass PROVE ClientInv'
<1> DEFINE stage == IF ~(render.needs_full \/ RemotePending) THEN "check"
                    ELSE IF frames # <<>> THEN "video" ELSE "tiles"
           r1 == [IdleRender EXCEPT !.needs_full = render.needs_full]
           r2 == [r1 EXCEPT !.frame_dirty = render.frame_dirty]
           r3 == [r2 EXCEPT !.local_dirty = LocalDirty]
           r4 == [r3 EXCEPT !.remote_dirty = RemotePending]
           r5 == [r4 EXCEPT !.before = surface.active]
           r6 == [r5 EXCEPT !.pc = stage]
<1>1. render' = r6 /\ RenderOnly /\ render.pc = "top"
  BY Zenon DEF BeginPass, Render
<1>2. /\ render.needs_full \in BOOLEAN /\ render.frame_dirty \in BOOLEAN
      /\ LocalDirty \in BOOLEAN /\ RemotePending \in BOOLEAN
      /\ surface.active \in {"tile", "video", "fallback"} /\ stage \in RenderStages
      /\ stage # "reset"
  BY DEF ClientInv, ClientTypes, Pass, Surface, LocalDirty, RemotePending, RenderStages
<1> HIDE DEF stage
<1>3. r1 \in Pass /\ r1.frame = NoFrame /\ r1.drained = <<>> /\ ~r1.video_valid /\ r1.batch = 0 /\ r1.video_epoch = 0
  <2>1. r1 \in Pass
    BY <1>2, IdleType, SetPass, Zenon
  <2> QED BY <2>1 DEF IdleRender
<1>4. r2 \in Pass /\ r3 \in Pass /\ r4 \in Pass
  <2> HIDE DEF r1
  <2>1. r2 \in Pass BY <1>2, <1>3, SetPass, Zenon
  <2> HIDE DEF r2
  <2>2. r3 \in Pass BY <1>2, <2>1, SetPass, Zenon
  <2> HIDE DEF r3
  <2>3. r4 \in Pass BY <1>2, <2>2, SetPass, Zenon
  <2> QED BY <2>1, <2>2, <2>3
<1>5. r5 \in Pass
  <2> HIDE DEF r4
  <2> QED BY <1>2, <1>4, SetPass, Zenon
<1>6. r6 \in Pass
  <2> HIDE DEF r5
  <2> QED BY <1>2, <1>5, SetPass, Zenon
<1>7. /\ r6.frame = r1.frame /\ r6.drained = r1.drained /\ r6.video_valid = r1.video_valid
      /\ r6.batch = r1.batch /\ r6.video_epoch = r1.video_epoch /\ r6.pc = stage
  <2> HIDE DEF r1
  <2> QED BY <1>3 DEF Pass
<1> HIDE DEF r6, r1
<1>8. ReportsCurrent'
  BY <1>1, <1>3, <1>7 DEF ReportsCurrent
<1> QED BY <1>1, <1>2, <1>3, <1>6, <1>7, <1>8, RenderOnlyStep

\* The epoch of the video is read before the queue is locked
\* (upload_pending_video_texture).
LEMMA SnapshotVideoEpochInv == ASSUME ClientInv, SnapshotVideoEpoch PROVE ClientInv'
<1> DEFINE e == IF remote.owner = "VIDEO" THEN remote.epoch ELSE 0
           r1 == [render EXCEPT !.pc = "pop"]
           r2 == [r1 EXCEPT !.video_epoch = e]
<1>1. render' = r2 /\ RenderOnly /\ render.pc = "video"
  BY Zenon DEF SnapshotVideoEpoch, Render
<1>2. e \in Nat /\ render \in Pass /\ e \in {0, remote.epoch}
  BY DEF ClientInv, ClientTypes, Fence
<1> HIDE DEF e
<1>3. r1 \in Pass
  BY <1>2, SetPass, StageNames, Zenon
<1>4. r2 \in Pass
  <2> HIDE DEF r1
  <2> QED BY <1>2, <1>3, SetPass, Zenon
<1>5. /\ r2.pc = "pop" /\ r2.frame = render.frame /\ r2.drained = render.drained
      /\ r2.video_valid = render.video_valid /\ r2.batch = render.batch /\ r2.video_epoch = e
  BY <1>2 DEF Pass
<1> HIDE DEF r2
<1>6. ~render.video_valid
  BY <1>1 DEF ClientInv, FrameShownNewest
<1>7. ReportsCurrent'
  <2>1. config' = config
    BY <1>1, Zenon DEF RenderOnly
  <2> QED BY <1>1, <1>2, <1>5, <2>1 DEF ClientInv, ReportsCurrent, EpochsOrdered
<1> QED BY <1>1, <1>4, <1>5, <1>6, <1>7, RenderOnlyStep

\* A frame is uploaded when it is still the owner's, otherwise the tiles are
\* looked at.
LEMMA CheckFrameInv == ASSUME ClientInv, CheckFrame PROVE ClientInv'
<1>1. /\ render' = (IF FrameCurrent THEN [render EXCEPT !.pc = "upload"]
                    ELSE [render EXCEPT !.pc = "tiles", !.stale = TRUE])
      /\ RenderOnly /\ render.pc = "current"
  BY Zenon DEF CheckFrame, Render
<1>2. render \in Pass /\ config' = config
  BY <1>1, Zenon DEF ClientInv, ClientTypes, RenderOnly
<1>3. render' \in Pass
  <2>1. [render EXCEPT !.pc = "upload"] \in Pass /\ [render EXCEPT !.pc = "tiles"] \in Pass
    BY <1>2, SetPass, StageNames, Zenon
  <2>2. [render EXCEPT !.pc = "tiles", !.stale = TRUE] \in Pass
    BY <2>1, SetPass, Zenon
  <2> QED BY <1>1, <2>1, <2>2
<1>4. /\ render'.pc \in {"upload", "tiles"} /\ render'.frame = render.frame /\ render'.drained = render.drained
      /\ render'.video_valid = render.video_valid /\ render'.batch = render.batch
      /\ render'.video_epoch = render.video_epoch
  BY <1>1, <1>2 DEF Pass
<1>6. ~render.video_valid
  BY <1>1 DEF ClientInv, FrameShownNewest
<1>7. ReportsCurrent'
  BY <1>1, <1>2, <1>4 DEF ClientInv, ReportsCurrent
<1> QED BY <1>1, <1>3, <1>4, <1>6, <1>7, RenderOnlyStep

\* The locals the invariant speaks of, besides the stage.
SameHold(r, q) ==
    /\ r.frame = q.frame /\ r.drained = q.drained /\ r.video_valid = q.video_valid
    /\ r.batch = q.batch /\ r.video_epoch = q.video_epoch

\* Stages of a pass before its upload is checked.
Drawing == RenderStages \ {"reset", "check", "epoch", "telemetry", "present", "commit"}

\* A step of a pass that only moves on and sets other locals.
LEMMA MovesOn ==
    ASSUME ClientInv, RenderOnly, render.pc \in Drawing, render' \in Pass,
           render'.pc # "reset", SameHold(render', render)
    PROVE  ClientInv'
<1>1. config' = config /\ render.pc # "reset"
  BY Zenon DEF RenderOnly, Drawing
<1>2. ~render.video_valid
  BY DEF ClientInv, FrameShownNewest, Drawing
<1>3. ReportsCurrent'
  BY <1>1 DEF ClientInv, ReportsCurrent, SameHold
<1> QED BY <1>1, <1>2, <1>3, RenderOnlyStep DEF SameHold

\* The steps that read who owns the display.
LEMMA SnapshotsInv ==
    ASSUME ClientInv, SnapshotOwnership \/ SnapshotDirect \/ SnapshotDrawn
    PROVE  ClientInv'
<1>1. render \in Pass /\ local \in Fence
  BY DEF ClientInv, ClientTypes
<1>2. CASE SnapshotOwnership
  <2>1. render' = [render EXCEPT !.pc = "ready", !.own = local] /\ RenderOnly /\ render.pc = "tiles"
    BY <1>2, Zenon DEF SnapshotOwnership, Render
  <2>2. [render EXCEPT !.pc = "ready"] \in Pass
    BY <1>1, SetPass, StageNames, Zenon
  <2>3. render' \in Pass
    BY <1>1, <2>1, <2>2, SetPass, Zenon
  <2>4. render'.pc = "ready" /\ SameHold(render', render) /\ render.pc \in Drawing
    BY <1>1, <2>1 DEF Pass, SameHold, Drawing, RenderStages
  <2> QED BY <2>1, <2>3, <2>4, MovesOn
<1>3. CASE SnapshotDirect
  <2>1. render' = [render EXCEPT !.pc = "apply", !.own = local] /\ RenderOnly /\ render.pc = "direct"
    BY <1>3, Zenon DEF SnapshotDirect, Render
  <2>2. [render EXCEPT !.pc = "apply"] \in Pass
    BY <1>1, SetPass, StageNames, Zenon
  <2>3. render' \in Pass
    BY <1>1, <2>1, <2>2, SetPass, Zenon
  <2>4. render'.pc = "apply" /\ SameHold(render', render) /\ render.pc \in Drawing
    BY <1>1, <2>1 DEF Pass, SameHold, Drawing, RenderStages
  <2> QED BY <2>1, <2>3, <2>4, MovesOn
<1>4. CASE SnapshotDrawn
  <2>1. render' = [render EXCEPT !.pc = "claim_drawn", !.uploaded = local] /\ RenderOnly /\ render.pc = "own"
    BY <1>4, Zenon DEF SnapshotDrawn, Render
  <2>2. [render EXCEPT !.pc = "claim_drawn"] \in Pass
    BY <1>1, SetPass, StageNames, Zenon
  <2>3. render' \in Pass
    BY <1>1, <2>1, <2>2, SetPass, Zenon
  <2>4. render'.pc = "claim_drawn" /\ SameHold(render', render) /\ render.pc \in Drawing
    BY <1>1, <2>1 DEF Pass, SameHold, Drawing, RenderStages
  <2> QED BY <2>1, <2>3, <2>4, MovesOn
<1> QED BY <1>2, <1>3, <1>4

\* Whether every tile of the new configuration has arrived
\* (client_tile_frame_complete).
LEMMA CheckCompleteInv == ASSUME ClientInv, CheckComplete PROVE ClientInv'
<1> DEFINE ready == surface.fallback /\ render.own.owner = "TILES" =>
                     \A t \in Tiles : gens.received[t] # 0
           allow == ready /\ (render.stale => render.own.owner = "TILES")
           stage == IF allow THEN "drain" ELSE "plan"
<1>1. render' = [render EXCEPT !.pc = stage, !.allow = allow] /\ RenderOnly /\ render.pc = "ready"
  BY Zenon DEF CheckComplete, Render
<1>2. render \in Pass /\ allow \in BOOLEAN /\ stage \in RenderStages /\ stage # "reset"
  BY DEF ClientInv, ClientTypes, RenderStages
<1> HIDE DEF allow, stage
<1>3. [render EXCEPT !.pc = stage] \in Pass
  BY <1>2, SetPass, Zenon
<1>4. render' \in Pass
  BY <1>1, <1>2, <1>3, SetPass, Zenon
<1>5. render'.pc = stage /\ SameHold(render', render) /\ render.pc \in Drawing
  BY <1>1, <1>2 DEF Pass, SameHold, Drawing, RenderStages
<1> QED BY <1>1, <1>2, <1>4, <1>5, MovesOn

\* The epoch that is going to be reported, and whether it is.
LEMMA TelemetryInv ==
    ASSUME ClientInv, SnapshotTelemetryEpoch \/ ClaimTelemetry
    PROVE  ClientInv'
<1> DEFINE e == IF SnapshotTelemetryEpoch THEN remote.epoch
                ELSE IF \E u \in render.updates :
                          gens.telemetry[u[1]] = [epoch |-> render.batch, gen |-> u[2]]
                     THEN render.batch ELSE 0
           stage == IF SnapshotTelemetryEpoch THEN "telemetry" ELSE "present"
<1>1. /\ render' = [render EXCEPT !.pc = stage, !.batch = e]
      /\ RenderOnly /\ render.pc \in {"epoch", "telemetry"}
  <2>1. CASE SnapshotTelemetryEpoch
    <3>1. e = remote.epoch /\ stage = "telemetry"
      BY <2>1
    <3>2. render' = [render EXCEPT !.pc = "telemetry", !.batch = remote.epoch] /\ RenderOnly /\ render.pc = "epoch"
      BY <2>1, Zenon DEF SnapshotTelemetryEpoch, Render
    <3> QED BY <3>1, <3>2, Zenon
  <2>2. CASE ~SnapshotTelemetryEpoch
    <3>1. ClaimTelemetry /\ stage = "present"
      BY <2>2
    <3>2. /\ render' = [render EXCEPT !.pc = "present",
                          !.batch = IF \E u \in render.updates :
                                  gens.telemetry[u[1]] = [epoch |-> render.batch, gen |-> u[2]]
                              THEN render.batch ELSE 0]
          /\ RenderOnly /\ render.pc = "telemetry"
      BY <3>1, Zenon DEF ClaimTelemetry, Render
    <3>3. e = IF \E u \in render.updates :
                                  gens.telemetry[u[1]] = [epoch |-> render.batch, gen |-> u[2]]
                              THEN render.batch ELSE 0
      BY <2>2
    <3> QED BY <3>1, <3>2, <3>3, Zenon
  <2> QED BY <2>1, <2>2
<1>2. /\ render \in Pass /\ e \in Nat /\ e \in {remote.epoch, render.batch, 0}
      /\ stage \in {"telemetry", "present"}
  BY DEF ClientInv, ClientTypes, Fence, Pass
<1>3. [render EXCEPT !.pc = stage] \in Pass
  BY <1>2, SetPass, StageNames, Zenon
<1> HIDE DEF e, stage
<1>4. render' \in Pass
  BY <1>1, <1>2, <1>3, SetPass, Zenon
<1>5. /\ render'.pc = stage /\ render'.frame = render.frame /\ render'.drained = render.drained
      /\ render'.video_valid = render.video_valid /\ render'.batch = e
      /\ render'.video_epoch = render.video_epoch
  BY <1>1, <1>2 DEF Pass
<1>6. config' = config
  BY <1>1, Zenon DEF RenderOnly
<1>7. ReportsCurrent'
  BY <1>1, <1>2, <1>5, <1>6 DEF ClientInv, ReportsCurrent, EpochsOrdered
<1> QED BY <1>1, <1>2, <1>4, <1>5, <1>7, RenderOnlyStep

\* A step that also changes the generation tables or the dirty rectangles.
LEMMA BooksStep ==
    ASSUME ClientInv,
           UNCHANGED <<server_vars, config, remote, local, uploads, framebuffer, frames, net, decode,
                       screen_vars>>,
           gens' \in Generations, dirty' \in [tiles : SUBSET Tiles, epoch : Nat],
           render' \in Pass, render.pc # "reset", render'.pc # "reset",
           render'.frame = render.frame \/ render'.frame = NoFrame,
           render'.drained = render.drained \/ render'.drained = <<>>,
           ~render'.video_valid, ReportsCurrent'
    PROVE  ClientInv'
<1>1. UNCHANGED <<server, udp, stream, last_frame, config, remote, local, uploads,
                  framebuffer, frames, net, decode, surface, acks, newest>>
  BY Zenon DEF server_vars, screen_vars
<1>2. ClientTypes'
  BY <1>1 DEF ClientInv, ClientTypes
<1>3. PassOK
  <2>1. \A i \in 1..Len(render'.drained) : render'.drained[i].epoch <= remote.epoch
    BY DEF ClientInv, HeldAccepted
  <2> QED BY <1>1, <2>1 DEF PassOK, ClientInv, HeldAccepted
<1>4. FrameShownNewest'
  BY <1>1 DEF FrameShownNewest
<1>5. AcksCurrent'
  BY <1>1 DEF ClientInv, AcksCurrent
<1> QED BY <1>2, <1>3, <1>4, <1>5, PassStep

\* The generation tables, field by field.
LEMMA SetGenerations ==
    ASSUME NEW g \in Generations
    PROVE  /\ \A x \in [Tiles -> Nat] : [g EXCEPT !.received = x] \in Generations
           /\ \A x \in [Tiles -> Nat] : [g EXCEPT !.pending = x] \in Generations
           /\ \A x \in [Tiles -> Nat] : [g EXCEPT !.presented = x] \in Generations
           /\ \A x \in [Tiles -> Pixel] : [g EXCEPT !.telemetry = x] \in Generations
           /\ \A x \in [Tiles -> Nat] : [g EXCEPT !.rx_epoch = x] \in Generations
<1>1. \A x \in [Tiles -> Nat] : [g EXCEPT !.received = x] \in Generations
  BY DEF Generations
<1>2. \A x \in [Tiles -> Nat] : [g EXCEPT !.pending = x] \in Generations
  BY DEF Generations
<1>3. \A x \in [Tiles -> Nat] : [g EXCEPT !.presented = x] \in Generations
  BY DEF Generations
<1>4. \A x \in [Tiles -> Pixel] : [g EXCEPT !.telemetry = x] \in Generations
  BY DEF Generations
<1>5. \A x \in [Tiles -> Nat] : [g EXCEPT !.rx_epoch = x] \in Generations
  BY DEF Generations
<1> QED BY <1>1, <1>2, <1>3, <1>4, <1>5

\* claim_pending_tile_generations, after the direct uploads and for the rest.
LEMMA ClaimInv ==
    ASSUME ClientInv, NEW ts \in SUBSET Tiles, NEW stage \in RenderStages \ {"reset"},
           Claim(ts, [render EXCEPT !.pc = stage]), render.pc \in Drawing,
           UNCHANGED <<server_vars, config, remote, local, queue_vars, net, decode, screen_vars>>
    PROVE  ClientInv'
<1> DEFINE pending == [t \in Tiles |-> IF t \in ts THEN 0 ELSE gens.pending[t]]
           updates == {<<t, gens.pending[t]>> : t \in {s \in ts : gens.pending[s] > gens.presented[s]}}
           r1 == [render EXCEPT !.pc = stage]
<1>1. gens' = [gens EXCEPT !.pending = pending] /\ render' = [r1 EXCEPT !.updates = updates]
  BY DEF Claim, Render
<1>2. /\ render \in Pass /\ gens \in Generations /\ gens.pending \in [Tiles -> Nat]
      /\ dirty \in [tiles : SUBSET Tiles, epoch : Nat]
  BY DEF ClientInv, ClientTypes, Generations
<1>3. pending \in [Tiles -> Nat] /\ updates \in SUBSET (Tiles \X Nat)
  BY <1>2
<1> HIDE DEF pending, updates
<1>4. gens' \in Generations
  BY <1>1, <1>2, <1>3, SetGenerations, Zenon
<1>5. r1 \in Pass
  BY <1>2, SetPass, Zenon
<1>6. render' \in Pass
  BY <1>1, <1>3, <1>5, SetPass, Zenon
<1>7. render'.pc = stage /\ SameHold(render', render) /\ render.pc # "reset"
  BY <1>1, <1>2 DEF Pass, SameHold, Drawing
<1>8. UNCHANGED <<server_vars, config, remote, local, uploads, framebuffer, frames, net, decode,
                  screen_vars>> /\ dirty' = dirty /\ config' = config
  BY Zenon DEF queue_vars
<1>9. ~render.video_valid
  BY DEF ClientInv, FrameShownNewest, Drawing
<1>10. ReportsCurrent'
  BY <1>7, <1>8 DEF ClientInv, ReportsCurrent, SameHold
<1> QED BY <1>2, <1>4, <1>6, <1>7, <1>8, <1>9, <1>10, BooksStep DEF SameHold

\* Both claims.
LEMMA ClaimsInv == ASSUME ClientInv, ClaimDrawn \/ ClaimUploaded PROVE ClientInv'
<1>1. CASE ClaimDrawn
  <2>1. render.drawn \in SUBSET Tiles /\ "take" \in RenderStages \ {"reset"}
    BY DEF ClientInv, ClientTypes, Pass, RenderStages
  <2>2. render.pc \in Drawing
    BY <1>1 DEF ClaimDrawn, Drawing, RenderStages
  <2>3. Claim(render.drawn, [render EXCEPT !.pc = "take"])
        /\ UNCHANGED <<server_vars, config, remote, local, queue_vars, net, decode, screen_vars>>
    BY <1>1, Zenon DEF ClaimDrawn
  <2> QED BY <2>1, <2>2, <2>3, ClaimInv
<1>2. CASE ClaimUploaded
  <2> DEFINE ts == IF render.full THEN Tiles ELSE render.taken
             stage == IF render.full THEN "clear" ELSE "copy"
  <2>1. ts \in SUBSET Tiles /\ stage \in RenderStages \ {"reset"}
    BY DEF ClientInv, ClientTypes, Pass, RenderStages
  <2>2. render.pc \in Drawing
    BY <1>2 DEF ClaimUploaded, Drawing, RenderStages
  <2>3. Claim(ts, [render EXCEPT !.pc = stage])
        /\ UNCHANGED <<server_vars, config, remote, local, queue_vars, net, decode, screen_vars>>
    BY <1>2, Zenon DEF ClaimUploaded
  <2> HIDE DEF ts, stage
  <2> QED BY <2>1, <2>2, <2>3, ClaimInv
<1> QED BY <1>1, <1>2

\* requeue_tile_generation_updates.
LEMMA RequeueUpdatesInv == ASSUME ClientInv, RequeueUpdates PROVE ClientInv'
<1> DEFINE pending == [t \in Tiles |->
                   IF \E u \in render.updates : u[1] = t
                     THEN Later(gens.pending[t], (CHOOSE u \in render.updates : u[1] = t)[2])
                     ELSE gens.pending[t]]
           r1 == [render EXCEPT !.pc = "top"]
<1>1. /\ gens' = [gens EXCEPT !.pending = pending] /\ render' = [r1 EXCEPT !.updates = {}]
      /\ render.pc = "requeue"
      /\ UNCHANGED <<server_vars, config, remote, local, queue_vars, net, decode, screen_vars>>
  BY DEF RequeueUpdates, Render
<1>2. /\ render \in Pass /\ gens \in Generations /\ gens.pending \in [Tiles -> Nat]
      /\ render.updates \in SUBSET (Tiles \X Nat) /\ dirty \in [tiles : SUBSET Tiles, epoch : Nat]
  BY Zenon DEF ClientInv, ClientTypes, Generations, Pass
<1>3. pending \in [Tiles -> Nat]
  <2> SUFFICES ASSUME NEW t \in Tiles, \E u \in render.updates : u[1] = t
               PROVE  Later(gens.pending[t], (CHOOSE u \in render.updates : u[1] = t)[2]) \in Nat
    BY <1>2
  <2>1. (CHOOSE u \in render.updates : u[1] = t) \in render.updates
    OBVIOUS
  <2> QED BY <1>2, <2>1 DEF Later
<1> HIDE DEF pending
<1>4. gens' \in Generations
  BY <1>1, <1>2, <1>3, SetGenerations, Zenon
<1>5. r1 \in Pass
  BY <1>2, SetPass, StageNames, Zenon
<1>6. {} \in SUBSET (Tiles \X Nat)
  OBVIOUS
<1>7. render' \in Pass
  BY <1>1, <1>5, <1>6, SetPass, Zenon
<1>8. render'.pc = "top" /\ SameHold(render', render)
  BY <1>1, <1>2 DEF Pass, SameHold
<1>9. UNCHANGED <<server_vars, config, remote, local, uploads, framebuffer, frames, net, decode,
                  screen_vars>> /\ dirty' = dirty /\ config' = config
  BY <1>1, Zenon DEF queue_vars
<1>10. ~render.video_valid
  BY <1>1 DEF ClientInv, FrameShownNewest
<1>11. ReportsCurrent'
  BY <1>1, <1>8, <1>9 DEF ClientInv, ReportsCurrent, SameHold
<1> QED BY <1>1, <1>2, <1>4, <1>7, <1>8, <1>9, <1>10, <1>11, BooksStep DEF SameHold

\* A pass that ends leaves nothing but what is still owed.
LEMMA EndOfPass ==
    ASSUME NEW n \in BOOLEAN, NEW d \in BOOLEAN,
           NEW r, r = [IdleRender EXCEPT !.needs_full = n, !.frame_dirty = d]
    PROVE  /\ r \in Pass /\ r.pc = "top" /\ r.frame = NoFrame /\ r.drained = <<>>
           /\ ~r.video_valid /\ r.batch = 0 /\ r.video_epoch = 0
<1> DEFINE r1 == [IdleRender EXCEPT !.needs_full = n]
<1>1. r1 \in Pass
  BY IdleType, SetPass, Zenon
<1>2. r = [r1 EXCEPT !.frame_dirty = d]
  OBVIOUS
<1>3. r \in Pass
  <2>1. \A x \in BOOLEAN : [r1 EXCEPT !.frame_dirty = x] \in Pass
    BY <1>1, SetPass, Zenon
  <2> HIDE DEF r1
  <2> QED BY <1>2, <2>1, Zenon
<1>4. /\ r.pc = IdleRender.pc /\ r.frame = IdleRender.frame /\ r.drained = IdleRender.drained
      /\ r.video_valid = IdleRender.video_valid /\ r.batch = IdleRender.batch
      /\ r.video_epoch = IdleRender.video_epoch
  BY IdleType DEF Pass
<1>5. /\ IdleRender.pc = "top" /\ IdleRender.frame = NoFrame /\ IdleRender.drained = <<>>
      /\ ~IdleRender.video_valid /\ IdleRender.batch = 0 /\ IdleRender.video_epoch = 0
  BY DEF IdleRender
<1> QED BY <1>3, <1>4, <1>5

\* commit_tile_generation_updates and commit_tile_present_telemetry.
LEMMA CommitPresentInv == ASSUME ClientInv, CommitPresent PROVE ClientInv'
<1> DEFINE Gen(t) == (CHOOSE u \in render.updates : u[1] = t)[2]
           updated == {u[1] : u \in render.updates}
           presented == [t \in Tiles |-> IF t \in updated THEN Later(gens.presented[t], Gen(t))
                                         ELSE gens.presented[t]]
           telemetry == [t \in Tiles |->
              IF /\ t \in updated /\ render.batch # 0
                 /\ gens.telemetry[t] = [epoch |-> render.batch, gen |-> Gen(t)]
              THEN Blank ELSE gens.telemetry[t]]
           g1 == [gens EXCEPT !.presented = presented]
<1>1. /\ gens' = [gens EXCEPT !.presented = presented, !.telemetry = telemetry]
      /\ render' = [IdleRender EXCEPT !.needs_full = render.needs_full,
                                      !.frame_dirty = render.frame_dirty]
      /\ render.pc = "commit"
      /\ UNCHANGED <<server_vars, config, remote, local, queue_vars, net, decode, screen_vars>>
  BY DEF CommitPresent, Render
<1>2. /\ gens \in Generations /\ gens.presented \in [Tiles -> Nat]
      /\ gens.telemetry \in [Tiles -> Pixel]
      /\ render.updates \in SUBSET (Tiles \X Nat) /\ dirty \in [tiles : SUBSET Tiles, epoch : Nat]
      /\ render.needs_full \in BOOLEAN /\ render.frame_dirty \in BOOLEAN
  BY Zenon DEF ClientInv, ClientTypes, Generations, Pass
<1>3. presented \in [Tiles -> Nat]
  <2> SUFFICES ASSUME NEW t \in Tiles, t \in updated
               PROVE  Later(gens.presented[t], Gen(t)) \in Nat
    BY <1>2
  <2>1. (CHOOSE u \in render.updates : u[1] = t) \in render.updates
    OBVIOUS
  <2> QED BY <1>2, <2>1 DEF Later
<1>4. telemetry \in [Tiles -> Pixel]
  BY <1>2 DEF Blank, Pixel
<1> HIDE DEF presented, telemetry
<1>5. g1 \in Generations /\ gens' = [g1 EXCEPT !.telemetry = telemetry]
  BY <1>1, <1>2, <1>3, SetGenerations
<1>6. gens' \in Generations
  BY <1>4, <1>5, SetGenerations, Zenon
<1>7. /\ render' \in Pass /\ render'.pc = "top" /\ render'.frame = NoFrame
      /\ render'.drained = <<>> /\ ~render'.video_valid
      /\ render'.batch = 0 /\ render'.video_epoch = 0
  BY <1>1, <1>2, EndOfPass, Zenon
<1>8. UNCHANGED <<server_vars, config, remote, local, uploads, framebuffer, frames, net, decode,
                  screen_vars>> /\ dirty' = dirty
  BY <1>1, Zenon DEF queue_vars
<1>9. ReportsCurrent'
  BY <1>7 DEF ReportsCurrent
<1> QED BY <1>1, <1>2, <1>6, <1>7, <1>8, <1>9, BooksStep

\* The steps that take or drop the dirty rectangles.
LEMMA DirtyInv == ASSUME ClientInv, TakeDirty \/ ClearDirty PROVE ClientInv'
<1>1. /\ render \in Pass /\ gens \in Generations /\ dirty \in [tiles : SUBSET Tiles, epoch : Nat]
      /\ local \in Fence
  BY DEF ClientInv, ClientTypes
<1>2. [dirty EXCEPT !.tiles = {}] \in [tiles : SUBSET Tiles, epoch : Nat]
  BY <1>1
<1> DEFINE un == [epoch |-> dirty.epoch, owner |-> local.owner]
           r1 == [render EXCEPT !.pc = "plan"]
           r2 == [r1 EXCEPT !.taken = dirty.tiles]
<1>3. un \in Fence /\ dirty.tiles \in SUBSET Tiles
  BY <1>1 DEF Fence
<1>4. /\ UNCHANGED <<server_vars, config, remote, local, uploads, framebuffer, frames, net, decode,
                     screen_vars>>
      /\ gens' = gens
      /\ dirty' = dirty \/ dirty' = [dirty EXCEPT !.tiles = {}]
      /\ render.pc \in {"take", "clear"}
      /\ \/ render' = r1
         \/ render' = [render EXCEPT !.pc = "copy"]
         \/ render' = [r2 EXCEPT !.uploaded = un]
  <2>1. CASE ClearDirty
    BY <2>1, Zenon DEF ClearDirty, Render
  <2>2. CASE TakeDirty /\ (render.needs_full \/ Restore)
    BY <2>2, Zenon DEF TakeDirty, Render
  <2>3. CASE TakeDirty /\ ~(render.needs_full \/ Restore)
    <3>1. render' = [render EXCEPT !.pc = "plan", !.taken = dirty.tiles, !.uploaded = un]
      BY <2>3, Zenon DEF TakeDirty, Render
    <3>2. render' = [r2 EXCEPT !.uploaded = un]
      BY <3>1
    <3> QED BY <2>3, <3>2, Zenon DEF TakeDirty
  <2> QED BY <2>1, <2>2, <2>3
<1>5. /\ r1 \in Pass /\ [render EXCEPT !.pc = "copy"] \in Pass
  BY <1>1, SetPass, StageNames, Zenon
<1>6. r2 \in Pass
  BY <1>3, <1>5, SetPass, Zenon
<1>7. [r2 EXCEPT !.uploaded = un] \in Pass
  BY <1>3, <1>6, SetPass, Zenon
<1> HIDE DEF un
<1>8. render'.pc \in {"plan", "copy"} /\ SameHold(render', render)
  <2>1. CASE render' = r1
    BY <1>1, <2>1 DEF Pass, SameHold
  <2>2. CASE render' = [render EXCEPT !.pc = "copy"]
    BY <1>1, <2>2 DEF Pass, SameHold
  <2>3. CASE render' = [r2 EXCEPT !.uploaded = un]
    BY <1>1, <2>3 DEF Pass, SameHold
  <2> QED BY <1>4, <2>1, <2>2, <2>3
<1>9. render' \in Pass
  BY <1>4, <1>5, <1>7, Zenon
<1>10. ~render.video_valid
  BY <1>4 DEF ClientInv, FrameShownNewest
<1>11. ReportsCurrent'
  BY <1>4, <1>8 DEF ClientInv, ReportsCurrent, SameHold
<1>12. dirty' \in [tiles : SUBSET Tiles, epoch : Nat]
  BY <1>1, <1>2, <1>4, Zenon
<1> HIDE DEF r1, r2
<1> QED BY <1>1, <1>4, <1>8, <1>9, <1>10, <1>11, <1>12, BooksStep DEF SameHold

\* A step that also changes the textures.
LEMMA SurfaceStep ==
    ASSUME ClientInv,
           UNCHANGED <<server_vars, config, remote, local, gens, queue_vars, net, decode>>,
           surface' \in Surface, acks' \in [tile : Nat, video : Nat], newest' \in Nat,
           \A t \in Tiles : surface'.tile[t].epoch <= remote.epoch,
           surface'.video.epoch <= remote.epoch, newest' <= remote.epoch,
           render' \in Pass, render.pc # "reset", render'.pc # "reset",
           render'.frame = render.frame \/ render'.frame = NoFrame,
           render'.drained = render.drained \/ render'.drained = <<>>,
           FrameShownNewest', ReportsCurrent', AcksCurrent'
    PROVE  ClientInv'
<1>1. UNCHANGED <<server, udp, stream, last_frame, config, remote, local, gens, uploads, dirty,
                  framebuffer, frames, net, decode>>
  BY Zenon DEF server_vars, queue_vars
<1>2. ClientTypes'
  BY <1>1 DEF ClientInv, ClientTypes
<1>3. PassOK
  <2>1. \A i \in 1..Len(render'.drained) : render'.drained[i].epoch <= remote.epoch
    BY DEF ClientInv, HeldAccepted
  <2> QED BY <1>1, <2>1 DEF PassOK, ClientInv, HeldAccepted
<1> QED BY <1>2, <1>3, PassStep

\* upload_pending_video_texture: a frame that is still fenced when the ownership is
\* looked at again is of the present epoch, so nothing newer has been shown.
LEMMA UploadFrameInv == ASSUME ClientInv, UploadFrame PROVE ClientInv'
<1> DEFINE un == [epoch |-> render.frame.own, owner |-> "VIDEO"]
           active == IF FrameCurrent THEN "video" ELSE surface.active
           r1 == [render EXCEPT !.uploaded = un]
           r2 == [r1 EXCEPT !.content = TRUE]
           r3 == [r2 EXCEPT !.pc = "check"]
           r4 == [r3 EXCEPT !.remote_updated = TRUE]
           r5 == [r4 EXCEPT !.video_valid = TRUE]
           s1 == [r2 EXCEPT !.pc = "tiles"]
           s2 == [s1 EXCEPT !.stale = TRUE]
<1>1. /\ render.pc = "upload"
      /\ surface' = [surface EXCEPT !.video = render.frame, !.active = active]
      /\ render' = IF FrameCurrent THEN r5 ELSE s2
      /\ UNCHANGED <<server_vars, config, remote, local, gens, queue_vars, net, decode, acks, newest>>
  BY DEF UploadFrame, Render
<1>2. /\ render \in Pass /\ surface \in Surface /\ un \in Fence /\ render.frame \in DecodedFrame
      /\ active \in {"tile", "video", "fallback"} /\ acks \in [tile : Nat, video : Nat]
      /\ newest \in Nat /\ TRUE \in BOOLEAN
  BY Zenon DEF ClientInv, ClientTypes, Pass, Surface, Fence, DecodedFrame, Owners
<1> HIDE DEF active
<1>3. /\ surface' \in Surface /\ surface'.tile = surface.tile /\ surface'.video = render.frame
      /\ surface'.active = active
  BY <1>1, <1>2, Zenon DEF Surface
<1>4. /\ \A t \in Tiles : surface'.tile[t].epoch <= remote.epoch
      /\ surface'.video.epoch <= remote.epoch /\ newest <= remote.epoch
  BY <1>3 DEF ClientInv, HeldAccepted
<1>5. r1 \in Pass
  BY <1>2, SetPass, Zenon
<1>6. r2 \in Pass
  BY <1>5, SetPass, Zenon
<1>7. r5 \in Pass /\ s2 \in Pass
  <2> HIDE DEF r2
  <2>1. r3 \in Pass /\ s1 \in Pass
    BY <1>6, SetPass, StageNames, Zenon
  <2> HIDE DEF r3, s1
  <2>2. r4 \in Pass /\ s2 \in Pass
    BY <2>1, SetPass, Zenon
  <2> HIDE DEF r4
  <2> QED BY <2>2, SetPass, Zenon
<1>8. /\ r5.pc = "check" /\ r5.frame = render.frame /\ r5.drained = render.drained
      /\ r5.batch = render.batch /\ r5.video_epoch = render.video_epoch
  BY <1>2 DEF Pass
<1>9. /\ s2.pc = "tiles" /\ s2.frame = render.frame /\ s2.drained = render.drained
      /\ s2.batch = render.batch /\ s2.video_epoch = render.video_epoch
      /\ s2.video_valid = render.video_valid
  BY <1>2 DEF Pass
<1> HIDE DEF r1, r2, r3, r4, r5, s1, s2, un
<1>10. /\ render' \in Pass /\ render'.pc \in {"check", "tiles"} /\ render'.frame = render.frame
       /\ render'.drained = render.drained /\ render'.batch = render.batch
       /\ render'.video_epoch = render.video_epoch
  <2>1. CASE FrameCurrent
    BY <1>1, <1>7, <1>8, <2>1
  <2>2. CASE ~FrameCurrent
    BY <1>1, <1>7, <1>9, <2>2
  <2> QED BY <2>1, <2>2
<1>11. config' = config /\ newest' = newest /\ acks' = acks
       /\ UNCHANGED <<server_vars, config, remote, local, gens, queue_vars, net, decode>>
  BY <1>1, Zenon
<1>12. FrameShownNewest'
  <2>1. CASE FrameCurrent
    <3>1. render.frame.epoch = remote.epoch
      <4>1. render.frame.own = local.epoch
        BY <2>1 DEF FrameCurrent
      <4> QED BY <4>1 DEF ClientInv, FramesFenced, Fenced
    <3>2. render'.pc = "check"
      BY <1>1, <1>8, <2>1
    <3> QED BY <1>3, <1>4, <1>11, <3>1, <3>2 DEF FrameShownNewest
  <2>2. CASE ~FrameCurrent
    <3>1. ~render.video_valid
      BY <1>1 DEF ClientInv, FrameShownNewest
    <3>2. ~render'.video_valid
      BY <1>1, <1>9, <2>2, <3>1
    <3> QED BY <3>2 DEF FrameShownNewest
  <2> QED BY <2>1, <2>2
<1>13. ReportsCurrent' /\ AcksCurrent'
  BY <1>1, <1>10, <1>11 DEF ClientInv, ReportsCurrent, AcksCurrent
<1> QED BY <1>1, <1>2, <1>3, <1>4, <1>10, <1>11, <1>12, <1>13, SurfaceStep

\* The end of the tile branch.
LEMMA TilesDrawnType ==
    ASSUME NEW r \in Pass, NEW d \in BOOLEAN
    PROVE  /\ TilesDrawn(r, d) \in Pass /\ TilesDrawn(r, d).pc = "check"
           /\ SameHold(TilesDrawn(r, d), r)
<1> DEFINE c == r.content \/ d
           u == d /\ (r.remote_dirty \/ Restore)
           r1 == [r EXCEPT !.pc = "check"]
           r2 == [r1 EXCEPT !.content = c]
           r3 == [r2 EXCEPT !.remote_updated = u]
<1>1. TilesDrawn(r, d) = r3
  BY DEF TilesDrawn
<1>2. c \in BOOLEAN /\ u \in BOOLEAN
  BY DEF Pass, Restore
<1> HIDE DEF c, u
<1>3. r1 \in Pass
  BY SetPass, StageNames, Zenon
<1>4. r3.pc = "check" /\ SameHold(r3, r)
  BY DEF Pass, SameHold
<1> HIDE DEF r1
<1>5. r2 \in Pass
  BY <1>2, <1>3, SetPass, Zenon
<1> HIDE DEF r2
<1>6. r3 \in Pass
  BY <1>2, <1>5, SetPass, Zenon
<1> HIDE DEF r3
<1> QED BY <1>1, <1>4, <1>6

\* A step of the tile branch that draws only what the framebuffer holds.
LEMMA DrawStep ==
    ASSUME ClientInv,
           UNCHANGED <<server_vars, config, remote, local, gens, queue_vars, net, decode, acks, newest>>,
           surface' \in Surface, surface'.video = surface.video,
           \A t \in Tiles : surface'.tile[t] \in {surface.tile[t], framebuffer[t]},
           render' \in Pass, render'.pc # "reset", render.pc \in Drawing, SameHold(render', render)
    PROVE  ClientInv'
<1>1. /\ UNCHANGED <<server_vars, config, remote, local, gens, queue_vars, net, decode>>
      /\ config' = config /\ acks' = acks /\ newest' = newest /\ render.pc # "reset"
  BY Zenon DEF Drawing
<1>2. acks' \in [tile : Nat, video : Nat] /\ newest' \in Nat
  BY <1>1 DEF ClientInv, ClientTypes
<1>3. /\ \A t \in Tiles : surface'.tile[t].epoch <= remote.epoch
      /\ surface'.video.epoch <= remote.epoch /\ newest' <= remote.epoch
  BY <1>1 DEF ClientInv, HeldAccepted
<1>4. ~render.video_valid
  BY DEF ClientInv, FrameShownNewest, Drawing
<1>5. FrameShownNewest'
  BY <1>4 DEF FrameShownNewest, SameHold
<1>6. ReportsCurrent' /\ AcksCurrent'
  BY <1>1 DEF ClientInv, ReportsCurrent, AcksCurrent, SameHold
<1> QED BY <1>1, <1>2, <1>3, <1>5, <1>6, SurfaceStep DEF SameHold

\* upload_full_texture and upload_dirty_texture_rects.
LEMMA CopyFramebufferInv == ASSUME ClientInv, CopyFramebuffer PROVE ClientInv'
<1> DEFINE tile == [t \in Tiles |-> IF render.full \/ t \in render.taken
                                    THEN framebuffer[t] ELSE surface.tile[t]]
<1>1. /\ surface' = [surface EXCEPT !.active = "tile", !.tile = tile]
      /\ render' = TilesDrawn(render, TRUE) /\ render.pc = "copy"
      /\ UNCHANGED <<server_vars, config, remote, local, gens, queue_vars, net, decode, acks, newest>>
  BY DEF CopyFramebuffer, Render
<1>2. render \in Pass /\ surface \in Surface /\ framebuffer \in [Tiles -> Pixel]
      /\ surface.tile \in [Tiles -> Pixel] /\ TRUE \in BOOLEAN
  BY DEF ClientInv, ClientTypes, Surface
<1>3. tile \in [Tiles -> Pixel] /\ \A t \in Tiles : tile[t] \in {surface.tile[t], framebuffer[t]}
  BY <1>2
<1> HIDE DEF tile
<1>4. surface' \in Surface /\ surface'.tile = tile /\ surface'.video = surface.video
  BY <1>1, <1>2, <1>3, Zenon DEF Surface
<1>5. render' \in Pass /\ render'.pc = "check" /\ SameHold(render', render)
  BY <1>1, <1>2, TilesDrawnType, Zenon
<1>6. render.pc \in Drawing
  BY <1>1 DEF Drawing, RenderStages
<1> QED BY <1>1, <1>3, <1>4, <1>5, <1>6, DrawStep, Zenon

\* client_remote_tile_present_decide and plan_dirty_texture_upload.
LEMMA PlanUploadInv == ASSUME ClientInv, PlanUpload PROVE ClientInv'
<1> DEFINE wakeup == render.drawn = {} /\ ~render.needs_full /\ ~Restore /\ render.taken = {}
           rd == render.remote_dirty /\ ~wakeup
           r == [render EXCEPT !.remote_dirty = rd]
           Full(c) == render.allow /\ (render.needs_full \/ Restore \/ c)
           Un(full) == IF full THEN local ELSE r.uploaded
           active == IF r.drawn # {} THEN "tile" ELSE surface.active
<1>1. /\ render.pc = "plan"
      /\ \E c \in BOOLEAN :
           \/ /\ render' = [r EXCEPT !.pc = "claim", !.full = Full(c), !.uploaded = Un(Full(c))]
              /\ surface' = surface
           \/ /\ render' = TilesDrawn(r, r.drawn # {})
              /\ surface' = [surface EXCEPT !.active = active]
      /\ UNCHANGED <<server_vars, config, remote, local, gens, queue_vars, net, decode, acks, newest>>
  BY Zenon DEF PlanUpload, Render
<1>2. /\ render \in Pass /\ surface \in Surface /\ local \in Fence /\ rd \in BOOLEAN
      /\ \A c \in BOOLEAN : Full(c) \in BOOLEAN
  BY DEF ClientInv, ClientTypes, Restore, Pass
<1> HIDE DEF rd, Full
<1>3. r \in Pass
  BY <1>2, SetPass, Zenon
<1>4. SameHold(r, render)
  BY <1>2 DEF Pass, SameHold
<1> HIDE DEF r
<1>5. render.pc \in Drawing
  BY <1>1 DEF Drawing, RenderStages
<1>6. PICK c \in BOOLEAN :
           \/ /\ render' = [r EXCEPT !.pc = "claim", !.full = Full(c), !.uploaded = Un(Full(c))]
              /\ surface' = surface
           \/ /\ render' = TilesDrawn(r, r.drawn # {})
              /\ surface' = [surface EXCEPT !.active = active]
  BY <1>1, Zenon
<1>7. CASE render' = [r EXCEPT !.pc = "claim", !.full = Full(c), !.uploaded = Un(Full(c))]
           /\ surface' = surface
  <2> DEFINE r1 == [r EXCEPT !.pc = "claim"]
             r2 == [r1 EXCEPT !.full = Full(c)]
             r3 == [r2 EXCEPT !.uploaded = Un(Full(c))]
  <2>1. Full(c) \in BOOLEAN /\ Un(Full(c)) \in Fence
    BY <1>2, <1>3 DEF Pass
  <2> HIDE DEF Un
  <2>2. render' = r3
    BY <1>7
  <2>3. r3.pc = "claim" /\ SameHold(r3, r)
    BY <1>3 DEF Pass, SameHold
  <2>4. r1 \in Pass
    BY <1>3, SetPass, StageNames, Zenon
  <2> HIDE DEF r1
  <2>5. r2 \in Pass
    BY <2>1, <2>4, SetPass, Zenon
  <2> HIDE DEF r2
  <2>6. r3 \in Pass
    BY <2>1, <2>5, SetPass, Zenon
  <2> HIDE DEF r3
  <2>7. render' \in Pass /\ render'.pc = "claim" /\ SameHold(render', render)
    BY <1>4, <2>2, <2>3, <2>6 DEF SameHold
  <2>8. surface' \in Surface /\ surface'.video = surface.video
        /\ \A t \in Tiles : surface'.tile[t] \in {surface.tile[t], framebuffer[t]}
    BY <1>2, <1>7
  <2> QED BY <1>1, <1>5, <2>7, <2>8, DrawStep
<1>8. CASE render' = TilesDrawn(r, r.drawn # {}) /\ surface' = [surface EXCEPT !.active = active]
  <2>1. active \in {"tile", "video", "fallback"} /\ (r.drawn # {}) \in BOOLEAN
    BY <1>2 DEF Surface
  <2>2. render' \in Pass /\ render'.pc = "check" /\ SameHold(render', r)
    BY <1>3, <1>8, <2>1, TilesDrawnType, Zenon
  <2>3. SameHold(render', render)
    BY <1>4, <2>2 DEF SameHold
  <2> HIDE DEF active
  <2>4. surface' \in Surface /\ surface'.video = surface.video /\ surface'.tile = surface.tile
    BY <1>2, <1>8, <2>1 DEF Surface
  <2> QED BY <1>1, <1>5, <2>2, <2>3, <2>4, DrawStep
<1> QED BY <1>6, <1>7, <1>8

\* The check of the upload, and the discarding of a stale one.
LEMMA CheckUploadInv == ASSUME ClientInv, CheckUpload PROVE ClientInv'
<1> DEFINE tiles == local.owner = "TILES"
           active == IF surface.fallback THEN "fallback" ELSE render.before
           n == render.needs_full \/ tiles
           d == render.frame_dirty \/ tiles
           u == IF tiles THEN render.updates ELSE {}
           redo == IF tiles /\ render.updates # {} THEN "requeue" ELSE "top"
           next == IF render.remote_updated /\ render.updates # {} THEN "epoch" ELSE "present"
           a1 == [IdleRender EXCEPT !.pc = redo]
           a2 == [a1 EXCEPT !.updates = u]
           a3 == [a2 EXCEPT !.needs_full = n]
           a4 == [a3 EXCEPT !.frame_dirty = d]
           b == [IdleRender EXCEPT !.needs_full = render.needs_full,
                                   !.frame_dirty = render.frame_dirty]
           c == [render EXCEPT !.pc = next]
<1>1. /\ render.pc = "check"
      /\ \/ surface' = [surface EXCEPT !.active = active] /\ render' = a4
         \/ surface' = surface /\ render' = b
         \/ surface' = surface /\ render' = c
      /\ UNCHANGED <<server_vars, config, remote, local, gens, queue_vars, net, decode, acks, newest>>
  BY Zenon DEF CheckUpload, Render
<1>2. /\ render \in Pass /\ surface \in Surface /\ n \in BOOLEAN /\ d \in BOOLEAN
      /\ u \in SUBSET (Tiles \X Nat) /\ redo \in RenderStages \ {"reset"}
      /\ next \in {"epoch", "present"} /\ next \in RenderStages
      /\ active \in {"tile", "video", "fallback"}
      /\ render.needs_full \in BOOLEAN /\ render.frame_dirty \in BOOLEAN
  BY DEF ClientInv, ClientTypes, Pass, Surface, RenderStages
<1> HIDE DEF tiles, active, n, d, u, redo, next
<1>3. /\ a4 \in Pass /\ a4.pc # "reset" /\ a4.frame = NoFrame /\ a4.drained = <<>>
      /\ ~a4.video_valid /\ a4.batch = 0 /\ a4.video_epoch = 0
  <2>1. a1 \in Pass
    BY <1>2, IdleType, SetPass, Zenon
  <2>2. /\ a4.pc = redo /\ a4.frame = IdleRender.frame /\ a4.drained = IdleRender.drained
        /\ a4.video_valid = IdleRender.video_valid /\ a4.batch = IdleRender.batch
        /\ a4.video_epoch = IdleRender.video_epoch
    BY IdleType DEF Pass
  <2>3. /\ IdleRender.frame = NoFrame /\ IdleRender.drained = <<>> /\ ~IdleRender.video_valid
        /\ IdleRender.batch = 0 /\ IdleRender.video_epoch = 0
    BY DEF IdleRender
  <2> HIDE DEF a1
  <2>4. a2 \in Pass
    BY <1>2, <2>1, SetPass, Zenon
  <2> HIDE DEF a2
  <2>5. a3 \in Pass
    BY <1>2, <2>4, SetPass, Zenon
  <2> HIDE DEF a3
  <2>6. a4 \in Pass
    BY <1>2, <2>5, SetPass, Zenon
  <2> HIDE DEF a4
  <2> QED BY <1>2, <2>2, <2>3, <2>6
<1>4. /\ b \in Pass /\ b.pc = "top" /\ b.frame = NoFrame /\ b.drained = <<>>
      /\ ~b.video_valid /\ b.batch = 0 /\ b.video_epoch = 0
  BY <1>2, EndOfPass, Zenon
<1>5. c \in Pass /\ c.pc = next /\ SameHold(c, render)
  <2>1. c \in Pass
    BY <1>2, SetPass, Zenon
  <2>2. c.pc = next /\ SameHold(c, render)
    BY <1>2 DEF Pass, SameHold
  <2> QED BY <2>1, <2>2
<1> HIDE DEF a1, a2, a3, a4, b, c
<1>6. /\ UNCHANGED <<server_vars, config, remote, local, gens, queue_vars, net, decode>>
      /\ acks' = acks /\ newest' = newest /\ config' = config
  BY <1>1, Zenon
<1>7. surface' \in Surface /\ surface'.tile = surface.tile /\ surface'.video = surface.video
  <2>1. CASE surface' = [surface EXCEPT !.active = active]
    BY <1>2, <2>1 DEF Surface
  <2> QED BY <1>1, <1>2, <2>1
<1>8. /\ acks' \in [tile : Nat, video : Nat] /\ newest' \in Nat
      /\ \A t \in Tiles : surface'.tile[t].epoch <= remote.epoch
      /\ surface'.video.epoch <= remote.epoch /\ newest' <= remote.epoch
  BY <1>6, <1>7 DEF ClientInv, ClientTypes, HeldAccepted
<1>9. /\ render' \in Pass /\ render'.pc # "reset"
      /\ render'.frame = render.frame \/ render'.frame = NoFrame
      /\ render'.drained = render.drained \/ render'.drained = <<>>
      /\ render'.video_valid => render.video_valid /\ render'.pc \in {"epoch", "present"}
      /\ render'.batch # 0 => render'.batch = render.batch
      /\ render'.video_epoch # 0 => render'.video_epoch = render.video_epoch
  <2>1. CASE render' = a4
    BY <1>3, <2>1
  <2>2. CASE render' = b
    BY <1>4, <2>2
  <2>3. CASE render' = c
    BY <1>2, <1>5, <2>3 DEF SameHold
  <2> QED BY <1>1, <2>1, <2>2, <2>3
<1>10. FrameShownNewest'
  BY <1>1, <1>6, <1>7, <1>9 DEF ClientInv, FrameShownNewest
<1>11. ReportsCurrent' /\ AcksCurrent'
  BY <1>1, <1>6, <1>9 DEF ClientInv, ReportsCurrent, AcksCurrent
<1> QED BY <1>1, <1>6, <1>7, <1>8, <1>9, <1>10, <1>11, SurfaceStep

\* present_sdl_frame: what is presented was accepted, and what is acknowledged is
\* of the configuration applied.
LEMMA PresentInv == ASSUME ClientInv, Present PROVE ClientInv'
<1> DEFINE shown == {surface.tile[t].epoch : t \in Tiles} \cup {newest}
           n == render.needs_full /\ ~render.content
           fb == surface.fallback /\ ~(render.content /\ surface.active # "fallback")
           r1 == [render EXCEPT !.pc = "commit"]
           r2 == [r1 EXCEPT !.frame_dirty = FALSE]
           r3 == [r2 EXCEPT !.needs_full = n]
           tile == IF render.remote_updated /\ ~render.video_valid
                   THEN Later(acks.tile, render.batch) ELSE acks.tile
           video == IF render.video_valid THEN Later(acks.video, render.video_epoch) ELSE acks.video
<1>1. /\ render.pc = "present"
      /\ newest' = CASE surface.active = "tile" -> Latest(shown)
                     [] surface.active = "video" -> Later(newest, surface.video.epoch)
                     [] OTHER -> newest
      /\ acks' = [tile |-> tile, video |-> video]
      /\ surface' = [surface EXCEPT !.fallback = fb]
      /\ render' = r3
      /\ UNCHANGED <<server_vars, config, remote, local, gens, queue_vars, net, decode>>
  BY DEF Present, Render
<1>2. /\ render \in Pass /\ surface \in Surface /\ n \in BOOLEAN /\ fb \in BOOLEAN
      /\ render.batch \in Nat /\ render.video_epoch \in Nat /\ acks.tile \in Nat /\ acks.video \in Nat
      /\ surface.tile \in [Tiles -> Pixel] /\ surface.video.epoch \in Nat /\ newest \in Nat
      /\ remote.epoch \in Nat /\ config.applied.epoch \in Nat
  BY Zenon DEF ClientInv, ClientTypes, Pass, Surface, DecodedFrame, Fence, Configuration
<1>3. tile \in {acks.tile, render.batch} /\ video \in {acks.video, render.video_epoch}
  BY DEF Later
<1> HIDE DEF n, fb, tile, video
<1>4. surface' \in Surface /\ surface'.tile = surface.tile /\ surface'.video = surface.video
  BY <1>1, <1>2 DEF Surface
<1>5. newest' \in Nat /\ newest' <= remote.epoch
  <2>1. newest <= remote.epoch /\ surface.video.epoch <= remote.epoch
        /\ \A t \in Tiles : surface.tile[t].epoch <= remote.epoch /\ surface.tile[t].epoch \in Nat
    BY <1>2 DEF ClientInv, HeldAccepted, Pixel
  <2>2. /\ shown \subseteq Nat /\ shown # {} /\ \A k \in shown : k <= remote.epoch
    BY <1>2, <2>1
  <2>3. Latest(shown) \in shown
    <3> HIDE DEF shown
    <3>1. \E m \in shown : \A k \in shown : m >= k
      BY <1>2, <2>2, Greatest, Zenon
    <3> QED BY <3>1 DEF Latest
  <2>4. CASE surface.active = "tile"
    <3>1. newest' = Latest(shown)
      BY <1>1, <2>4
    <3> HIDE DEF shown
    <3> QED BY <2>2, <2>3, <3>1, Zenon
  <2>5. CASE surface.active # "tile"
    <3>1. newest' = newest \/ newest' = Later(newest, surface.video.epoch)
      BY <1>1, <2>5
    <3> QED BY <1>2, <2>1, <3>1 DEF Later
  <2> QED BY <2>4, <2>5
<1> HIDE DEF shown
<1>6. r1 \in Pass
  BY <1>2, SetPass, StageNames, Zenon
<1>7. /\ r3.pc = "commit" /\ r3.frame = render.frame /\ r3.drained = render.drained
      /\ r3.batch = render.batch /\ r3.video_epoch = render.video_epoch
  BY <1>2 DEF Pass
<1> HIDE DEF r1
<1>8. r2 \in Pass
  BY <1>6, SetPass, Zenon
<1> HIDE DEF r2
<1>9. r3 \in Pass
  BY <1>2, <1>8, SetPass, Zenon
<1> HIDE DEF r3
<1>10. config' = config
  BY <1>1
<1>11. acks' \in [tile : Nat, video : Nat] /\ AcksCurrent'
  <2>1. acks' \in [tile : Nat, video : Nat] /\ acks'.tile = tile /\ acks'.video = video
    BY <1>1, <1>2, <1>3
  <2>2. /\ acks.tile # 0 => acks.tile >= config.applied.epoch
        /\ acks.video # 0 => acks.video >= config.applied.epoch
        /\ render.batch # 0 => config.applied.epoch <= render.batch
        /\ render.video_epoch # 0 => config.applied.epoch <= render.video_epoch
    BY <1>1 DEF ClientInv, AcksCurrent, ReportsCurrent
  <2> QED BY <1>2, <1>3, <1>10, <2>1, <2>2 DEF AcksCurrent
<1>12. FrameShownNewest' /\ ReportsCurrent'
  BY <1>1, <1>7, <1>10 DEF ClientInv, FrameShownNewest, ReportsCurrent
<1>13. /\ \A t \in Tiles : surface'.tile[t].epoch <= remote.epoch
       /\ surface'.video.epoch <= remote.epoch
  BY <1>4 DEF ClientInv, HeldAccepted
<1> QED BY <1>1, <1>4, <1>5, <1>7, <1>9, <1>11, <1>12, <1>13, SurfaceStep

\* What is left of a queue is of the queue.
LEMMA QueueSuffix ==
    ASSUME NEW S, NEW q \in Seq(S), NEW m \in 1..Len(q) + 1
    PROVE  /\ SubSeq(q, m, Len(q)) \in Seq(S)
           /\ \A i \in 1..Len(SubSeq(q, m, Len(q))) :
                \E j \in 1..Len(q) : SubSeq(q, m, Len(q))[i] = q[j]
<1>1. SubSeq(q, m, Len(q)) \in Seq(S) /\ Len(SubSeq(q, m, Len(q))) = Len(q) - m + 1
  OBVIOUS
<1>2. ASSUME NEW i \in 1..Len(SubSeq(q, m, Len(q)))
      PROVE  SubSeq(q, m, Len(q))[i] = q[m + i - 1] /\ m + i - 1 \in 1..Len(q)
  BY <1>1
<1> QED BY <1>1, <1>2

\* The video queue is popped: what stays queued and what is taken was queued.
LEMMA PopFrameInv == ASSUME ClientInv, PopFrame PROVE ClientInv'
<1>1. /\ render.pc = "pop"
      /\ UNCHANGED <<server_vars, config, remote, local, gens, uploads, dirty, framebuffer, net, decode,
                     screen_vars>>
  BY Zenon DEF PopFrame
<1>2. UNCHANGED <<server, udp, stream, last_frame, config, remote, local, gens, uploads, dirty,
                  framebuffer, net, decode, surface, acks, newest>>
  BY <1>1, Zenon DEF server_vars, screen_vars
<1>3. render \in Pass /\ frames \in Seq(DecodedFrame) /\ FALSE \in BOOLEAN
  BY DEF ClientInv, ClientTypes
<1>4. ASSUME render' \in Pass, frames' \in Seq(DecodedFrame), render'.pc # "reset",
             render'.drained = render.drained, render'.video_valid = render.video_valid,
             render'.batch = render.batch, render'.video_epoch = render.video_epoch,
             render'.frame = render.frame \/ \E j \in 1..Len(frames) : render'.frame = frames[j],
             \A i \in 1..Len(frames') : \E j \in 1..Len(frames) : frames'[i] = frames[j]
      PROVE  ClientInv'
  <2>1. ClientTypes'
    BY <1>2, <1>4 DEF ClientInv, ClientTypes
  <2>2. PassOK
    BY <1>1, <1>2, <1>4 DEF PassOK, ClientInv, HeldAccepted
  <2>3. ~render.video_valid
    BY <1>1 DEF ClientInv, FrameShownNewest
  <2>4. FrameShownNewest' /\ ReportsCurrent' /\ AcksCurrent'
    BY <1>1, <1>2, <1>4, <2>3 DEF ClientInv, FrameShownNewest, ReportsCurrent, AcksCurrent
  <2> QED BY <2>1, <2>2, <2>4, PassStep
<1>5. CASE render' = [render EXCEPT !.pc = "tiles"] /\ frames' = frames
  <2>1. render' \in Pass
    BY <1>3, <1>5, SetPass, StageNames, Zenon
  <2>2. render'.pc = "tiles" /\ SameHold(render', render)
    BY <1>3, <1>5 DEF Pass, SameHold
  <2> QED BY <1>3, <1>4, <1>5, <2>1, <2>2 DEF SameHold
<1>6. ASSUME NEW late \in 0..Len(frames) - 1, frames' = SubSeq(frames, late + 1, Len(frames)),
             render' = [render EXCEPT !.pc = "check", !.remote_dirty = FALSE]
      PROVE  ClientInv'
  <2> DEFINE r1 == [render EXCEPT !.pc = "check"]
  <2>1. r1 \in Pass /\ render' = [r1 EXCEPT !.remote_dirty = FALSE]
    BY <1>3, <1>6, SetPass, StageNames, Zenon
  <2>2. render'.pc = "check" /\ SameHold(render', render)
    BY <1>3, <1>6 DEF Pass, SameHold
  <2> HIDE DEF r1
  <2>3. render' \in Pass
    BY <2>1, SetPass, Zenon
  <2>4. late + 1 \in 1..Len(frames) + 1
    BY <1>3
  <2>5. /\ frames' \in Seq(DecodedFrame)
        /\ \A i \in 1..Len(frames') : \E j \in 1..Len(frames) : frames'[i] = frames[j]
    BY <1>3, <1>6, <2>4, QueueSuffix
  <2> QED BY <1>4, <2>2, <2>3, <2>5 DEF SameHold
<1>7. ASSUME NEW late \in 0..Len(frames) - 1, frames' = SubSeq(frames, late + 2, Len(frames)),
             render' = [render EXCEPT !.pc = "current", !.frame = frames[late + 1]]
      PROVE  ClientInv'
  <2> DEFINE r1 == [render EXCEPT !.pc = "current"]
  <2>1. r1 \in Pass /\ render' = [r1 EXCEPT !.frame = frames[late + 1]]
    BY <1>3, <1>7, SetPass, StageNames, Zenon
  <2>2. late + 2 \in 1..Len(frames) + 1 /\ late + 1 \in 1..Len(frames)
        /\ frames[late + 1] \in DecodedFrame
    BY <1>3
  <2>3. /\ render'.pc = "current" /\ render'.frame = frames[late + 1]
        /\ render'.drained = render.drained /\ render'.video_valid = render.video_valid
        /\ render'.batch = render.batch /\ render'.video_epoch = render.video_epoch
    BY <1>3, <1>7 DEF Pass
  <2> HIDE DEF r1
  <2>4. render' \in Pass
    BY <2>1, <2>2, SetPass, Zenon
  <2>5. /\ frames' \in Seq(DecodedFrame)
        /\ \A i \in 1..Len(frames') : \E j \in 1..Len(frames) : frames'[i] = frames[j]
    BY <1>3, <1>7, <2>2, QueueSuffix, Zenon
  <2> QED BY <1>4, <2>2, <2>3, <2>4, <2>5
<1>8. \/ render' = [render EXCEPT !.pc = "tiles"] /\ frames' = frames
      \/ \E late \in 0..Len(frames) - 1 :
            \/ /\ frames' = SubSeq(frames, late + 1, Len(frames))
               /\ render' = [render EXCEPT !.pc = "check", !.remote_dirty = FALSE]
            \/ /\ frames' = SubSeq(frames, late + 2, Len(frames))
               /\ render' = [render EXCEPT !.pc = "current", !.frame = frames[late + 1]]
  BY Zenon DEF PopFrame, Render
<1> QED BY <1>5, <1>6, <1>7, <1>8, Zenon

\* client_tile_present_queue drained: the uploads are the render thread's now.
LEMMA DrainUploadsInv == ASSUME ClientInv, DrainUploads PROVE ClientInv'
<1> DEFINE stage == IF uploads = <<>> THEN "take" ELSE "direct"
           r1 == [render EXCEPT !.pc = stage]
<1>1. /\ render.pc = "drain" /\ uploads' = <<>> /\ render' = [r1 EXCEPT !.drained = uploads]
      /\ UNCHANGED <<server_vars, config, remote, local, gens, dirty, framebuffer, frames, net, decode,
                     screen_vars>>
  BY DEF DrainUploads, Render
<1>2. UNCHANGED <<server, udp, stream, last_frame, config, remote, local, gens, dirty,
                  framebuffer, frames, net, decode, surface, acks, newest>>
  BY <1>1, Zenon DEF server_vars, screen_vars
<1>3. render \in Pass /\ uploads \in Seq(Upload) /\ stage \in RenderStages \ {"reset"}
  BY DEF ClientInv, ClientTypes, RenderStages
<1> HIDE DEF stage
<1>4. r1 \in Pass
  BY <1>3, SetPass, Zenon
<1>5. /\ render'.pc = stage /\ render'.frame = render.frame /\ render'.drained = uploads
      /\ render'.video_valid = render.video_valid
      /\ render'.batch = render.batch /\ render'.video_epoch = render.video_epoch
  BY <1>1, <1>3 DEF Pass
<1> HIDE DEF r1
<1>6. render' \in Pass
  BY <1>1, <1>3, <1>4, SetPass, Zenon
<1>7. ClientTypes'
  BY <1>1, <1>2, <1>6 DEF ClientInv, ClientTypes
<1>8. PassOK
  BY <1>1, <1>2, <1>3, <1>5 DEF PassOK, ClientInv, HeldAccepted
<1>9. ~render.video_valid
  BY <1>1 DEF ClientInv, FrameShownNewest
<1>10. FrameShownNewest' /\ ReportsCurrent' /\ AcksCurrent'
  BY <1>1, <1>2, <1>5, <1>9 DEF ClientInv, FrameShownNewest, ReportsCurrent, AcksCurrent
<1> QED BY <1>7, <1>8, <1>10, PassStep

\* upload_completed_tiles_direct: what reaches the texture was queued.
LEMMA ApplyUploadInv == ASSUME ClientInv, ApplyUpload, render.drained # <<>> PROVE ClientInv'
<1> DEFINE u == Head(render.drained)
           rest == Tail(render.drained)
           matches == u.own = render.own.epoch /\ render.own.owner = "TILES"
           Drawn(f) == [t \in Tiles |-> IF matches /\ t \in u.rect
                                          THEN [epoch |-> u.epoch, gen |-> u.gen] ELSE f[t]]
           drawn == IF matches THEN render.drawn \cup u.rect ELSE render.drawn
           stage == IF rest # <<>> THEN "apply" ELSE IF drawn # {} THEN "own" ELSE "take"
           r1 == [render EXCEPT !.drained = rest]
           r2 == [r1 EXCEPT !.drawn = drawn]
           r3 == [r2 EXCEPT !.pc = stage]
<1>1. /\ render.pc = "apply" /\ surface' = [surface EXCEPT !.tile = Drawn(surface.tile)]
      /\ framebuffer' = Drawn(framebuffer) /\ render' = r3
      /\ UNCHANGED <<server_vars, config, remote, local, gens, uploads, dirty, frames, net, decode, acks,
                     newest>>
  BY DEF ApplyUpload, Render
<1>2. UNCHANGED <<server, udp, stream, last_frame, config, remote, local, gens, uploads, dirty,
                  frames, net, decode, acks, newest>>
  BY <1>1, Zenon DEF server_vars
<1>3. /\ render \in Pass /\ surface \in Surface /\ framebuffer \in [Tiles -> Pixel]
      /\ surface.tile \in [Tiles -> Pixel] /\ render.drained \in Seq(Upload)
      /\ render.drawn \in SUBSET Tiles /\ remote.epoch \in Nat
  BY Zenon DEF ClientInv, ClientTypes, Pass, Surface, Fence
<1>4. /\ u \in Upload /\ rest \in Seq(Upload) /\ u = render.drained[1] /\ 1 \in 1..Len(render.drained)
      /\ \A i \in 1..Len(rest) : i + 1 \in 1..Len(render.drained) /\ rest[i] = render.drained[i + 1]
  BY <1>3
<1>5. u.epoch <= remote.epoch /\ \A i \in 1..Len(rest) : rest[i].epoch <= remote.epoch
  BY <1>4 DEF ClientInv, HeldAccepted
<1>6. u.epoch \in Nat /\ u.gen \in Nat /\ u.rect \in SUBSET Tiles
  BY <1>4, Zenon DEF Upload
<1> HIDE DEF u, rest
<1>7. ASSUME NEW f \in [Tiles -> Pixel], \A t \in Tiles : f[t].epoch <= remote.epoch
      PROVE  Drawn(f) \in [Tiles -> Pixel] /\ \A t \in Tiles : Drawn(f)[t].epoch <= remote.epoch
  BY <1>5, <1>6, <1>7 DEF Pixel
<1>8. drawn \in SUBSET Tiles /\ stage \in RenderStages \ {"reset"}
  BY <1>3, <1>6 DEF RenderStages
<1>9. /\ \A t \in Tiles : framebuffer[t].epoch <= remote.epoch
      /\ \A t \in Tiles : surface.tile[t].epoch <= remote.epoch
  BY DEF ClientInv, HeldAccepted
<1>10. /\ Drawn(framebuffer) \in [Tiles -> Pixel] /\ Drawn(surface.tile) \in [Tiles -> Pixel]
       /\ \A t \in Tiles : Drawn(framebuffer)[t].epoch <= remote.epoch
       /\ \A t \in Tiles : Drawn(surface.tile)[t].epoch <= remote.epoch
  BY <1>3, <1>7, <1>9
<1> HIDE DEF matches, Drawn, drawn, stage
<1>11. surface' \in Surface /\ surface'.tile = Drawn(surface.tile) /\ surface'.video = surface.video
  BY <1>1, <1>3, <1>10 DEF Surface
<1>12. r1 \in Pass
  BY <1>3, <1>4, SetPass, Zenon
<1>13. /\ r3.pc = stage /\ r3.frame = render.frame /\ r3.drained = rest
       /\ r3.video_valid = render.video_valid
       /\ r3.batch = render.batch /\ r3.video_epoch = render.video_epoch
  BY <1>3 DEF Pass
<1> HIDE DEF r1
<1>14. r2 \in Pass
  BY <1>8, <1>12, SetPass, Zenon
<1> HIDE DEF r2
<1>15. r3 \in Pass
  BY <1>8, <1>14, SetPass, Zenon
<1> HIDE DEF r3
<1>16. ClientTypes'
  BY <1>1, <1>2, <1>10, <1>11, <1>15 DEF ClientInv, ClientTypes
<1>17. PassOK
  BY <1>1, <1>2, <1>5, <1>8, <1>10, <1>11, <1>13 DEF PassOK, ClientInv, HeldAccepted
<1>18. ~render.video_valid
  BY <1>1 DEF ClientInv, FrameShownNewest
<1>19. FrameShownNewest' /\ ReportsCurrent' /\ AcksCurrent'
  BY <1>1, <1>2, <1>13, <1>18 DEF ClientInv, FrameShownNewest, ReportsCurrent, AcksCurrent
<1> QED BY <1>16, <1>17, <1>19, PassStep

-----------------------------------------------------------------------------
(* A configuration is installed.                                           *)

\* What the server keeps, field by field.
LEMMA SetServer ==
    ASSUME NEW s \in Server
    PROVE  /\ \A x \in Nat : [s EXCEPT !.epoch = x] \in Server
           /\ \A x \in Owners : [s EXCEPT !.owner = x] \in Server
           /\ \A x \in [Tiles -> Nat] : [s EXCEPT !.gen = x] \in Server
           /\ \A x \in Nat : [s EXCEPT !.config = x] \in Server
           /\ \A x \in BOOLEAN : [s EXCEPT !.config_pending = x] \in Server
           /\ \A x \in Seq(Configuration) : [s EXCEPT !.control = x] \in Server
           /\ \A x \in {"open", "closing", "closed"} : [s EXCEPT !.channel = x] \in Server
<1>1. \A x \in Nat : [s EXCEPT !.epoch = x] \in Server
  BY DEF Server
<1>2. \A x \in Owners : [s EXCEPT !.owner = x] \in Server
  BY DEF Server
<1>3. \A x \in [Tiles -> Nat] : [s EXCEPT !.gen = x] \in Server
  BY Zenon DEF Server
<1>4. \A x \in Nat : [s EXCEPT !.config = x] \in Server
  BY DEF Server
<1>5. \A x \in BOOLEAN : [s EXCEPT !.config_pending = x] \in Server
  BY DEF Server
<1>6. \A x \in Seq(Configuration) : [s EXCEPT !.control = x] \in Server
  BY Zenon DEF Server
<1>7. \A x \in {"open", "closing", "closed"} : [s EXCEPT !.channel = x] \in Server
  BY DEF Server
<1> QED BY <1>1, <1>2, <1>3, <1>4, <1>5, <1>6, <1>7

\* Empty tables.
LEMMA Empty ==
    /\ Zero \in [Tiles -> Nat] /\ [t \in Tiles |-> Blank] \in [Tiles -> Pixel]
    /\ Blank.epoch = 0 /\ NoConfig.id = 0 /\ NoConfig.epoch = 0 /\ NoConfig \in Configuration
    /\ NoFrame \in DecodedFrame /\ NoFrame.epoch = 0 /\ NoFrame.own = 0
    /\ NoPacket \in Packet /\ NoPacket.epoch = 0
BY DEF Zero, Blank, Pixel, NoConfig, Configuration, NoFrame, DecodedFrame, NoPacket, Packet

\* What the client holds is numbered.
LEMMA HeldTypes ==
    ASSUME ClientInv
    PROVE  /\ \A i \in 1..Len(stream) : stream[i] \in VideoMessage
           /\ \A i \in 1..Len(frames) : frames[i] \in DecodedFrame
           /\ \A i \in 1..Len(uploads) : uploads[i] \in Upload
           /\ \A i \in 1..Len(render.drained) : render.drained[i] \in Upload
           /\ \A t \in Tiles : framebuffer[t] \in Pixel /\ surface.tile[t] \in Pixel
           /\ surface.video \in DecodedFrame /\ render.frame \in DecodedFrame
           /\ net.tile \in Packet /\ decode.frame \in DecodedFrame /\ newest \in Nat
           /\ remote.epoch \in Nat /\ local.epoch \in Nat /\ server.epoch \in Nat
           /\ server.config \in Nat /\ config.applied \in Configuration
           /\ config.pending \in Configuration
           /\ \A i \in 1..Len(server.control) : server.control[i] \in Configuration
<1>1. /\ \A i \in 1..Len(stream) : stream[i] \in VideoMessage
      /\ \A i \in 1..Len(frames) : frames[i] \in DecodedFrame
      /\ \A i \in 1..Len(uploads) : uploads[i] \in Upload
  BY DEF ClientInv, ClientTypes
<1>2. /\ render.drained \in Seq(Upload) /\ server.control \in Seq(Configuration)
      /\ surface.tile \in [Tiles -> Pixel] /\ framebuffer \in [Tiles -> Pixel]
      /\ surface.video \in DecodedFrame /\ render.frame \in DecodedFrame
      /\ net.tile \in Packet /\ decode.frame \in DecodedFrame /\ newest \in Nat
      /\ remote.epoch \in Nat /\ local.epoch \in Nat /\ server.epoch \in Nat
      /\ server.config \in Nat /\ config.applied \in Configuration
      /\ config.pending \in Configuration
  BY Zenon DEF ClientInv, ClientTypes, Pass, Surface, Fence, Server
<1> QED BY <1>1, <1>2

\* The state the configuration that waits is in.
LEMMA PendingNewest ==
    ASSUME ClientInv, config.pending # NoConfig
    PROVE  /\ server.config_pending /\ server.owner = "TILES" /\ server.control = <<>>
           /\ config.pending = Newest /\ render.pc # "reset"
BY DEF ClientInv, ConfigUnderWay

\* apply_pending_server_config.
LEMMA SwapConfigInv == ASSUME ClientInv, SwapConfig PROVE ClientInv'
<1>1. /\ render.pc = "top" /\ config.pending # NoConfig
      /\ config' = [applied |-> config.pending, pending |-> NoConfig]
      /\ framebuffer' = [t \in Tiles |-> Blank] /\ dirty' = [tiles |-> {}, epoch |-> 0]
      /\ uploads' = <<>>
      /\ gens' = [received |-> Zero, pending |-> Zero, presented |-> Zero,
                  telemetry |-> [t \in Tiles |-> Blank], rx_epoch |-> Zero]
      /\ render' = [render EXCEPT !.pc = "reset"]
      /\ UNCHANGED <<server, udp, stream, last_frame, remote, local, frames, net, decode, surface,
                     acks, newest>>
  BY Zenon DEF SwapConfig, server_vars, screen_vars
<1>2. /\ server.config_pending /\ server.owner = "TILES" /\ server.control = <<>>
      /\ config.pending = Newest
  BY <1>1, PendingNewest
<1>3. /\ render \in Pass /\ remote.epoch \in Nat /\ server.config \in Nat /\ server.epoch \in Nat
      /\ stream \in Seq(VideoMessage) /\ decode.frame.config \in Nat /\ config.pending \in Configuration
  BY DEF ClientInv, ClientTypes, Fence, Server, DecodedFrame
<1>4. /\ render' \in Pass /\ render'.pc = "reset" /\ render'.frame = render.frame
      /\ render'.drained = render.drained /\ render'.video_valid = render.video_valid
  <2>1. render' \in Pass
    BY <1>1, <1>3, SetPass, StageNames, Zenon
  <2> QED BY <1>1, <1>3, <2>1, Zenon DEF Pass
<1>5. gens' \in Generations /\ dirty' \in [tiles : SUBSET Tiles, epoch : Nat]
  BY <1>1, Empty DEF Generations
<1>6. /\ config'.applied = Newest /\ config'.pending = NoConfig
      /\ config' \in [applied : Configuration, pending : Configuration]
  BY <1>1, <1>2, <1>3, Empty
<1>7. Newest' = Newest /\ Newest.epoch = server.epoch /\ Newest.id = server.config
  BY <1>1 DEF Newest
<1> HIDE DEF Newest
<1>8. ClientTypes'
  BY <1>1, <1>4, <1>5, <1>6, Empty DEF ClientInv, ClientTypes
<1>9. ConfigUnderWay'
  BY <1>1, <1>2, <1>4, <1>6, <1>7 DEF ConfigUnderWay
<1>10. EpochsOrdered'
  BY <1>1, <1>3, <1>4, <1>6, <1>7 DEF ClientInv, EpochsOrdered
<1>11. VideoOfConfig'
  <2>1. \A i \in 1..Len(stream) : Before(stream[i], Newest) /\ stream[i].config \in Nat
    <3>1. \A i \in 1..Len(stream) : Before(stream[i], config.pending)
      BY DEF ClientInv, VideoOfConfig
    <3>2. \A i \in 1..Len(stream) : stream[i].config \in Nat
      BY HeldTypes DEF VideoMessage
    <3> QED BY <1>2, <3>1, <3>2
  <2>2. decode.pc # "idle" => /\ Before(decode.frame, Newest) /\ decode.frame.config <= server.config
                              /\ decode.frame.epoch <= server.epoch
    BY <1>2 DEF ClientInv, VideoOfConfig
  <2>3. \A f : f.config \in Nat => Before(f, NoConfig)
    BY Empty DEF Before
  <2>4. \A i \in 1..Len(stream) : Before(stream[i], Newest) /\ Before(stream[i], NoConfig)
    BY <2>1, <2>3
  <2>5. Before(decode.frame, NoConfig)
    BY <1>3, <2>3
  <2>6. Len(server.control) = 0
    BY <1>2
  <2>7. (decode.pc # "idle")' => decode.frame.config <= Newest.id
    BY <1>1, <1>7, <2>2
  <2> QED BY <1>1, <1>2, <1>6, <2>2, <2>4, <2>5, <2>6, <2>7 DEF VideoOfConfig, Before
<1>12. HeldAccepted'
  BY <1>1, <1>3, <1>4, Empty DEF ClientInv, HeldAccepted
<1>13. FramesFenced'
  BY <1>1, <1>4 DEF ClientInv, FramesFenced, Fenced
<1>14. FrameShownNewest'
  BY <1>1, <1>4 DEF ClientInv, FrameShownNewest
<1>15. ReportsCurrent' /\ FramesFit' /\ AcksCurrent' /\ GensBounded'
  BY <1>1, <1>4 DEF ClientInv, ReportsCurrent, FramesFit, AcksCurrent, GensBounded
<1> QED BY <1>8, <1>9, <1>10, <1>11, <1>12, <1>13, <1>14, <1>15 DEF ClientInv

\* client_reset_content_epoch and the textures of the new configuration.
LEMMA ResetForConfigInv == ASSUME ClientInv, ResetForConfig PROVE ClientInv'
<1> DEFINE pending == IF config.applied.id = server.config THEN FALSE ELSE server.config_pending
<1>1. /\ render.pc = "reset"
      /\ local' = [epoch |-> local.epoch + 1, owner |-> "TILES"]
      /\ dirty' = [tiles |-> {}, epoch |-> local.epoch + 1]
      /\ frames' = <<>>
      /\ gens' = [gens EXCEPT !.pending = Zero, !.telemetry = [t \in Tiles |-> Blank]]
      /\ remote' = [epoch |-> config.applied.epoch, owner |-> "TILES"]
      /\ acks' = [tile |-> 0, video |-> 0]
      /\ surface' = [tile |-> [t \in Tiles |-> Blank], video |-> NoFrame, active |-> "fallback",
                     fallback |-> TRUE]
      /\ server' = [server EXCEPT !.config_pending = pending]
      /\ render' = [IdleRender EXCEPT !.needs_full = TRUE, !.frame_dirty = TRUE]
      /\ UNCHANGED <<udp, stream, last_frame, config, uploads, framebuffer, net, decode, newest>>
  BY Zenon DEF ResetForConfig, ResetPendingContent, Advance
<1>2. /\ server.config_pending /\ server.owner = "TILES" /\ server.control = <<>>
      /\ config.pending = NoConfig /\ config.applied = Newest
  BY <1>1 DEF ClientInv, ConfigUnderWay
<1>3. /\ server \in Server /\ gens \in Generations /\ remote \in Fence /\ local \in Fence
      /\ config.applied.epoch = server.epoch /\ config.applied.id = server.config
      /\ server.epoch \in Nat /\ server.config \in Nat /\ local.epoch \in Nat /\ remote.epoch \in Nat
      /\ remote.epoch <= server.epoch
  BY <1>2 DEF ClientInv, ClientTypes, Newest, Server, Fence, EpochsOrdered
<1>4. pending = FALSE
  BY <1>3
<1> HIDE DEF pending
<1>5. /\ server' \in Server /\ ~server'.config_pending /\ server'.epoch = server.epoch
      /\ server'.config = server.config /\ server'.control = <<>> /\ server'.gen = server.gen
      /\ server'.scenario = server.scenario
  <2>1. server' \in Server
    BY <1>1, <1>3, <1>4, SetServer, Zenon
  <2> QED BY <1>1, <1>2, <1>3, <1>4, <2>1, Zenon DEF Server
<1>6. /\ render' \in Pass /\ render'.pc = "top" /\ render'.frame = NoFrame
      /\ render'.drained = <<>> /\ ~render'.video_valid
      /\ render'.batch = 0 /\ render'.video_epoch = 0
  BY <1>1, EndOfPass, Zenon
<1>7. gens' \in Generations
  <2> DEFINE g1 == [gens EXCEPT !.pending = Zero]
  <2>1. g1 \in Generations /\ gens' = [g1 EXCEPT !.telemetry = [t \in Tiles |-> Blank]]
    BY <1>1, <1>3, Empty, SetGenerations
  <2> HIDE DEF g1
  <2> QED BY <2>1, Empty, SetGenerations, Zenon
<1>8. /\ remote' \in Fence /\ remote'.epoch = server.epoch /\ local' \in Fence
      /\ local'.epoch = local.epoch + 1 /\ surface' \in Surface
      /\ acks' \in [tile : Nat, video : Nat] /\ acks'.tile = 0 /\ acks'.video = 0
      /\ dirty' \in [tiles : SUBSET Tiles, epoch : Nat]
  BY <1>1, <1>3, Empty DEF Fence, Owners, Surface
<1>9. ClientTypes'
  BY <1>1, <1>5, <1>6, <1>7, <1>8 DEF ClientInv, ClientTypes
<1>10. ConfigUnderWay'
  BY <1>1, <1>2, <1>3, <1>5, <1>6 DEF ConfigUnderWay
<1>11. EpochsOrdered'
  BY <1>1, <1>3, <1>5, <1>8 DEF ClientInv, EpochsOrdered
<1>12. VideoOfConfig'
  <2>1. Len(server'.control) = 0
    BY <1>5
  <2> QED BY <1>1, <1>5, <2>1 DEF ClientInv, VideoOfConfig, Before
<1>13. HeldAccepted'
  <2>1. /\ net'.tile.epoch <= remote'.epoch /\ newest' <= remote'.epoch
    BY <1>1, <1>3, <1>8, HeldTypes DEF ClientInv, HeldAccepted, Packet
  <2>2. \A i \in 1..Len(uploads') : uploads'[i].epoch <= remote'.epoch
    BY <1>1, <1>3, <1>8, HeldTypes DEF ClientInv, HeldAccepted, Upload
  <2>3. \A t \in Tiles : framebuffer'[t].epoch <= remote'.epoch
    BY <1>1, <1>3, <1>8, HeldTypes DEF ClientInv, HeldAccepted, Pixel
  <2>4. \A t \in Tiles : surface'.tile[t].epoch <= remote'.epoch
    BY <1>1, <1>3, <1>8, Empty
  <2>5. surface'.video.epoch <= remote'.epoch /\ render'.frame.epoch <= remote'.epoch
    BY <1>1, <1>3, <1>6, <1>8, Empty
  <2>6. frames' = <<>> /\ render'.drained = <<>>
    BY <1>1, <1>6
  <2> QED BY <2>1, <2>2, <2>3, <2>4, <2>5, <2>6 DEF HeldAccepted
<1>14. FramesFenced'
  BY <1>1, <1>3, <1>6, <1>8, Empty DEF FramesFenced, Fenced
<1>15. FrameShownNewest' /\ ReportsCurrent' /\ AcksCurrent'
  BY <1>6, <1>8 DEF FrameShownNewest, ReportsCurrent, AcksCurrent
<1>16. FramesFit' /\ GensBounded'
  BY <1>1, <1>5 DEF ClientInv, FramesFit, GensBounded
<1> QED BY <1>9, <1>10, <1>11, <1>12, <1>13, <1>14, <1>15, <1>16 DEF ClientInv

=============================================================================
