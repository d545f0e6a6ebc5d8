------------------------- MODULE OwnershipTheorems --------------------------
(***************************************************************************)
(* The streaming pipeline implements DisplayOwnership: OwnershipInv is     *)
(* inductive, and under it every step of the pipeline is a step of the     *)
(* abstract specification or leaves its variables alone.                   *)
(***************************************************************************)
EXTENDS StreamServerTheorems

\* Discarding marks the running job obsolete and leaves the rest of it alone
\* (wd_stream_video_worker_discard_locked).
LEMMA DiscardedFields ==
    ASSUME NEW a \in ActiveJob
    PROVE  LET d == Discarded(a)
           IN  /\ d.stage = a.stage /\ d.job = a.job /\ d.frame_id = a.frame_id
               /\ d.stage # "idle" => d.discarded
BY DEF Discarded, ActiveJob

\* Once wd_stream_video_worker_main has finished a job, none is running.
LEMMA NoActiveJobIdle == NoActiveJob.stage = "idle"
BY DEF NoActiveJob

\* A step that leaves epoch, owner, worker, encoder and last frame alone.
LEMMA QuietInv ==
    ASSUME TypeOK, OwnershipInv,
           UNCHANGED <<content_epoch, pending_job, active_job, encoder, last_frame>>,
           Owned' = Owned,
           session' # "up" => Mode' = "TILES" /\ ~video_channel'
    PROVE  OwnershipInv'
BY DEF OwnershipInv, JobOfOwner, EncodedFrameCurrent, LastFrameOwned

\* A step to a new epoch outdates all that the video worker holds.
LEMMA BumpInv ==
    ASSUME TypeOK, TypeOK', OwnershipInv,
           content_epoch' > content_epoch,
           pending_job' \in {pending_job, NoJob},
           active_job' \in {active_job, Discarded(active_job), NoActiveJob},
           last_frame' = last_frame,
           session' # "up" => Mode' = "TILES" /\ ~video_channel'
    PROVE  OwnershipInv'
<1>1. \A job \in Job : JobOfOwner(job) => job.source_content_epoch < content_epoch'
  BY DEF JobOfOwner, TypeOK, Job
<1>2. pending_job' # NoJob => pending_job'.source_content_epoch < content_epoch'
  BY <1>1 DEF OwnershipInv, TypeOK
<1>3. active_job'.stage # "idle" => active_job'.job.source_content_epoch < content_epoch'
  <2>1. active_job.stage # "idle" => active_job.job.source_content_epoch < content_epoch'
    BY <1>1 DEF OwnershipInv, TypeOK, ActiveJob
  <2> QED BY <2>1, DiscardedFields, NoActiveJobIdle DEF TypeOK
<1>4. last_frame'.epoch < content_epoch'
  BY DEF OwnershipInv, LastFrameOwned, TypeOK, VideoFrame
<1>5. (pending_job # NoJob => JobOfOwner(pending_job))'
  BY <1>2 DEF JobOfOwner, TypeOK, Job
<1>6. (active_job.stage # "idle" => JobOfOwner(active_job.job))'
  BY <1>3 DEF JobOfOwner, TypeOK, ActiveJob, Job
<1>7. EncodedFrameCurrent'
  BY <1>3 DEF EncodedFrameCurrent, TypeOK, ActiveJob, Job
<1>8. LastFrameOwned'
  BY <1>4 DEF LastFrameOwned, TypeOK, VideoFrame
<1>9. active_job'.stage = "encoding" => active_job'.frame_id = 0
  BY DiscardedFields, NoActiveJobIdle DEF OwnershipInv, TypeOK
<1> QED BY <1>5, <1>6, <1>7, <1>8, <1>9 DEF OwnershipInv

\* A reset while tiles own the display keeps the epoch and outdates the job.
LEMMA TileResetInv ==
    ASSUME TypeOK, TypeOK', OwnershipInv, ~Owned, ~Owned',
           content_epoch' = content_epoch,
           pending_job' = NoJob,
           active_job' \in {Discarded(active_job), NoActiveJob},
           last_frame' = last_frame,
           session' # "up" => Mode' = "TILES" /\ ~video_channel'
    PROVE  OwnershipInv'
<1>1. (active_job.stage # "idle" => JobOfOwner(active_job.job))'
  <2>1. active_job'.stage # "idle" => active_job.stage # "idle" /\ active_job'.job = active_job.job
    BY DiscardedFields, NoActiveJobIdle DEF TypeOK
  <2> QED BY <2>1 DEF OwnershipInv, JobOfOwner
<1>2. EncodedFrameCurrent'
  BY DiscardedFields, NoActiveJobIdle DEF EncodedFrameCurrent, TypeOK
<1>3. LastFrameOwned'
  BY DEF OwnershipInv, LastFrameOwned
<1>4. active_job'.stage = "encoding" => active_job'.frame_id = 0
  BY DiscardedFields, NoActiveJobIdle DEF OwnershipInv, TypeOK
<1> QED BY <1>1, <1>2, <1>3, <1>4 DEF OwnershipInv

\* Neither TILES nor TILE_RECOVERY is a mode in which the video owns the display.
LEMMA NotOwnedModes == ~VideoOwnsDisplay("TILES") /\ ~VideoOwnsDisplay("TILE_RECOVERY")
BY DEF VideoOwnsDisplay

\* wd_stream_video_reset_locked moves the content epoch whenever the video owned the
\* display or the reset is a resize, and hands the display to the tiles.
LEMMA VideoResetEpoch ==
    ASSUME TypeOK, NEW epoch \in {content_epoch, content_epoch + 1},
           NEW connected \in BOOLEAN, NEW resize \in BOOLEAN,
           VideoReset(epoch, connected, resize)
    PROVE  /\ content_epoch' > content_epoch \/ (content_epoch' = content_epoch /\ ~Owned)
           /\ resize => content_epoch' > content_epoch
           /\ ~Owned'
           /\ ~connected => Mode' = "TILES"
<1>1. /\ content_epoch' > content_epoch \/ (content_epoch' = content_epoch /\ ~Owned)
      /\ resize => content_epoch' > content_epoch
  BY DEF VideoReset, TypeOK
<1>2. policy'.stream_mode \in {"TILES"} \cup (IF connected THEN {"TILE_RECOVERY"} ELSE {})
  <2>1. epoch \in Nat
    BY DEF TypeOK
  <2> QED BY <2>1, VideoResetType
<1> QED BY <1>1, <1>2, NotOwnedModes DEF Owned, Mode

\* After wd_stream_video_reset_locked no job of the old epoch can still be published.
LEMMA VideoResetInv ==
    ASSUME TypeOK, TypeOK', OwnershipInv, NEW epoch \in {content_epoch, content_epoch + 1},
           NEW connected \in BOOLEAN, NEW resize \in BOOLEAN,
           VideoReset(epoch, connected, resize),
           active_job' \in {Discarded(active_job), NoActiveJob},
           last_frame' = last_frame,
           session' # "up" => ~connected /\ ~video_channel'
    PROVE  OwnershipInv'
<1>1. /\ content_epoch' > content_epoch \/ (content_epoch' = content_epoch /\ ~Owned)
      /\ ~Owned'
      /\ session' # "up" => Mode' = "TILES" /\ ~video_channel'
  BY VideoResetEpoch
<1>2. pending_job' = NoJob
  BY DEF VideoReset
<1>3. CASE content_epoch' > content_epoch
  BY <1>1, <1>2, <1>3, BumpInv
<1>4. CASE content_epoch' = content_epoch /\ ~Owned
  BY <1>1, <1>2, <1>4, TileResetInv
<1> QED BY <1>1, <1>3, <1>4

-----------------------------------------------------------------------------
(* Steps of the pipeline as steps of DisplayOwnership. *)

\* A step that queues nothing.
LEMMA KeptStep ==
    ASSUME TypeOK, TypeOK',
           content_epoch' >= content_epoch,
           content_epoch' = content_epoch => Owned' = Owned,
           video_tx' \in {video_tx, <<>>} \cup (IF video_tx = <<>> THEN {} ELSE {Tail(video_tx), <<Head(video_tx)>>}),
           last_frame' = last_frame
    PROVE  Ownership!OwnershipNext
<1>1. Ownership!EpochStep
  <2>1. Owned' \in BOOLEAN
    BY DEF Owned, VideoOwnsDisplay
  <2> QED BY <2>1 DEF Ownership!EpochStep, TypeOK
<1>2. video_tx' \in Ownership!Remainders
  BY DEF Ownership!Remainders
<1> QED BY <1>1, <1>2 DEF Ownership!OwnershipNext

\* A step that queues frame f behind what is kept.
LEMMA FrameStep ==
    ASSUME TypeOK, TypeOK',
           content_epoch' >= content_epoch,
           content_epoch' = content_epoch => Owned' = Owned,
           NEW kept \in {video_tx, <<>>} \cup (IF video_tx = <<>> THEN {} ELSE {Tail(video_tx), <<Head(video_tx)>>}),
           NEW f \in VideoFrame,
           video_tx' = Append(kept, f),
           f.epoch = content_epoch',
           Owned' = (f.frame_id # 0),
           IF f.frame_id = 0 THEN last_frame' = last_frame
           ELSE last_frame' = f /\ Ownership!Follows(f, last_frame)
    PROVE  Ownership!OwnershipNext
<1>1. Ownership!EpochStep
  <2>1. Owned' \in BOOLEAN
    BY DEF Owned, VideoOwnsDisplay
  <2> QED BY <2>1 DEF Ownership!EpochStep, TypeOK
<1>2. kept \in Ownership!Remainders
  BY DEF Ownership!Remainders
<1>3. kept \in Seq(VideoFrame)
  <2>1. CASE video_tx # <<>>
    <3>1. Head(video_tx) \in VideoFrame /\ Tail(video_tx) \in Seq(VideoFrame)
      BY <2>1 DEF TypeOK
    <3> QED BY <3>1 DEF TypeOK
  <2>2. CASE video_tx = <<>>
    BY <2>2 DEF TypeOK
  <2> QED BY <2>1, <2>2
<1>4. Len(video_tx') = Len(kept) + 1 /\ video_tx'[Len(video_tx')] = f
  BY <1>3
<1>5. Ownership!FrameQueued(kept, f)
  BY DEF Ownership!FrameQueued, Ownership!Frame, VideoFrame
<1> QED BY <1>1, <1>2, <1>4, <1>5 DEF Ownership!OwnershipNext

\* What wd_stream_video_reset_locked leaves on the video channel is allowed: at most the
\* head in flight, and an end-of-stream frame of the new epoch.
LEMMA VideoResetStep ==
    ASSUME TypeOK, TypeOK', NEW epoch \in {content_epoch, content_epoch + 1},
           NEW connected \in BOOLEAN, NEW resize \in BOOLEAN,
           VideoReset(epoch, connected, resize),
           last_frame' = last_frame
    PROVE  Ownership!OwnershipNext
<1>1. /\ content_epoch' > content_epoch \/ (content_epoch' = content_epoch /\ ~Owned)
      /\ ~Owned'
  BY VideoResetEpoch
<1>2. /\ content_epoch' >= content_epoch
      /\ content_epoch' = content_epoch => Owned' = Owned
  BY <1>1 DEF TypeOK, Owned, VideoOwnsDisplay
<1>3. PICK kept \in AfterDrop(video_tx) :
         video_tx' \in IF resize THEN ControlFrameQueued(kept, content_epoch') ELSE {kept}
  BY DEF VideoReset
<1> DEFINE f == [epoch |-> content_epoch', frame_id |-> 0]
<1>4. kept \in {video_tx, <<>>} \cup (IF video_tx = <<>> THEN {} ELSE {Tail(video_tx), <<Head(video_tx)>>})
  BY <1>3 DEF AfterDrop
<1>5. CASE video_tx' = kept
  BY <1>2, <1>4, <1>5, KeptStep
<1>6. CASE video_tx' = Append(kept, f)
  <2>1. f \in VideoFrame /\ f.epoch = content_epoch' /\ f.frame_id = 0
    BY DEF VideoFrame, TypeOK
  <2> HIDE DEF f
  <2>2. Owned' = (f.frame_id # 0)
    BY <1>1, <2>1 DEF Owned, VideoOwnsDisplay
  <2> QED BY <1>2, <1>4, <1>6, <2>1, <2>2, FrameStep
<1> QED BY <1>3, <1>5, <1>6 DEF ControlFrameQueued

-----------------------------------------------------------------------------
(* Each thread keeps the invariant and implements the abstract step. *)

\* What is to be shown of every step.
OwnershipStep == OwnershipInv' /\ Ownership!OwnershipNext

\* A step that leaves the stream and its owner alone keeps the promise.
LEMMA QuietStep ==
    ASSUME TypeOK, TypeOK', OwnershipInv,
           UNCHANGED <<content_epoch, pending_job, active_job, encoder, video_tx, last_frame>>,
           Owned' = Owned,
           session' # "up" => Mode' = "TILES" /\ ~video_channel'
    PROVE  OwnershipStep
<1>1. OwnershipInv'
  BY QuietInv
<1>2. content_epoch' >= content_epoch
  BY DEF TypeOK
<1>3. Ownership!OwnershipNext
  BY <1>2, KeptStep
<1> QED BY <1>1, <1>3 DEF OwnershipStep

\* The same for a step that does not touch the session or the policy's mode.
LEMMA QuietThread ==
    ASSUME TypeOK, TypeOK', OwnershipInv,
           UNCHANGED <<session, video_channel, content_epoch, pending_job, active_job, encoder,
                       video_tx, last_frame>>,
           policy'.stream_mode = policy.stream_mode
    PROVE  OwnershipStep
<1>1. Mode' = Mode /\ Owned' = Owned
  BY DEF Mode, Owned
<1>2. session' # "up" => Mode' = "TILES" /\ ~video_channel'
  BY <1>1 DEF OwnershipInv
<1> QED BY <1>1, <1>2, QuietStep

\* A reset of the video path keeps the promise.
LEMMA VideoResetKeeps ==
    ASSUME TypeOK, TypeOK', OwnershipInv, NEW epoch \in {content_epoch, content_epoch + 1},
           NEW connected \in BOOLEAN, NEW resize \in BOOLEAN,
           VideoReset(epoch, connected, resize),
           active_job' \in {Discarded(active_job), NoActiveJob},
           last_frame' = last_frame,
           session' # "up" => ~connected /\ ~video_channel'
    PROVE  OwnershipStep
<1>1. OwnershipInv'
  BY VideoResetInv
<1>2. Ownership!OwnershipNext
  BY VideoResetStep
<1> QED BY <1>1, <1>2 DEF OwnershipStep

\* Every handler of the network thread keeps the promise: negotiation, publication,
\* disconnection, loss of the video channel, CONFIG_APPLIED and VIDEO_FEEDBACK.
LEMMA NetworkOwnership ==
    ASSUME TypeOK, TypeOK', OwnershipInv, Network
    PROVE  OwnershipStep
<1> USE DEF session_vars, epoch_vars, worker_vars, video_vars, refresh_vars, pixel_vars
<1>1. ASSUME NEW mode \in SessionVideoModes, NEW video_capable \in BOOLEAN,
             Negotiate(mode, video_capable)
      PROVE  OwnershipStep
  <2>1. /\ content_epoch' = content_epoch + 1 /\ session = "down"
        /\ policy' = BeginSession(mode, video_capable, content_epoch + 1)
        /\ UNCHANGED <<video_channel, pending_job, active_job, encoder, video_tx, last_frame>>
    BY <1>1, Zenon DEF Negotiate
  <2>2. mode \in VideoModes /\ content_epoch + 1 \in Nat
    BY StreamServerAssumption DEF TypeOK
  <2>3. Mode' = "TILES" /\ ~video_channel'
    BY <2>1, <2>2, BeginSessionType DEF Mode, OwnershipInv
  <2>4. content_epoch' > content_epoch /\ content_epoch' >= content_epoch
    BY <2>1 DEF TypeOK
  <2>5. OwnershipInv'
    BY <2>1, <2>3, <2>4, BumpInv
  <2>6. Ownership!OwnershipNext
    BY <2>1, <2>4, KeptStep DEF TypeOK
  <2> QED BY <2>5, <2>6 DEF OwnershipStep
<1>2. CASE NegotiationFailed
  <2>1. Mode = "TILES" /\ Mode' = "TILES" /\ ~video_channel'
    <3>1. "auto" \in VideoModes
      BY DEF VideoModes
    <3> QED BY <1>2, <3>1, PolicyDefaultsType DEF NegotiationFailed, Mode, OwnershipInv
  <2> QED BY <1>2, <2>1, QuietStep DEF NegotiationFailed, Owned
<1>3. CASE Publish
  BY <1>3, QuietStep DEF Publish, Owned, Mode
<1>4. CASE Disconnect
  <2>1. /\ VideoReset(content_epoch + 1, FALSE, FALSE)
        /\ active_job' = Discarded(active_job) /\ last_frame' = last_frame
        /\ video_channel' = FALSE
    BY <1>4, Zenon DEF Disconnect
  <2> QED BY <2>1, VideoResetKeeps, Zenon
<1>5. CASE VideoChannelClosed
  <2>1. /\ VideoReset(content_epoch, TRUE, FALSE)
        /\ active_job' = Discarded(active_job) /\ last_frame' = last_frame
        /\ session' = "up"
    BY <1>5, Zenon DEF VideoChannelClosed
  <2> QED BY <2>1, VideoResetKeeps, Zenon
<1>6. CASE ConfigApplied
  BY <1>6, QuietThread DEF ConfigApplied
<1>7. ASSUME NEW flag \in {"recover", "fallback"}, VideoFeedback(flag)
      PROVE  OwnershipStep
  <2>1. policy'.stream_mode = policy.stream_mode
    BY <1>7 DEF VideoFeedback, TypeOK, Policy
  <2> QED BY <1>7, <2>1, QuietThread DEF VideoFeedback
<1> QED BY <1>1, <1>2, <1>3, <1>4, <1>5, <1>6, <1>7 DEF Network

\* A tick of the controller moves the epoch exactly when it moves the ownership.
LEMMA TickOwnership ==
    ASSUME TypeOK, TypeOK', OwnershipInv,
           NEW tile \in Nat, NEW frame \in Nat, NEW health \in HealthClasses,
           NEW auto \in BOOLEAN, NEW low_dirty \in BOOLEAN,
           Tick(tile, frame, health, auto, low_dirty)
    PROVE  OwnershipStep
<1> DEFINE h == UpdateHealth(policy, tile, frame, health)
           p == UpdateMode(h, tile, video_channel, auto, low_dirty)
<1>1. h \in Policy
  BY UpdateHealthType DEF TypeOK
<1>2. Mode = "TILES" => h = policy
  BY DEF Mode, UpdateHealth
<1>3. p \in Policy /\ (Mode = "TILES" /\ ~video_channel => p.stream_mode = "TILES")
  <2> HIDE DEF h
  <2>1. video_channel \in BOOLEAN
    BY DEF TypeOK
  <2>2. p \in Policy /\ (h.stream_mode = "TILES" /\ ~video_channel => p.stream_mode = "TILES")
    BY <1>1, <2>1, UpdateModeType, Zenon
  <2> HIDE DEF p
  <2> QED BY <1>2, <2>2 DEF Mode
<1>4. /\ content_epoch' = IF VideoOwnsDisplay(p.stream_mode) # Owned THEN content_epoch + 1
                          ELSE content_epoch
      /\ policy' = IF Owned /\ p.stream_mode = "TILE_RECOVERY"
                     THEN [p EXCEPT !.tile_recovery_content_epoch = content_epoch + 1] ELSE p
      /\ UNCHANGED <<session, video_channel, pending_job, active_job, encoder, video_tx, last_frame>>
  BY Zenon DEF Tick, session_vars, worker_vars, video_vars
<1> HIDE DEF p
<1>5. policy'.stream_mode = p.stream_mode
  BY <1>3, <1>4 DEF Policy
<1>6. session' # "up" => Mode' = "TILES" /\ ~video_channel'
  BY <1>3, <1>4, <1>5 DEF OwnershipInv, Mode
<1>7. Owned' = VideoOwnsDisplay(p.stream_mode)
  BY <1>5 DEF Owned, Mode
<1>8. CASE Owned' = Owned
  BY <1>4, <1>6, <1>7, <1>8, QuietStep
<1>9. CASE Owned' # Owned
  <2>1. content_epoch' > content_epoch /\ content_epoch' >= content_epoch /\ content_epoch' # content_epoch
    BY <1>4, <1>7, <1>9 DEF TypeOK
  <2>2. OwnershipInv'
    BY <1>4, <1>6, <2>1, BumpInv
  <2>3. Ownership!OwnershipNext
    BY <1>4, <2>1, KeptStep
  <2> QED BY <2>2, <2>3 DEF OwnershipStep
<1> QED BY <1>8, <1>9

\* Every step of the compositor thread keeps the promise: requests, frame submission,
\* resize, transport failure and the controller tick.
LEMMA CompositorOwnership ==
    ASSUME TypeOK, TypeOK', OwnershipInv, Compositor
    PROVE  OwnershipStep
<1> USE DEF session_vars, epoch_vars, worker_vars, video_vars, refresh_vars, pixel_vars
<1>1. CASE ApplyCompositorRequests
  BY <1>1, QuietThread DEF ApplyCompositorRequests
<1>2. ASSUME NEW gpu_only \in BOOLEAN, SubmitFrame(gpu_only)
      PROVE  OwnershipStep
  BY <1>2, QuietThread DEF SubmitFrame
<1>3. CASE RequestService
  BY <1>3, QuietThread DEF RequestService
<1>4. CASE Resize
  <2>1. /\ VideoReset(content_epoch, session = "up", TRUE)
        /\ active_job' = Discarded(active_job) /\ last_frame' = last_frame
        /\ UNCHANGED <<session, video_channel>>
    BY <1>4, Zenon DEF Resize
  <2>2. (session = "up") \in BOOLEAN
    OBVIOUS
  <2>3. session' # "up" => ~(session = "up") /\ ~video_channel'
    BY <2>1 DEF OwnershipInv
  <2> QED BY <2>1, <2>2, <2>3, VideoResetKeeps, Zenon
<1>5. CASE VideoTransportFailed
  <2>1. /\ VideoReset(content_epoch, TRUE, FALSE)
        /\ active_job' = Discarded(active_job) /\ last_frame' = last_frame
        /\ session' = "up"
    BY <1>5, Zenon DEF VideoTransportFailed
  <2> QED BY <2>1, VideoResetKeeps, Zenon
<1>6. CASE ControllerTick
  BY <1>6, ControllerTickArguments, TickOwnership
<1> QED BY <1>1, <1>2, <1>3, <1>4, <1>5, <1>6 DEF Compositor

\* A published snapshot is a job of the present owner.
LEMMA SnapshotInv ==
    ASSUME TypeOK, TypeOK', OwnershipInv, NEW p, p.stream_mode = Mode, PublishSnapshot(p),
           policy'.stream_mode = policy.stream_mode,
           UNCHANGED <<session, video_channel, content_epoch, active_job, encoder, last_frame>>
    PROVE  OwnershipInv'
<1>1. Mode' = Mode /\ Owned' = Owned
  BY DEF Mode, Owned
<1>2. CASE pending_job' = pending_job
  BY <1>1, <1>2, QuietInv DEF OwnershipInv
<1>3. CASE pending_job' # pending_job
  <2>1. /\ UsesVideoFrames(Mode)
        /\ pending_job'.source_content_epoch = content_epoch
        /\ pending_job'.first_video_entry <=> Mode = "VIDEO_READY"
        /\ pending_job'.first_video_entry => pending_job'.request_keyframe
    <3> DEFINE key   == \/ p.stream_mode = "VIDEO_READY"
                        \/ p.stream_mode = "VIDEO_RECOVERING" /\ ~p.video_recovery_keyframe_queued
               first == p.stream_mode = "VIDEO_READY"
    <3>1. /\ UsesVideoFrames(p.stream_mode)
          /\ pending_job' = [source_content_epoch |-> content_epoch, request_keyframe |-> key,
                             first_video_entry |-> first]
      BY <1>3 DEF PublishSnapshot
    <3>2. first => key
      OBVIOUS
    <3> HIDE DEF key
    <3> QED BY <3>1, <3>2, Zenon
  <2>2. Mode = "VIDEO_READY" <=> ~Owned
    BY <2>1 DEF Owned, UsesVideoFrames, VideoOwnsDisplay
  <2>3. JobOfOwner(pending_job)'
    BY <1>1, <2>1, <2>2 DEF JobOfOwner, TypeOK
  <2>4. /\ (active_job.stage # "idle" => JobOfOwner(active_job.job))'
        /\ (active_job.stage = "encoding" => active_job.frame_id = 0)'
        /\ EncodedFrameCurrent' /\ LastFrameOwned'
        /\ (session # "up" => Mode = "TILES" /\ ~video_channel)'
    BY <1>1 DEF OwnershipInv, JobOfOwner, EncodedFrameCurrent, LastFrameOwned
  <2> QED BY <2>3, <2>4 DEF OwnershipInv
<1> QED BY <1>2, <1>3

\* Every step of the frame worker (wd_stream_send_tiles) keeps the promise.
LEMMA FrameWorkerOwnership ==
    ASSUME TypeOK, TypeOK', OwnershipInv, FrameWorkerStep
    PROVE  OwnershipStep
<1> USE DEF session_vars, epoch_vars, worker_vars, video_vars, refresh_vars, pixel_vars
<1>1. CASE SampleForce
  BY <1>1, QuietThread DEF SampleForce
<1>2. CASE Analyze
  <2>1. UNCHANGED <<session_vars, epoch_vars, policy, worker_vars, video_vars>>
    BY <1>2, Zenon DEF Analyze
  <2> QED BY <2>1, QuietThread
<1>3. CASE RefusePass
  BY <1>3, QuietThread DEF RefusePass
<1>4. CASE AskFullFrame
  BY <1>4, QuietThread DEF AskFullFrame
<1>5. CASE VideoPass
  <2>1. UNCHANGED <<session, video_channel, content_epoch, active_job, encoder, video_tx, last_frame>>
    BY <1>5, Zenon DEF VideoPass
  <2>2. policy'.stream_mode = policy.stream_mode
    BY <1>5, StartRefreshType DEF VideoPass, TypeOK
  <2>3. OwnershipInv'
    <3>1. CASE pending_job' = pending_job
      BY <2>1, <2>2, <3>1, QuietThread DEF OwnershipStep
    <3>2. CASE PublishSnapshot(policy')
      BY <2>1, <2>2, <3>2, SnapshotInv DEF Mode
    <3> QED BY <1>5, <3>1, <3>2, Zenon DEF VideoPass
  <2>4. content_epoch' >= content_epoch /\ Owned' = Owned
    BY <2>1, <2>2 DEF TypeOK, Owned, Mode
  <2> QED BY <2>1, <2>3, <2>4, KeptStep DEF OwnershipStep
<1>6. CASE TilePass
  <2> DEFINE due    == RefreshDue(policy)
             p      == IF due THEN StartRefresh(policy) ELSE policy
             defer  == /\ fw.pc = "frame" /\ ~due
                       /\ Mode = "TILE_RECOVERY" /\ p.tile_recovery_refresh_started
             damage == p.tile_recovery_live_damage_deferred \/ defer
             q      == [p EXCEPT !.tile_recovery_live_damage_deferred = damage]
             apply  == fw.pc = "frame" /\ ~defer
             queued == (dirty /\ ~due) \/ (apply /\ fw.changed)
  <2>1. p \in Policy /\ p.stream_mode = Mode
    BY StartRefreshType DEF TypeOK, Mode
  <2>2. damage \in BOOLEAN /\ queued \in BOOLEAN
    OBVIOUS
  <2>3. /\ ~Owned
        /\ video_tx' \in IF due /\ Mode = "TILE_RECOVERY"
                           THEN ControlFrameQueued(video_tx, content_epoch) ELSE {video_tx}
        /\ IF apply THEN PublishSnapshot(q) ELSE UNCHANGED pending_job
        /\ policy' = q \/ policy' = FinishRefresh(q, queued)
        /\ UNCHANGED <<session, video_channel, content_epoch, active_job, encoder, last_frame>>
    BY <1>6, Zenon DEF TilePass
  <2> HIDE DEF p, due, damage, apply
  <2>4. q \in Policy /\ q.stream_mode = Mode
    BY <2>1, <2>2 DEF Policy
  <2> HIDE DEF q, queued
  <2>5. policy'.stream_mode = policy.stream_mode /\ Owned' = Owned
    BY <2>2, <2>3, <2>4, FinishRefreshType DEF Mode, Owned
  <2>6. OwnershipInv'
    <3>1. CASE pending_job' = pending_job
      BY <2>3, <2>5, <3>1, QuietInv DEF Mode, OwnershipInv
    <3>2. CASE PublishSnapshot(q)
      BY <2>3, <2>4, <2>5, <3>2, SnapshotInv
    <3> QED BY <2>3, <3>1, <3>2
  <2>7. content_epoch' >= content_epoch
    BY <2>3 DEF TypeOK
  <2>8. CASE video_tx' = video_tx
    BY <2>3, <2>5, <2>6, <2>7, <2>8, KeptStep DEF OwnershipStep
  <2>9. CASE video_tx' = Append(video_tx, [epoch |-> content_epoch, frame_id |-> 0])
    <3> DEFINE f == [epoch |-> content_epoch, frame_id |-> 0]
    <3>1. f \in VideoFrame /\ f.epoch = content_epoch' /\ f.frame_id = 0
      BY <2>3 DEF VideoFrame, TypeOK
    <3>2. video_tx' = Append(video_tx, f)
      BY <2>9
    <3> HIDE DEF f
    <3>3. Owned' = (f.frame_id # 0)
      BY <2>3, <2>5, <3>1 DEF Owned, VideoOwnsDisplay
    <3>4. Ownership!OwnershipNext
      BY <2>3, <2>5, <2>7, <3>1, <3>2, <3>3, FrameStep
    <3> QED BY <2>6, <3>4 DEF OwnershipStep
  <2> QED BY <2>3, <2>8, <2>9 DEF ControlFrameQueued
<1>7. CASE SendResults
  BY <1>7, QuietThread DEF SendResults
<1>8. CASE FinishPass
  <2>1. policy'.stream_mode = policy.stream_mode
    BY <1>8, FinishRefreshType, Zenon DEF FinishPass, TypeOK
  <2>2. UNCHANGED <<session_vars, epoch_vars, worker_vars, video_vars>>
    BY <1>8, Zenon DEF FinishPass
  <2> QED BY <2>1, <2>2, QuietThread
<1> QED BY <1>1, <1>2, <1>3, <1>4, <1>5, <1>6, <1>7, <1>8 DEF FrameWorkerStep

\* A frame that is published is of the current epoch, and of the encoder session
\* there is; it enters video exactly while tiles own the display.
LEMMA PublishedFrame ==
    ASSUME TypeOK, OwnershipInv, active_job.stage = "encoded", Publishable
    PROVE  /\ active_job.job.source_content_epoch = content_epoch
           /\ UsesVideoFrames(Mode)
           /\ active_job.frame_id \in Nat \ {0}
           /\ encoder.epoch = content_epoch /\ encoder.next_frame_id > active_job.frame_id
           /\ EntersVideo <=> ~Owned
           /\ EntersVideo => Mode = "VIDEO_READY"
           /\ FrameEpoch = IF Owned THEN content_epoch ELSE content_epoch + 1
<1>1. /\ ~active_job.discarded /\ active_job.job.source_content_epoch = content_epoch
      /\ UsesVideoFrames(Mode) /\ active_job.frame_id # 0
      /\ active_job.job.request_keyframe => active_job.keyframe
  BY DEF Publishable, JobCurrent
<1>2. active_job.frame_id \in Nat \ {0}
  BY <1>1 DEF TypeOK, ActiveJob
<1>3. encoder.epoch = content_epoch /\ encoder.next_frame_id > active_job.frame_id
  BY <1>1 DEF OwnershipInv, EncodedFrameCurrent
<1>4. /\ active_job.job.first_video_entry <=> ~Owned
      /\ active_job.job.first_video_entry => active_job.job.request_keyframe
  BY <1>1 DEF OwnershipInv, JobOfOwner
<1>5. EntersVideo <=> ~Owned
  BY <1>1, <1>4 DEF EntersVideo
<1>6. ~Owned => Mode = "VIDEO_READY"
  BY <1>1 DEF Owned, UsesVideoFrames, VideoOwnsDisplay
<1>7. FrameEpoch = IF Owned THEN content_epoch ELSE content_epoch + 1
  BY <1>1, <1>5 DEF FrameEpoch, TypeOK
<1> QED BY <1>1, <1>2, <1>3, <1>5, <1>6, <1>7

\* The frame that wd_video_encoder_encode_frame hands out has the next id of the job's epoch.
LEMMA EncodeInv ==
    ASSUME TypeOK, TypeOK', OwnershipInv, Encode
    PROVE  OwnershipInv'
<1> DEFINE epoch == active_job.job.source_content_epoch
           e == Configured(epoch)
<1>1. epoch \in Nat /\ e \in Encoder /\ e.epoch = epoch
  BY ConfiguredType DEF TypeOK, ActiveJob, Job
<1>2. encoder.epoch = epoch => e = encoder
  BY DEF Configured
<1>3. /\ active_job.stage = "encoding"
      /\ \/ /\ active_job' = [active_job EXCEPT !.stage = "encoded"]
            /\ encoder' = e
         \/ /\ \E keyframe \in BOOLEAN :
                  active_job' = [active_job EXCEPT !.stage = "encoded",
                                   !.frame_id = e.next_frame_id, !.keyframe = keyframe]
            /\ encoder' = [e EXCEPT !.next_frame_id = @ + 1]
      /\ UNCHANGED <<session, video_channel, content_epoch, policy, pending_job, last_frame>>
  BY Zenon DEF Encode, session_vars, epoch_vars, video_vars
<1> HIDE DEF e
<1>4. Mode' = Mode /\ Owned' = Owned
  BY <1>3, Zenon DEF Mode, Owned
<1>5. /\ active_job'.stage = "encoded" /\ active_job'.job = active_job.job
      /\ encoder'.epoch = epoch /\ encoder'.next_frame_id >= e.next_frame_id
      /\ active_job'.frame_id # 0 =>
            active_job'.frame_id = e.next_frame_id /\ encoder'.next_frame_id > e.next_frame_id
  <2>1. active_job.frame_id = 0
    BY <1>3, Zenon DEF OwnershipInv
  <2>2. CASE active_job' = [active_job EXCEPT !.stage = "encoded"] /\ encoder' = e
    <3>1. active_job'.frame_id = active_job.frame_id
      BY <2>2 DEF TypeOK, ActiveJob
    <3> QED BY <1>1, <2>1, <2>2, <3>1 DEF TypeOK, ActiveJob, Encoder
  <2>3. ASSUME NEW keyframe \in BOOLEAN,
               active_job' = [active_job EXCEPT !.stage = "encoded",
                                !.frame_id = e.next_frame_id, !.keyframe = keyframe],
               encoder' = [e EXCEPT !.next_frame_id = @ + 1]
        PROVE  /\ active_job'.stage = "encoded" /\ active_job'.job = active_job.job
               /\ encoder'.epoch = epoch /\ encoder'.next_frame_id >= e.next_frame_id
               /\ active_job'.frame_id # 0 =>
                     active_job'.frame_id = e.next_frame_id /\ encoder'.next_frame_id > e.next_frame_id
    <3>1. /\ active_job'.stage = "encoded" /\ active_job'.job = active_job.job
          /\ active_job'.frame_id = e.next_frame_id
      BY <2>3 DEF TypeOK, ActiveJob
    <3>2. encoder'.epoch = epoch /\ encoder'.next_frame_id = e.next_frame_id + 1
          /\ e.next_frame_id \in Nat
      BY <1>1, <2>3 DEF Encoder
    <3> QED BY <3>1, <3>2
  <2> QED BY <1>3, <2>2, <2>3, Zenon
<1>6. EncodedFrameCurrent'
  BY <1>1, <1>3, <1>5, Zenon DEF EncodedFrameCurrent, Encoder
<1>7. LastFrameOwned'
  <2>1. last_frame'.epoch <= content_epoch'
    BY <1>3, Zenon DEF OwnershipInv, LastFrameOwned
  <2>2. ASSUME last_frame.epoch = content_epoch, last_frame.frame_id # 0
        PROVE  /\ Owned /\ epoch = content_epoch /\ e = encoder
               /\ e.next_frame_id > last_frame.frame_id
    BY <1>2, <1>3, <2>2, Zenon DEF OwnershipInv, LastFrameOwned
  <2>3. /\ last_frame.frame_id \in Nat /\ e.next_frame_id \in Nat
        /\ encoder'.next_frame_id \in Nat /\ active_job'.frame_id \in Nat
    BY <1>1 DEF TypeOK, VideoFrame, Encoder, ActiveJob
  <2> HIDE DEF epoch
  <2>4. active_job'.job.source_content_epoch = epoch
    BY <1>5 DEF epoch
  <2>5. last_frame' = last_frame /\ content_epoch' = content_epoch
    BY <1>3, Zenon
  <2>6. ASSUME last_frame.epoch = content_epoch, last_frame.frame_id # 0
        PROVE  /\ Owned' /\ encoder'.epoch = content_epoch
               /\ encoder'.next_frame_id > last_frame.frame_id
               /\ active_job'.job.source_content_epoch = content_epoch
               /\ active_job'.frame_id # 0 => active_job'.frame_id > last_frame.frame_id
    <3>1. /\ Owned /\ epoch = content_epoch
          /\ e.next_frame_id > last_frame.frame_id
      BY <2>2, <2>6
    <3> QED BY <1>4, <1>5, <2>3, <2>4, <3>1
  <2> QED BY <2>1, <2>5, <2>6 DEF LastFrameOwned
<1>8. /\ (pending_job # NoJob => JobOfOwner(pending_job))'
      /\ JobOfOwner(active_job.job)'
  BY <1>3, <1>4, <1>5, Zenon DEF OwnershipInv, JobOfOwner
<1>9. (session # "up" => Mode = "TILES" /\ ~video_channel)'
  BY <1>3, <1>4, Zenon DEF OwnershipInv
<1> QED BY <1>5, <1>6, <1>7, <1>8, <1>9, Zenon DEF OwnershipInv

\* A job that wd_stream_video_worker_main takes out of the pending slot keeps its epoch.
LEMMA TakeJobInv ==
    ASSUME TypeOK, TypeOK', OwnershipInv, TakeJob
    PROVE  OwnershipInv'
<1>1. /\ pending_job # NoJob /\ pending_job' = NoJob
      /\ UNCHANGED <<session, video_channel, content_epoch, policy, encoder, last_frame>>
  BY Zenon DEF TakeJob, session_vars, epoch_vars, video_vars
<1>2. Mode' = Mode /\ Owned' = Owned
  BY <1>1 DEF Mode, Owned
<1>3. \/ active_job'.stage = "idle"
      \/ /\ active_job'.stage = "encoding" /\ active_job'.job = pending_job
         /\ active_job'.frame_id = 0
         /\ pending_job.source_content_epoch = content_epoch
  BY DEF TakeJob, NoActiveJob, JobCurrent
<1>4. JobOfOwner(pending_job)
  BY <1>1 DEF OwnershipInv
<1>5. (active_job.stage # "idle" => JobOfOwner(active_job.job))'
  BY <1>1, <1>2, <1>3, <1>4 DEF JobOfOwner
<1>6. EncodedFrameCurrent'
  BY <1>3 DEF EncodedFrameCurrent
<1>7. LastFrameOwned'
  BY <1>1, <1>2, <1>3 DEF OwnershipInv, LastFrameOwned
<1>8. (session # "up" => Mode = "TILES" /\ ~video_channel)'
  BY <1>1, <1>2 DEF OwnershipInv
<1> QED BY <1>1, <1>3, <1>5, <1>6, <1>7, <1>8 DEF OwnershipInv

\* The frame that is queued carries the epoch the step leaves behind, which
\* video owns, and comes after every earlier one.
LEMMA QueueFrameOwnership ==
    ASSUME TypeOK, TypeOK', OwnershipInv, QueueFrame
    PROVE  OwnershipStep
<1> DEFINE f == [epoch |-> FrameEpoch, frame_id |-> active_job.frame_id]
           commit == Mode = "VIDEO_READY" /\ EntersVideo
<1>1. /\ active_job.stage = "encoded" /\ Publishable
      /\ last_frame' = f /\ video_tx' = Append(video_tx, last_frame')
      /\ active_job' = NoActiveJob
      /\ content_epoch' = IF commit THEN FrameEpoch ELSE content_epoch
      /\ encoder' = IF commit /\ encoder.epoch = content_epoch
                      THEN [encoder EXCEPT !.epoch = FrameEpoch] ELSE encoder
      /\ policy' = IF commit THEN SetMode(policy, "VIDEO_ACTIVE", "NONE")
                   ELSE TrackRecoveryKeyframe(policy)
      /\ UNCHANGED <<session, video_channel, pending_job>>
  BY Zenon DEF QueueFrame, session_vars
<1>2. /\ active_job.frame_id \in Nat \ {0} /\ UsesVideoFrames(Mode)
      /\ encoder.epoch = content_epoch /\ encoder.next_frame_id > active_job.frame_id
      /\ commit <=> ~Owned
      /\ FrameEpoch = IF Owned THEN content_epoch ELSE content_epoch + 1
      /\ content_epoch' = FrameEpoch
  BY <1>1, PublishedFrame
<1>3. Owned'
  <2>1. "VIDEO_ACTIVE" \in Modes /\ "NONE" \in RecoveryClasses
    BY DEF Modes, RecoveryClasses
  <2>2. CASE commit
    <3>1. policy'.stream_mode = "VIDEO_ACTIVE"
      BY <1>1, <2>1, <2>2, SetModeType DEF TypeOK
    <3> QED BY <3>1 DEF Owned, Mode, VideoOwnsDisplay
  <2>3. CASE ~commit
    <3>1. policy'.stream_mode = policy.stream_mode
      BY <1>1, <2>3, TrackRecoveryKeyframeType DEF TypeOK
    <3> QED BY <1>2, <2>3, <3>1 DEF Owned, Mode
  <2> QED BY <2>2, <2>3
<1>4. encoder'.epoch = FrameEpoch /\ encoder'.next_frame_id > active_job.frame_id
  BY <1>1, <1>2 DEF TypeOK, Encoder
<1>5. f \in VideoFrame /\ f.epoch = content_epoch' /\ f.frame_id = active_job.frame_id
  BY <1>2 DEF TypeOK, VideoFrame
<1>6. content_epoch' >= content_epoch /\ (content_epoch' = content_epoch => Owned' = Owned)
  BY <1>2, <1>3 DEF TypeOK, Owned, VideoOwnsDisplay
<1>7. Ownership!Follows(f, last_frame)
  <2>1. last_frame.epoch <= content_epoch
    BY DEF OwnershipInv, LastFrameOwned
  <2>2. last_frame.epoch = content_epoch /\ last_frame.frame_id # 0 =>
           Owned /\ active_job.frame_id > last_frame.frame_id
    BY <1>1, <1>2 DEF OwnershipInv, LastFrameOwned
  <2>3. last_frame.epoch \in Nat /\ last_frame.frame_id \in Nat
    BY DEF TypeOK, VideoFrame
  <2> HIDE DEF f
  <2> QED BY <1>2, <1>5, <2>1, <2>2, <2>3 DEF Ownership!Follows, TypeOK
<1> HIDE DEF f, commit
<1>8. Ownership!OwnershipNext
  <2>1. Owned' = (f.frame_id # 0)
    BY <1>2, <1>3, <1>5 DEF Owned, VideoOwnsDisplay
  <2> QED BY <1>1, <1>2, <1>5, <1>6, <1>7, <2>1, FrameStep
<1>9. OwnershipInv'
  <2>1. session' # "up" => Mode' = "TILES" /\ ~video_channel'
    BY <1>1, <1>2 DEF OwnershipInv, UsesVideoFrames
  <2>2. (pending_job # NoJob => JobOfOwner(pending_job))'
    <3>1. CASE Owned
      BY <1>1, <1>2, <1>3, <3>1 DEF OwnershipInv, JobOfOwner
    <3>2. CASE ~Owned
      BY <1>1, <1>2, <3>2 DEF OwnershipInv, JobOfOwner, TypeOK, Job
    <3> QED BY <3>1, <3>2
  <2>3. active_job'.stage = "idle"
    BY <1>1, NoActiveJobIdle
  <2>4. EncodedFrameCurrent'
    BY <2>3 DEF EncodedFrameCurrent
  <2>5. LastFrameOwned'
    BY <1>1, <1>2, <1>3, <1>4, <1>5, <2>3 DEF LastFrameOwned, TypeOK
  <2> QED BY <2>1, <2>2, <2>3, <2>4, <2>5 DEF OwnershipInv
<1> QED BY <1>8, <1>9 DEF OwnershipStep

\* Every step of the video worker (wd_stream_video_worker_process) keeps the promise.
LEMMA VideoWorkerOwnership ==
    ASSUME TypeOK, TypeOK', OwnershipInv, VideoWorkerStep
    PROVE  OwnershipStep
<1> USE DEF session_vars, epoch_vars, worker_vars, video_vars
<1>0. ASSUME UNCHANGED <<content_epoch, policy, video_tx, last_frame>>
      PROVE  Ownership!OwnershipNext
  <2>1. content_epoch' >= content_epoch /\ Owned' = Owned
    BY <1>0 DEF TypeOK, Owned, Mode
  <2> QED BY <1>0, <2>1, KeptStep
<1>1. CASE TakeJob
  <2>1. UNCHANGED <<content_epoch, policy, video_tx, last_frame>>
    BY <1>1, Zenon DEF TakeJob
  <2> QED BY <1>0, <1>1, <2>1, TakeJobInv DEF OwnershipStep
<1>2. CASE Encode
  <2>1. UNCHANGED <<content_epoch, policy, video_tx, last_frame>>
    BY <1>2, Zenon DEF Encode
  <2> QED BY <1>0, <1>2, <2>1, EncodeInv DEF OwnershipStep
<1>3. CASE DropFrame
  <2>1. /\ active_job' = NoActiveJob
        /\ UNCHANGED <<session, video_channel, content_epoch, policy, pending_job, encoder,
                       video_tx, last_frame>>
    BY <1>3, Zenon DEF DropFrame
  <2>2. Mode' = Mode /\ Owned' = Owned
    BY <2>1 DEF Mode, Owned
  <2>3. OwnershipInv'
    BY <2>1, <2>2, NoActiveJobIdle
       DEF OwnershipInv, JobOfOwner, EncodedFrameCurrent, LastFrameOwned
  <2> QED BY <1>0, <2>1, <2>3 DEF OwnershipStep
<1>4. CASE RefusedFrame
  <2>1. /\ VideoReset(content_epoch, TRUE, FALSE)
        /\ active_job' = NoActiveJob /\ last_frame' = last_frame
        /\ Publishable /\ UNCHANGED <<session, video_channel>>
    BY <1>4, Zenon DEF RefusedFrame
  <2>2. session' = "up"
    BY <2>1 DEF OwnershipInv, Publishable, JobCurrent
  <2> QED BY <2>1, <2>2, VideoResetKeeps, Zenon
<1>5. CASE QueueFrame
  BY <1>5, QueueFrameOwnership
<1> QED BY <1>1, <1>2, <1>3, <1>4, <1>5 DEF VideoWorkerStep

\* Every step of the server keeps the promise.
LEMMA NextOwnership ==
    ASSUME TypeOK, TypeOK', OwnershipInv, [Next]_vars
    PROVE  OwnershipStep
<1>1. CASE Network
  BY <1>1, NetworkOwnership
<1>2. CASE Compositor
  BY <1>2, CompositorOwnership
<1>3. CASE FrameWorkerStep
  BY <1>3, FrameWorkerOwnership
<1>4. CASE VideoWorkerStep
  BY <1>4, VideoWorkerOwnership
<1>5. CASE VideoSent
  <2>1. /\ video_tx # <<>> /\ video_tx' = Tail(video_tx)
        /\ UNCHANGED <<session, video_channel, content_epoch, policy, pending_job, active_job,
                       encoder, last_frame>>
    BY <1>5, Zenon DEF VideoSent, session_vars, epoch_vars, worker_vars
  <2>2. Mode' = Mode /\ Owned' = Owned /\ content_epoch' >= content_epoch
    BY <2>1 DEF Mode, Owned, TypeOK
  <2>3. OwnershipInv'
    BY <2>1, <2>2, QuietInv DEF OwnershipInv
  <2>4. Ownership!OwnershipNext
    BY <2>1, <2>2, KeptStep
  <2> QED BY <2>3, <2>4 DEF OwnershipStep
<1>6. CASE UNCHANGED vars
  <2>1. UNCHANGED <<session, video_channel, content_epoch, pending_job, active_job, encoder,
                    video_tx, last_frame, policy>>
    BY <1>6, Zenon DEF vars, session_vars, epoch_vars, worker_vars, video_vars
  <2> QED BY <2>1, QuietThread
<1> QED BY <1>1, <1>2, <1>3, <1>4, <1>5, <1>6 DEF Next

\* A server that has just started keeps the promise: no job, no frame, tiles own epoch 0.
LEMMA InitOwnership == Init => OwnershipInv /\ Ownership!OwnershipInit
<1> SUFFICES ASSUME Init PROVE OwnershipInv /\ Ownership!OwnershipInit
  OBVIOUS
<1>1. Mode = "TILES" /\ ~Owned
  <2>1. "auto" \in VideoModes
    BY DEF VideoModes
  <2> QED BY <2>1, PolicyDefaultsType, NotOwnedModes DEF Init, Mode, Owned
<1>2. OwnershipInv
  BY <1>1, NoActiveJobIdle DEF Init, OwnershipInv, EncodedFrameCurrent, LastFrameOwned
<1>3. Owned = FALSE
  BY <1>1 DEF Owned, VideoOwnsDisplay
<1> QED BY <1>2, <1>3 DEF Init, Ownership!OwnershipInit

\* At every moment what the video worker, its mailbox and the encoder hold
\* either agrees with the content epoch and its owner or is refused by
\* wd_stream_video_job_current_locked before it is published.
THEOREM OwnershipInvariant == Spec => []OwnershipInv
<1>1. Init => OwnershipInv
  BY InitOwnership
<1>2. TypeOK /\ TypeOK' /\ OwnershipInv /\ [Next]_vars => OwnershipInv'
  BY NextOwnership DEF OwnershipStep
<1> QED BY <1>1, <1>2, TypeCorrect, PTL DEF Spec

\* The pipeline implements DisplayOwnership for any number of sessions, resizes,
\* failures and frames: content_epoch moves at every handoff and never back,
\* and a video message is queued only under an epoch whose owner sends its kind,
\* after all earlier ones (wd_stream_video_worker_process, wd_stream_video_reset_locked).
THEOREM OwnershipKept == Spec => KeepsOwnership
<1>1. Init => Ownership!OwnershipInit
  BY InitOwnership
<1>2. TypeOK /\ TypeOK' /\ OwnershipInv /\ [Next]_vars
        => [Ownership!OwnershipNext]_(Ownership!ownership_vars)
  BY NextOwnership DEF OwnershipStep
<1> QED BY <1>1, <1>2, TypeCorrect, OwnershipInvariant, PTL
        DEF Spec, KeepsOwnership, Ownership!OwnershipSpec

=============================================================================
