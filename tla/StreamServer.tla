---------------------------- MODULE StreamServer ----------------------------
(***************************************************************************)
(* The server's streaming pipeline: who owns the client's display (tiles   *)
(* over UDP or video over TCP), and how ownership changes hands.           *)
(*                                                                         *)
(* Four threads share net.lock.  The compositor thread renders, submits    *)
(* frames, applies resizes and runs the controller once a second; the      *)
(* frame worker diffs a frame and runs the tile send pass, releasing the   *)
(* lock while tiles are encoded; the video worker encodes a frame between  *)
(* two critical sections; the network thread connects, disconnects and     *)
(* handles the client's messages.  An action is one critical section.      *)
(*                                                                         *)
(* Pixels are abstracted to what the handoffs must not lose: dirty says    *)
(* that tiles are queued, lost that some pixels of the current scene are   *)
(* neither shown by the client's tiles nor queued as tiles.                *)
(***************************************************************************)
EXTENDS StreamPolicy, Sequences

CONSTANTS
    SessionVideoModes,  \* video modes clients ask for
    Events,             \* bound: what the environment does besides connecting
    MaxEpoch,           \* bound: content epoch at which new sessions, resizes
                        \* and entries into video stop
    MaxGeneration,      \* bound: framebuffer generation at which resizes stop
    MaxFrameId,         \* bound: frames of one encoder session
    MaxVideoTx          \* bound: messages the video sender takes

ASSUME StreamServerAssumption ==
    /\ SessionVideoModes \subseteq VideoModes
    /\ Events \subseteq {"disconnect", "channel", "transport", "resize", "feedback", "gpu"}
    /\ MaxEpoch \in Nat
    /\ MaxGeneration \in Nat
    /\ MaxFrameId \in Nat
    /\ MaxVideoTx \in Nat \ {0}

VARIABLES
    session,                 \* "down", "negotiated" or "up" (client_connected)
    video_channel,           \* video negotiated, video_tcp_fd >= 0, video_tx
    content_epoch,
    framebuffer_generation,
    config_update_pending,
    policy,                  \* net.stream_policy
    pending_job,             \* the video worker's mailbox
    active_job,              \* the job the video worker processes
    encoder,                 \* the encoder session: its epoch and next frame id
    video_tx,                \* VIDEO_FRAME messages queued to the client
    last_frame,              \* history: the last data frame queued
    fw,                      \* the frame worker and the frame it holds
    refresh_requested,       \* compositor_requests & FULL_REFRESH
    shadow_valid,            \* framebuffer_shadow_valid
    dirty,                   \* queued framebuffer work (fresh or repair tiles)
    lost                     \* history: pixels only a full refresh will bring

session_vars == <<session, video_channel>>
epoch_vars   == <<content_epoch, framebuffer_generation, config_update_pending>>
worker_vars  == <<pending_job, active_job, encoder>>
video_vars   == <<video_tx, last_frame>>
refresh_vars == <<refresh_requested, shadow_valid>>
pixel_vars   == <<dirty, lost>>

vars == <<session_vars, epoch_vars, policy, worker_vars, video_vars, fw, refresh_vars,
          pixel_vars>>

Job == [source_content_epoch: Nat, request_keyframe: BOOLEAN, first_video_entry: BOOLEAN]
NoJob == [source_content_epoch |-> 0, request_keyframe |-> FALSE, first_video_entry |-> FALSE]

\* discarded: the worker epoch has moved on since the job was taken.
\* frame_id = 0: the encoder failed or held its output back.
ActiveJob == [stage: {"idle", "encoding", "encoded"}, job: Job, discarded: BOOLEAN,
              frame_id: Nat, keyframe: BOOLEAN]
NoActiveJob == [stage |-> "idle", job |-> NoJob, discarded |-> FALSE,
                frame_id |-> 0, keyframe |-> FALSE]

Encoder == [epoch: Nat, next_frame_id: Nat]
ResetEncoder == [epoch |-> 0, next_frame_id |-> 0]

\* An end-of-stream control frame has id 0, a data frame a positive id.
VideoFrame == [epoch: Nat, frame_id: Nat]

\* The frame worker: idle; a frame submitted, its force flag sampled, its diff
\* made ("frame"); a service pass; or a send pass whose tiles are being encoded
\* with the lock released.
FrameWorker == [pc: {"idle", "submitted", "sampled", "frame", "service", "sending"},
                gpu_only: BOOLEAN, force: BOOLEAN, skipped: BOOLEAN, full: BOOLEAN,
                changed: BOOLEAN]
IdleWorker == [pc |-> "idle", gpu_only |-> FALSE, force |-> FALSE, skipped |-> FALSE,
               full |-> FALSE, changed |-> FALSE]

Init ==
    /\ session = "down" /\ video_channel = FALSE
    /\ content_epoch = 0 /\ framebuffer_generation = 1 /\ config_update_pending = FALSE
    /\ policy = PolicyDefaults("auto")
    /\ pending_job = NoJob /\ active_job = NoActiveJob /\ encoder = ResetEncoder
    /\ video_tx = <<>> /\ last_frame = [epoch |-> 0, frame_id |-> 0]
    /\ fw = IdleWorker
    /\ refresh_requested = FALSE /\ shadow_valid = FALSE
    /\ dirty = FALSE /\ lost = TRUE

Mode == policy.stream_mode
Owned == VideoOwnsDisplay(Mode)

\* wd_stream_video_worker_discard_locked: empty the mailbox and outdate the
\* job in process.
Discarded(a) == IF a.stage = "idle" THEN a ELSE [a EXCEPT !.discarded = TRUE]

\* wd_async_tcp_sender_drop_message_type: the head survives when some of it
\* may be on the wire already.
AfterDrop(tx) == {<<>>} \cup (IF tx = <<>> THEN {} ELSE {<<Head(tx)>>})

\* wd_stream_queue_video_control_frame_locked: an end-of-stream frame, which
\* the sender may refuse.
ControlFrameQueued(tx, epoch) ==
    {tx} \cup (IF video_channel /\ Len(tx) < MaxVideoTx
                 THEN {Append(tx, [epoch |-> epoch, frame_id |-> 0])} ELSE {})

\* The policy's part of wd_stream_video_reset_locked.
ResetPolicy(p, connected, resize) ==
    LET q == [p EXCEPT !.video_candidate_seconds = 0, !.tile_recovery_seconds = 0,
                       !.planned_recovery_resume_video =
                            resize /\ (@ \/ (connected /\ UsesVideoFrames(p.stream_mode)))]
        restart == /\ resize
                   /\ p.stream_mode = "TILE_RECOVERY"
                   /\ p.video_recovery_class = "PLANNED"
        r == IF restart
               THEN [ClearRecoveryRefresh(q) EXCEPT !.tile_refresh_pending = TRUE,
                                                    !.tile_recovery_content_epoch = 0]
               ELSE q
    IN  IF p.stream_mode = "TILES" THEN q
        ELSE SetMode(r, IF connected THEN "TILE_RECOVERY" ELSE "TILES",
                     IF ~connected THEN "NONE" ELSE IF resize THEN "PLANNED" ELSE "FAILURE")

\* Mutant of VideoReset: the epoch moves only with a resize.
VideoResetSameEpoch(epoch, connected, resize) ==
    LET next == IF resize THEN epoch + 1 ELSE epoch
    IN  /\ content_epoch' = next
        /\ \E kept \in AfterDrop(video_tx) :
              video_tx' \in IF resize THEN ControlFrameQueued(kept, next) ELSE {kept}
        /\ pending_job' = NoJob
        /\ encoder' = ResetEncoder
        /\ policy' = ResetPolicy(policy, connected, resize)

\* wd_stream_video_reset_locked, called with the content epoch at epoch; a
\* resize notifies the client with an end-of-stream frame of the new epoch.
\* The caller says what becomes of the job in process.
VideoReset(epoch, connected, resize) ==
    LET next == IF resize \/ Owned THEN epoch + 1 ELSE epoch
    IN  /\ content_epoch' = next
        /\ \E kept \in AfterDrop(video_tx) :
              video_tx' \in IF resize THEN ControlFrameQueued(kept, next) ELSE {kept}
        /\ pending_job' = NoJob
        /\ encoder' = ResetEncoder
        /\ policy' = ResetPolicy(policy, connected, resize)

-----------------------------------------------------------------------------
(* The network thread: sessions, and the client's messages. *)

\* A hello: new identities, and the policy of the new session.
Negotiate(mode, video_capable) ==
    /\ session = "down" /\ content_epoch < MaxEpoch
    /\ session' = "negotiated"
    /\ content_epoch' = content_epoch + 1
    /\ policy' = BeginSession(mode, video_capable, content_epoch + 1)
    /\ UNCHANGED <<video_channel, framebuffer_generation, config_update_pending,
                   worker_vars, video_vars, fw, refresh_vars, pixel_vars>>

\* A probe, the configuration or an auxiliary channel failed or timed out.
NegotiationFailed ==
    /\ session = "negotiated"
    /\ session' = "down"
    /\ policy' = PolicyDefaults("auto")
    /\ UNCHANGED <<video_channel, epoch_vars, worker_vars, video_vars, fw, refresh_vars,
                   pixel_vars>>

\* The channels are there (video's is optional): the client is connected.
Publish ==
    /\ session = "negotiated"
    /\ session' = "up"
    /\ video_channel' \in {FALSE, policy.video_bootstrap_pending}
    /\ config_update_pending' = FALSE
    /\ dirty' = FALSE /\ lost' = TRUE
    /\ refresh_requested' = TRUE
    /\ UNCHANGED <<content_epoch, framebuffer_generation, policy, worker_vars, video_vars,
                   fw, shadow_valid>>

\* The end of a session; its TCP senders are replaced, so nothing stays queued.
Disconnect ==
    /\ "disconnect" \in Events
    /\ session = "up"
    /\ session' = "down" /\ video_channel' = FALSE
    /\ config_update_pending' = FALSE
    /\ VideoReset(content_epoch + 1, FALSE, FALSE) /\ active_job' = Discarded(active_job)
    /\ video_tx' = <<>>
    /\ lost' = TRUE
    /\ UNCHANGED <<last_frame, framebuffer_generation, fw, refresh_vars, dirty>>

VideoChannelClosed ==
    /\ "channel" \in Events
    /\ session = "up" /\ video_channel
    /\ video_channel' = FALSE
    /\ VideoReset(content_epoch, TRUE, FALSE) /\ active_job' = Discarded(active_job)
    /\ UNCHANGED <<last_frame, session, framebuffer_generation, config_update_pending, fw, refresh_vars,
                   pixel_vars>>

\* WD_MSG_CONFIG_APPLIED for the current config epoch.
ConfigApplied ==
    /\ session = "up" /\ config_update_pending
    /\ config_update_pending' = FALSE
    /\ refresh_requested' = TRUE
    /\ UNCHANGED <<session_vars, content_epoch, framebuffer_generation, policy, worker_vars,
                   video_vars, fw, shadow_valid, pixel_vars>>

\* WD_MSG_VIDEO_FEEDBACK, accepted when it names the current content epoch;
\* a client sends it about an epoch that video owns.  Flags accumulate.
VideoFeedback(flag) ==
    /\ "feedback" \in Events
    /\ session = "up" /\ Owned
    /\ policy' = [policy EXCEPT !.video_feedback_flags = IF @ = "fallback" THEN @ ELSE flag]
    /\ UNCHANGED <<session_vars, epoch_vars, worker_vars, video_vars, fw, refresh_vars,
                   pixel_vars>>

-----------------------------------------------------------------------------
(* The compositor thread. *)

\* Serve the worker's request: the scene is marked and the shadow is invalid,
\* so that the next frame is rendered and is a full refresh.
ApplyCompositorRequests ==
    /\ fw.pc = "idle" /\ refresh_requested
    /\ refresh_requested' = FALSE
    /\ shadow_valid' = FALSE
    /\ UNCHANGED <<session_vars, epoch_vars, policy, worker_vars, video_vars, fw,
                   pixel_vars>>

ShouldRender == fw.pc = "idle" /\ session = "up" /\ ~config_update_pending

\* Render and hand the frame to the worker.  While video owns the display the
\* frame may be captured on the GPU alone, without reading the pixels back.
SubmitFrame(gpu_only) ==
    /\ ShouldRender
    /\ gpu_only => "gpu" \in Events /\ Owned /\ video_channel
    /\ fw' = [IdleWorker EXCEPT !.pc = "submitted", !.gpu_only = gpu_only]
    /\ UNCHANGED <<session_vars, epoch_vars, policy, worker_vars, video_vars,
                   refresh_requested, shadow_valid, pixel_vars>>

\* No frame this time: let the worker drain its queues.
RequestService ==
    /\ fw.pc = "idle"
    /\ fw' = [IdleWorker EXCEPT !.pc = "service"]
    /\ UNCHANGED <<session_vars, epoch_vars, policy, worker_vars, video_vars, refresh_vars,
                   pixel_vars>>

\* wd_server_apply_display_size: new geometry, framebuffers and queues.
Resize ==
    /\ "resize" \in Events
    /\ fw.pc = "idle" /\ session \in {"down", "up"}
    /\ content_epoch < MaxEpoch /\ framebuffer_generation < MaxGeneration
    /\ framebuffer_generation' = framebuffer_generation + 1
    /\ VideoReset(content_epoch, session = "up", TRUE) /\ active_job' = Discarded(active_job)
    /\ config_update_pending' = TRUE
    /\ dirty' = FALSE /\ lost' = TRUE
    /\ shadow_valid' = FALSE
    /\ UNCHANGED <<last_frame, session_vars, fw, refresh_requested>>

\* The reaped video sender reports a transport failure on the live channel.
VideoTransportFailed ==
    /\ "transport" \in Events
    /\ session = "up" /\ video_channel /\ video_tx # <<>>
    /\ VideoReset(content_epoch, TRUE, FALSE) /\ active_job' = Discarded(active_job)
    /\ refresh_requested' = TRUE
    /\ UNCHANGED <<last_frame, session_vars, framebuffer_generation, config_update_pending, fw,
                   shadow_valid, pixel_vars>>

\* wd_stream_controller_tick, then the statistics are cleared, so what the
\* client presented is known (0 or the latest report) only for the last second.
Tick(tile, frame, health, auto, low_dirty) ==
    LET p == UpdateMode(UpdateHealth(policy, tile, frame, health),
                        tile, video_channel, auto, low_dirty)
        owned == VideoOwnsDisplay(p.stream_mode)
    IN  /\ content_epoch' = IF owned # Owned THEN content_epoch + 1 ELSE content_epoch
        /\ policy' = IF Owned /\ p.stream_mode = "TILE_RECOVERY"
                       THEN [p EXCEPT !.tile_recovery_content_epoch = content_epoch + 1]
                       ELSE p
        /\ UNCHANGED <<session_vars, framebuffer_generation, config_update_pending,
                       worker_vars, video_vars, fw, refresh_vars, pixel_vars>>

\* The statistics a tick may see.  Reports name epochs and frames the client
\* has been sent; only video has a health, only an automatic session looks at
\* the share of the screen that changed.
ControllerTick ==
    \E tile \in {0, content_epoch},
       frame \in IF Mode = "VIDEO_RECOVERING" THEN {0, MaxFrameId} ELSE {0},
       health \in IF ~UsesVideoFrames(Mode) THEN {"IDLE"}
                  ELSE IF Mode = "VIDEO_READY" /\ content_epoch >= MaxEpoch
                    THEN HealthClasses \ {"DECODER_OVERLOADED"} ELSE HealthClasses,
       coverage \in IF policy.video_mode = "auto" THEN {"high", "medium", "low"} ELSE {"medium"} :
          Tick(tile, frame, health, coverage = "high", coverage = "low")

-----------------------------------------------------------------------------
(* The frame worker. *)

RefreshDue(p) ==
    \/ p.tile_refresh_pending
    \/ p.stream_mode = "TILE_RECOVERY" /\ ~p.tile_recovery_refresh_started

\* wd_stream_frame_force_full_refresh
SampleForce ==
    /\ fw.pc = "submitted"
    /\ fw' = [fw EXCEPT !.pc = "sampled", !.force = RefreshDue(policy)]
    /\ UNCHANGED <<session_vars, epoch_vars, policy, worker_vars, video_vars, refresh_vars,
                   pixel_vars>>

\* wd_video_shadow_skip_diff
SkipDiff == Owned /\ ~fw.force /\ ~policy.tile_refresh_pending /\ ~config_update_pending

\* wd_stream_analyze_frame: skip the diff while video owns the display; give
\* up a frame whose pixels were not read back; or diff against the shadow.
Analyze ==
    /\ fw.pc = "sampled"
    /\ \/ /\ SkipDiff
          /\ fw' = [fw EXCEPT !.pc = "frame", !.skipped = TRUE]
          /\ shadow_valid' = FALSE
          /\ UNCHANGED <<refresh_requested, lost>>
       \/ /\ ~SkipDiff /\ fw.gpu_only
          /\ fw' = IdleWorker
          /\ refresh_requested' = TRUE /\ lost' = TRUE
          /\ UNCHANGED shadow_valid
       \/ /\ ~SkipDiff /\ ~fw.gpu_only
          /\ LET full == fw.force \/ ~shadow_valid
             IN \E changed \in (IF full THEN {TRUE} ELSE BOOLEAN) :
                   fw' = [fw EXCEPT !.pc = "frame", !.full = full, !.changed = changed]
          /\ shadow_valid' = TRUE
          /\ UNCHANGED <<refresh_requested, lost>>
    /\ UNCHANGED <<session_vars, epoch_vars, policy, worker_vars, video_vars, dirty>>

\* wd_stream_try_publish_video_snapshot_locked: the mailbox holds one job and
\* a newer frame supersedes it.  Whether the frame worker has a snapshot is left
\* open: it was decided in an earlier critical section (the mode and the
\* sender's queue as they were then) and its copy may have failed.
PublishSnapshot(p) ==
    LET job == [source_content_epoch |-> content_epoch,
                request_keyframe |-> \/ p.stream_mode = "VIDEO_READY"
                                     \/ /\ p.stream_mode = "VIDEO_RECOVERING"
                                        /\ ~p.video_recovery_keyframe_queued,
                first_video_entry |-> p.stream_mode = "VIDEO_READY"]
    IN  pending_job' \in IF UsesVideoFrames(p.stream_mode) /\ video_channel /\ video_tx = <<>>
                           THEN {pending_job, job} ELSE {pending_job}

AtPass    == fw.pc \in {"frame", "service"}
Admitted  == session = "up" /\ ~config_update_pending
FullFrame == fw.pc = "frame" /\ fw.full

\* The frame shows something that tiles have not shown.
News == fw.pc = "frame" /\ (fw.skipped \/ fw.changed)

\* wd_stream_send_tiles: no client, or one that has not installed the new
\* configuration.
RefusePass ==
    /\ AtPass /\ ~Admitted
    /\ fw' = IdleWorker
    /\ lost' = (lost \/ News)
    /\ UNCHANGED <<session_vars, epoch_vars, policy, worker_vars, video_vars, refresh_vars,
                   dirty>>

\* The tiles need a frame that is a full refresh and this pass has none: ask
\* the compositor for one.
AskFullFrame ==
    /\ AtPass /\ Admitted
    /\ \/ fw.pc = "frame" /\ fw.skipped /\ ~Owned
       \/ RefreshDue(policy) /\ ~FullFrame
    /\ refresh_requested' = TRUE
    /\ fw' = IdleWorker
    /\ lost' = (lost \/ News)
    /\ UNCHANGED <<session_vars, epoch_vars, policy, worker_vars, video_vars, shadow_valid, dirty>>

\* The full frame starts the refresh that is due.
StartRefresh(p) ==
    LET recovering == p.stream_mode = "TILE_RECOVERY"
        bootstrap  == p.video_bootstrap_pending /\ ~p.video_bootstrap_refresh_started
    IN  [p EXCEPT
           !.tile_refresh_pending = FALSE,
           !.tile_recovery_refresh_started = recovering,
           !.tile_recovery_refresh_sent = FALSE,
           !.tile_recovery_wait_seconds = 0,
           !.tile_recovery_content_epoch = IF recovering THEN content_epoch ELSE @,
           !.tile_recovery_framebuffer_generation =
                IF recovering THEN framebuffer_generation ELSE @,
           !.tile_recovery_live_damage_deferred = @ /\ ~recovering,
           !.video_bootstrap_refresh_started = @ \/ bootstrap,
           !.video_bootstrap_refresh_sent = @ /\ ~bootstrap,
           !.video_bootstrap_content_epoch = IF bootstrap THEN content_epoch ELSE @]

\* Mutant of StaleGeneration: the barrier is never compared.
AnyGeneration(p) == FALSE

\* wd_tile_recovery_generation_decide: the barrier belongs to another framebuffer.
StaleGeneration(p) ==
    /\ p.stream_mode = "TILE_RECOVERY"
    /\ p.tile_recovery_refresh_started /\ ~p.tile_recovery_refresh_sent
    /\ p.tile_recovery_framebuffer_generation \notin {0, framebuffer_generation}

\* Mutant of RefreshTransmitted: every later pass says so again.
RefreshDrained(p, queued) ==
    /\ p.stream_mode = "TILE_RECOVERY" /\ p.tile_recovery_refresh_started
    /\ ~StaleGeneration(p) /\ ~queued
    /\ p.tile_recovery_framebuffer_generation # 0

\* A recovery refresh whose queue has drained has been transmitted.
RefreshTransmitted(p, queued) ==
    /\ p.stream_mode = "TILE_RECOVERY" /\ p.tile_recovery_refresh_started
    /\ ~p.tile_recovery_refresh_sent /\ ~StaleGeneration(p) /\ ~queued
    /\ p.tile_recovery_framebuffer_generation # 0

\* The end of a pass.
FinishRefresh(p, queued) ==
    LET stale == StaleGeneration(p)
        sent  == RefreshTransmitted(p, queued)
    IN  [p EXCEPT
           !.tile_refresh_pending = @ \/ stale,
           !.tile_recovery_refresh_started = @ /\ ~stale,
           !.tile_recovery_refresh_sent = @ \/ sent,
           !.tile_recovery_wait_seconds = IF stale \/ sent THEN 0 ELSE @,
           !.tile_recovery_content_epoch = IF stale THEN 0 ELSE @,
           !.tile_recovery_framebuffer_generation = IF stale THEN 0 ELSE @,
           !.video_bootstrap_refresh_sent =
                @ \/ (p.video_bootstrap_pending /\ p.video_bootstrap_refresh_started /\ ~queued)]

\* Video owns the display: the frame goes to the video worker, tile work of
\* the transition is dropped.
VideoPass ==
    /\ AtPass /\ Admitted /\ Owned
    /\ RefreshDue(policy) => FullFrame
    /\ fw' = IdleWorker
    /\ IF fw.pc = "service" THEN UNCHANGED <<policy, pending_job, pixel_vars>>
       ELSE /\ policy' = IF RefreshDue(policy) THEN StartRefresh(policy) ELSE policy
            /\ PublishSnapshot(policy')
            /\ dirty' = FALSE
            /\ lost' = (lost \/ dirty \/ News)
    /\ UNCHANGED <<session_vars, epoch_vars, active_job, encoder, video_vars, refresh_vars>>

\* Tiles own the display: start a refresh that is due, queue what the frame
\* changed (unless a recovery snapshot is draining), and begin to send.
TilePass ==
    LET due    == RefreshDue(policy)
        p      == IF due THEN StartRefresh(policy) ELSE policy
        defer  == /\ fw.pc = "frame" /\ ~due
                  /\ Mode = "TILE_RECOVERY" /\ p.tile_recovery_refresh_started
        q      == [p EXCEPT !.tile_recovery_live_damage_deferred = @ \/ defer]
        apply  == fw.pc = "frame" /\ ~defer
        queued == (dirty /\ ~due) \/ (apply /\ fw.changed)
    IN  /\ AtPass /\ Admitted /\ ~Owned /\ ~fw.skipped
        /\ due => FullFrame
        /\ video_tx' \in IF due /\ Mode = "TILE_RECOVERY"
                           THEN ControlFrameQueued(video_tx, content_epoch) ELSE {video_tx}
        /\ IF apply THEN PublishSnapshot(q) ELSE UNCHANGED pending_job
        /\ dirty' = queued
        /\ lost' = IF apply THEN lost /\ ~fw.full ELSE lost \/ News
        /\ \/ /\ queued
              /\ fw' = [IdleWorker EXCEPT !.pc = "sending"]
              /\ policy' = q
              /\ UNCHANGED refresh_requested
           \/ /\ fw' = IdleWorker
              /\ policy' = FinishRefresh(q, queued)
              /\ refresh_requested' = (refresh_requested \/ StaleGeneration(q))
    /\ UNCHANGED <<last_frame, session_vars, epoch_vars, active_job, encoder, shadow_valid>>

\* Encoded tiles come back; while a client is connected they are sent to it,
\* under the epoch the server has now.
SendingTiles == fw.pc = "sending" /\ dirty /\ session = "up"

SendResults ==
    /\ fw.pc = "sending" /\ dirty
    /\ dirty' \in BOOLEAN
    /\ UNCHANGED <<session_vars, epoch_vars, policy, worker_vars, video_vars, fw, refresh_vars,
                   lost>>

\* The queue is empty, or the byte budget is.
FinishPass ==
    /\ fw.pc = "sending"
    /\ fw' = IdleWorker
    /\ policy' = FinishRefresh(policy, dirty)
    /\ refresh_requested' = (refresh_requested \/ StaleGeneration(policy))
    /\ UNCHANGED <<session_vars, epoch_vars, worker_vars, video_vars, shadow_valid,
                   pixel_vars>>

-----------------------------------------------------------------------------
(* The video worker, and the transport. *)

\* Mutant of JobCurrent: the epoch is not compared.
JobOfAnyEpoch(job, discarded) == ~discarded /\ video_channel /\ UsesVideoFrames(Mode)

\* wd_stream_video_job_current_locked; the session, the token and the socket
\* of a job change only together with the worker epoch.
JobCurrent(job, discarded) ==
    /\ ~discarded
    /\ content_epoch = job.source_content_epoch
    /\ video_channel
    /\ UsesVideoFrames(Mode)

\* Take the mailbox's job; drop it when outdated or while a frame is unsent.
TakeJob ==
    /\ pending_job # NoJob /\ active_job.stage = "idle"
    /\ active_job' = IF JobCurrent(pending_job, FALSE) /\ video_tx = <<>>
                       THEN [NoActiveJob EXCEPT !.stage = "encoding", !.job = pending_job]
                       ELSE NoActiveJob
    /\ pending_job' = NoJob
    /\ UNCHANGED <<session_vars, epoch_vars, policy, encoder, video_vars, fw, refresh_vars,
                   pixel_vars>>

\* Mutant of Configured: the encoder session goes on.
StillConfigured(epoch) == encoder

\* wd_video_encoder_configure: another epoch is another encoder session.
Configured(epoch) ==
    IF encoder.epoch = epoch THEN encoder ELSE [epoch |-> epoch, next_frame_id |-> 1]

\* Encode under the encoder lock alone: a frame, or nothing.
Encode ==
    LET e == Configured(active_job.job.source_content_epoch)
    IN  /\ active_job.stage = "encoding"
        /\ \/ /\ active_job' = [active_job EXCEPT !.stage = "encoded"]
              /\ encoder' = e
           \/ /\ e.next_frame_id <= MaxFrameId
              /\ active_job.job.first_video_entry => e.epoch < MaxEpoch
              /\ \E keyframe \in BOOLEAN :
                    active_job' = [active_job EXCEPT !.stage = "encoded",
                                     !.frame_id = e.next_frame_id, !.keyframe = keyframe]
              /\ encoder' = [e EXCEPT !.next_frame_id = @ + 1]
        /\ UNCHANGED <<session_vars, epoch_vars, policy, pending_job, video_vars, fw, refresh_vars,
                       pixel_vars>>

Publishable ==
    /\ active_job.frame_id # 0
    /\ JobCurrent(active_job.job, active_job.discarded)
    /\ video_tx = <<>>
    /\ active_job.job.request_keyframe => active_job.keyframe

\* The encoder failed, or the frame is outdated, or not what was asked for.
DropFrame ==
    /\ active_job.stage = "encoded" /\ ~Publishable
    /\ active_job' = NoActiveJob
    /\ UNCHANGED <<session_vars, epoch_vars, policy, pending_job, encoder, video_vars, fw,
                   refresh_vars, pixel_vars>>

\* The sender refuses the frame: the display goes back to the tiles.
RefusedFrame ==
    /\ active_job.stage = "encoded" /\ Publishable
    /\ VideoReset(content_epoch, TRUE, FALSE) /\ active_job' = NoActiveJob
    /\ UNCHANGED <<last_frame, session_vars, framebuffer_generation, config_update_pending, fw, refresh_vars,
                   pixel_vars>>

\* wd_video_entry_plan_make: the keyframe that enters video carries the epoch
\* its commit will install.
EntersVideo == active_job.job.first_video_entry /\ active_job.job.request_keyframe /\ active_job.keyframe

FrameEpoch == active_job.job.source_content_epoch + (IF EntersVideo THEN 1 ELSE 0)

\* wd_video_recovery_track_keyframe
TrackRecoveryKeyframe(p) ==
    IF Mode = "VIDEO_RECOVERING" /\ active_job.keyframe /\ ~p.video_recovery_keyframe_queued
      THEN [p EXCEPT !.video_recovery_keyframe_queued = TRUE,
                     !.video_recovery_keyframe_id = active_job.frame_id,
                     !.video_recovery_wait_seconds = 0]
      ELSE p

\* The frame is queued; a first keyframe commits the entry into video.
QueueFrame ==
    LET commit == Mode = "VIDEO_READY" /\ EntersVideo
    IN  /\ active_job.stage = "encoded" /\ Publishable
        /\ last_frame' = [epoch |-> FrameEpoch, frame_id |-> active_job.frame_id]
        /\ video_tx' = Append(video_tx, last_frame')
        /\ active_job' = NoActiveJob
        /\ content_epoch' = IF commit THEN FrameEpoch ELSE content_epoch
        /\ encoder' = IF commit /\ encoder.epoch = content_epoch
                        THEN [encoder EXCEPT !.epoch = FrameEpoch] ELSE encoder
        /\ policy' = IF commit THEN SetMode(policy, "VIDEO_ACTIVE", "NONE")
                     ELSE TrackRecoveryKeyframe(policy)
        /\ UNCHANGED <<session_vars, framebuffer_generation, config_update_pending,
                       pending_job, fw, refresh_vars, pixel_vars>>

\* The sender completes the head of its queue.
VideoSent ==
    /\ video_tx # <<>>
    /\ video_tx' = Tail(video_tx)
    /\ UNCHANGED <<last_frame, session_vars, epoch_vars, policy, worker_vars, fw, refresh_vars,
                   pixel_vars>>

-----------------------------------------------------------------------------
Network ==
    \/ \E mode \in SessionVideoModes, video_capable \in BOOLEAN : Negotiate(mode, video_capable)
    \/ NegotiationFailed
    \/ Publish
    \/ Disconnect
    \/ VideoChannelClosed
    \/ ConfigApplied
    \/ \E flag \in {"recover", "fallback"} : VideoFeedback(flag)

Compositor ==
    \/ ApplyCompositorRequests
    \/ \E gpu_only \in BOOLEAN : SubmitFrame(gpu_only)
    \/ RequestService
    \/ Resize
    \/ VideoTransportFailed
    \/ ControllerTick

FrameWorkerStep ==
    \/ SampleForce \/ Analyze
    \/ RefusePass \/ AskFullFrame \/ VideoPass \/ TilePass
    \/ SendResults \/ FinishPass

VideoWorkerStep == TakeJob \/ Encode \/ DropFrame \/ RefusedFrame \/ QueueFrame

Next == Network \/ Compositor \/ FrameWorkerStep \/ VideoWorkerStep \/ VideoSent

Spec == Init /\ [][Next]_vars

\* A tick that counts the seconds of a recovery: whatever it sees moves the
\* recovery on.  (Other ticks may well change nothing.)
RecoveryTick == Mode \in {"TILE_RECOVERY", "VIDEO_RECOVERING"} /\ ControllerTick

\* Every thread runs.  The frame timer finds the worker idle again and again
\* and does not prefer service passes to frames for ever; the byte budget of
\* the tiles refills, so that a pass is sometimes allowed to send and a queue
\* which is sent again and again drains; the client answers a configuration.
\* Nothing is assumed of the encoder.
Fairness ==
    /\ WF_vars(RecoveryTick)
    /\ WF_vars(ApplyCompositorRequests)
    /\ SF_vars(SubmitFrame(FALSE))
    /\ WF_vars(FrameWorkerStep)
    /\ WF_vars(FinishPass)
    /\ SF_vars(TilePass /\ fw'.pc = "sending")
    /\ SF_vars(SendResults /\ ~dirty')
    /\ WF_vars(VideoWorkerStep)
    /\ WF_vars(VideoSent)
    /\ WF_vars(ConfigApplied)

FairSpec == Spec /\ Fairness

-----------------------------------------------------------------------------
(* Properties. *)

\* The types of the pipeline's state (struct wd_stream_policy, the workers); no
\* counter of the controller runs below zero.
TypeOK ==
    /\ session \in {"down", "negotiated", "up"}
    /\ video_channel \in BOOLEAN
    /\ content_epoch \in Nat /\ framebuffer_generation \in Nat
    /\ config_update_pending \in BOOLEAN
    /\ policy \in Policy
    /\ pending_job \in Job /\ active_job \in ActiveJob /\ encoder \in Encoder
    /\ video_tx \in Seq(VideoFrame) /\ last_frame \in VideoFrame
    /\ fw \in FrameWorker
    /\ refresh_requested \in BOOLEAN /\ shadow_valid \in BOOLEAN
    /\ dirty \in BOOLEAN /\ lost \in BOOLEAN

-----------------------------------------------------------------------------
(* Ownership of the display. *)

Ownership == INSTANCE DisplayOwnership
    WITH epoch <- content_epoch, video_owns <- Owned, stream <- video_tx

\* The pipeline keeps the ownership promise: content_epoch moves at every
\* handoff and never back, and a VIDEO_FRAME message enters the sender's queue
\* only under an epoch whose owner sends its kind, after all earlier ones.
KeepsOwnership == Ownership!OwnershipSpec

\* A job that is still of the current epoch enters video exactly while tiles
\* own the display, and then it insists on a keyframe.
JobOfOwner(job) ==
    /\ job.source_content_epoch <= content_epoch
    /\ job.source_content_epoch = content_epoch =>
          /\ job.first_video_entry <=> ~Owned
          /\ job.first_video_entry => job.request_keyframe

\* A frame that may still be published came from the encoder session there is.
EncodedFrameCurrent ==
    LET a == active_job
    IN  /\ a.stage = "encoded" /\ a.frame_id # 0 /\ ~a.discarded
        /\ a.job.source_content_epoch = content_epoch
        => encoder.epoch = content_epoch /\ encoder.next_frame_id > a.frame_id

\* Once a frame of the current epoch is queued, the video owns the display and
\* whatever the video worker does next comes after that frame.
LastFrameOwned ==
    /\ last_frame.epoch <= content_epoch
    /\ last_frame.epoch = content_epoch /\ last_frame.frame_id # 0 =>
          /\ Owned
          /\ encoder.epoch = content_epoch /\ encoder.next_frame_id > last_frame.frame_id
          /\ active_job.stage # "idle" => active_job.job.source_content_epoch = content_epoch
          /\ active_job.stage = "encoded" /\ active_job.frame_id # 0 =>
                active_job.frame_id > last_frame.frame_id

\* The inductive invariant behind KeepsOwnership: what the mailbox, the video
\* worker and the encoder hold agrees with the epoch and its owner, or is
\* outdated and will be dropped before it is published
\* (wd_stream_video_job_current_locked), and only a session has video.
OwnershipInv ==
    /\ session # "up" => Mode = "TILES" /\ ~video_channel
    /\ pending_job # NoJob => JobOfOwner(pending_job)
    /\ active_job.stage # "idle" => JobOfOwner(active_job.job)
    /\ active_job.stage = "encoding" => active_job.frame_id = 0
    /\ EncodedFrameCurrent
    /\ LastFrameOwned

\* A recovery from VIDEO_RECOVERING waits for a keyframe that was queued in the
\* epoch the video owns now, so that its presentation can be told from the
\* presentation of an earlier epoch's frame by the epoch
\* (wd_video_recovery_track_keyframe, wd_video_recovery_decide).
RecoveryKeyframeCurrent ==
    Mode = "VIDEO_RECOVERING" /\ policy.video_recovery_keyframe_queued =>
        /\ last_frame.epoch = content_epoch
        /\ policy.video_recovery_keyframe_id \in 1..last_frame.frame_id

(* Pixels. *)

\* While no frame is in the worker's hands and tiles own the display, pixels
\* the client lacks are queued, or a full refresh that will bring them is on
\* its way: due, requested, forced by an invalid shadow, or owed for deferred
\* damage.  No handoff, drop or refusal of a frame loses them for good
\* (wd_stream_send_tiles, wd_stream_analyze_frame, the controller's tick).
DamageAccounted ==
    fw.pc = "idle" /\ session = "up" /\ lost /\ ~UsesVideoFrames(Mode) =>
        \/ config_update_pending \/ refresh_requested \/ ~shadow_valid
        \/ RefreshDue(policy)
        \/ Mode = "TILE_RECOVERY" /\ policy.tile_recovery_live_damage_deferred

\* A recovery refresh is declared transmitted (tile_recovery_refresh_sent) only
\* when the client has been sent the whole framebuffer of this generation, or
\* what it lacks is damage deferred behind the recovery barrier.
RecoverySentIsWhole ==
    [][policy'.tile_recovery_refresh_sent /\ ~policy.tile_recovery_refresh_sent =>
          ~lost' \/ policy'.tile_recovery_live_damage_deferred]_vars

\* The same for the bootstrap refresh, which the end of wd_stream_send_tiles
\* declares transmitted (video_bootstrap_refresh_sent).
BootstrapSentIsWhole ==
    [][policy'.video_bootstrap_refresh_sent /\ ~policy.video_bootstrap_refresh_sent =>
          ~lost']_vars

\* docs/threading.md: worker completion "must reject obsolete ... content-epoch
\* ... work": no tile is sent under an epoch that video owns
\* (wd_stream_encode_result_stale_locked in wd_stream_send_tiles).
TilesOnlyWhenTileOwned == SendingTiles => ~Owned

\* Video takes the display without decoder feedback about an earlier epoch (the
\* VIDEO_FEEDBACK handler, wd_stream_policy_update_health_locked).
VideoBeginsWithoutFeedback ==
    [][Mode = "VIDEO_READY" /\ VideoOwnsDisplay(policy'.stream_mode) =>
          policy'.video_feedback_flags = "none"]_vars

(* Progress, under FairSpec. *)

\* A display that the tiles are to repair settles.  A recovery of the tiles does
\* not last for ever: its refresh is started, drained and presented, or given
\* up after TileRecoveryTimeout.  Pixels the client lacks reach it by a full
\* refresh.  Both have happened at one moment, unless video is selected or the
\* session ends first (wd_stream_policy_update_health_locked,
\* wd_stream_send_tiles, server_apply_pending_compositor_requests).
DisplaySettles ==
    session = "up" /\ (lost \/ Mode = "TILE_RECOVERY") ~>
        (~lost /\ Mode # "TILE_RECOVERY") \/ UsesVideoFrames(Mode) \/ session # "up"

\* Damage deferred behind the recovery barrier reaches the client by tiles, or
\* video takes the display (the deferral in wd_stream_send_tiles, and the resume
\* in wd_stream_policy_update_mode_locked).
DeferredDamageShown ==
    Mode = "TILE_RECOVERY" /\ policy.tile_recovery_live_damage_deferred ~>
        ~lost \/ Owned \/ session # "up"

=============================================================================
