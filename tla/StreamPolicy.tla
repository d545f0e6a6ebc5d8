---------------------------- MODULE StreamPolicy ----------------------------
(***************************************************************************)
(* The stream controller's decisions: struct wd_stream_policy and the      *)
(* functions of wd_stream.c and wd_video_transition.c that move it between *)
(* tiles and video.  The module has no variables.  A policy is a record    *)
(* with the names of the source's fields; each function of the source is   *)
(* an operator from a policy (and the statistics of the last second) to a  *)
(* policy, so that the actions that hold net.lock compose them.            *)
(*                                                                         *)
(* Left out: the fields that pace capture and divide bandwidth (fps, rates,*)
(* token buckets, EWMAs), which no field below reads, and the ones that    *)
(* only feed log lines.  The dirty-coverage statistics and the health      *)
(* counters enter as the answers the source draws from them.               *)
(***************************************************************************)
EXTENDS Integers

CONSTANTS
    EnterSeconds,              \* video_enter_seconds of the hello
    ExitSeconds,               \* video_exit_seconds of the hello
    RetryCooldown,             \* WD_STREAM_VIDEO_RETRY_COOLDOWN_SECONDS
    TileRecoveryTimeout,       \* WD_STREAM_TILE_RECOVERY_TIMEOUT_SECONDS
    VideoRecoveryTimeout,      \* WD_STREAM_VIDEO_RECOVERY_TIMEOUT_SECONDS
    VideoRecoveryMaxAttempts,  \* WD_STREAM_VIDEO_RECOVERY_MAX_ATTEMPTS
    ClientFailureSeconds       \* WD_STREAM_VIDEO_CLIENT_FAILURE_SECONDS

ASSUME StreamPolicyAssumption ==
    /\ EnterSeconds \in Nat \ {0}
    /\ ExitSeconds \in Nat \ {0}
    /\ RetryCooldown \in Nat
    /\ TileRecoveryTimeout \in Nat \ {0}
    /\ VideoRecoveryTimeout \in Nat \ {0}
    /\ VideoRecoveryMaxAttempts \in Nat \ {0}
    /\ ClientFailureSeconds \in Nat \ {0}

Modes == {"TILES", "VIDEO_CANDIDATE", "VIDEO_READY", "VIDEO_ACTIVE",
          "VIDEO_RECOVERING", "TILE_RECOVERY"}
VideoModes == {"off", "auto", "force"}
RecoveryClasses == {"NONE", "FAILURE", "PLANNED"}

\* What the controller does with the client's decoder feedback: nothing,
\* recover with a new keyframe, or give the display back to the tiles.
FeedbackFlags == {"none", "recover", "fallback"}

\* The classes of client health that the controller tells apart: IDLE also
\* stands for NORMAL and AUDIO_WAIT, DECODER_OVERLOADED for AWAITING_KEYFRAME.
HealthClasses == {"IDLE", "DECODER_OVERLOADED", "PIPELINE_STALL", "HARD_FAILURE"}

Policy ==
    [stream_mode: Modes, video_mode: VideoModes,
     tile_refresh_pending: BOOLEAN,
     tile_recovery_refresh_started: BOOLEAN,
     tile_recovery_refresh_sent: BOOLEAN,
     tile_recovery_wait_seconds: Nat,
     tile_recovery_content_epoch: Nat,
     tile_recovery_framebuffer_generation: Nat,
     tile_recovery_live_damage_deferred: BOOLEAN,
     video_bootstrap_pending: BOOLEAN,
     video_bootstrap_refresh_started: BOOLEAN,
     video_bootstrap_refresh_sent: BOOLEAN,
     video_bootstrap_content_epoch: Nat,
     video_candidate_seconds: Nat,
     tile_recovery_seconds: Nat,
     video_retry_cooldown_seconds: Nat,
     video_recovery_class: RecoveryClasses,
     planned_recovery_resume_video: BOOLEAN,
     video_client_failure_class: HealthClasses,
     video_client_failure_seconds: Nat,
     video_recovery_attempts: Nat,
     video_recovery_wait_seconds: Nat,
     video_recovery_keyframe_queued: BOOLEAN,
     video_recovery_keyframe_id: Nat,
     video_feedback_flags: FeedbackFlags]

UsesVideoFrames(mode) == mode \in {"VIDEO_READY", "VIDEO_ACTIVE", "VIDEO_RECOVERING"}
VideoOwnsDisplay(mode) == mode \in {"VIDEO_ACTIVE", "VIDEO_RECOVERING"}

\* wd_stream_policy_set_defaults, with the mode the hello asks for.
PolicyDefaults(mode) ==
    [stream_mode |-> "TILES", video_mode |-> mode,
     tile_refresh_pending |-> FALSE,
     tile_recovery_refresh_started |-> FALSE,
     tile_recovery_refresh_sent |-> FALSE,
     tile_recovery_wait_seconds |-> 0,
     tile_recovery_content_epoch |-> 0,
     tile_recovery_framebuffer_generation |-> 0,
     tile_recovery_live_damage_deferred |-> FALSE,
     video_bootstrap_pending |-> FALSE,
     video_bootstrap_refresh_started |-> FALSE,
     video_bootstrap_refresh_sent |-> FALSE,
     video_bootstrap_content_epoch |-> 0,
     video_candidate_seconds |-> 0,
     tile_recovery_seconds |-> 0,
     video_retry_cooldown_seconds |-> 0,
     video_recovery_class |-> "NONE",
     planned_recovery_resume_video |-> FALSE,
     video_client_failure_class |-> "IDLE",
     video_client_failure_seconds |-> 0,
     video_recovery_attempts |-> 0,
     video_recovery_wait_seconds |-> 0,
     video_recovery_keyframe_queued |-> FALSE,
     video_recovery_keyframe_id |-> 0,
     video_feedback_flags |-> "none"]

\* A new session owes the client a full tile refresh, and, when the hello asks
\* for video, the presentation of that refresh before video may be chosen.
BeginSession(mode, video_capable, epoch) ==
    LET bootstrap == mode # "off" /\ video_capable
    IN  [PolicyDefaults(mode) EXCEPT
            !.tile_refresh_pending = TRUE,
            !.video_bootstrap_pending = bootstrap,
            !.video_bootstrap_content_epoch = IF bootstrap THEN epoch ELSE 0]

-----------------------------------------------------------------------------
(* wd_stream_policy_set_mode_locked *)

\* Forget a tile recovery refresh.
ClearRecoveryRefresh(p) ==
    [p EXCEPT !.tile_recovery_refresh_started = FALSE,
              !.tile_recovery_refresh_sent = FALSE,
              !.tile_recovery_wait_seconds = 0,
              !.tile_recovery_framebuffer_generation = 0,
              !.tile_recovery_live_damage_deferred = FALSE]

SetMode(p, mode, class) ==
    LET old     == p.stream_mode
        recover == mode = "TILE_RECOVERY"
    IN  IF old = mode THEN p
        ELSE [ClearRecoveryRefresh(p) EXCEPT
                !.stream_mode = mode,
                !.tile_refresh_pending =
                    @ \/ recover \/ (VideoOwnsDisplay(old) /\ ~VideoOwnsDisplay(mode)),
                !.tile_recovery_content_epoch = IF recover THEN 0 ELSE @,
                !.video_client_failure_seconds = IF recover THEN 0 ELSE @,
                !.video_recovery_class =
                    IF recover THEN class
                    ELSE IF UsesVideoFrames(mode) /\ ~UsesVideoFrames(old) THEN "NONE"
                    ELSE @,
                !.planned_recovery_resume_video = @ /\ (recover => class = "PLANNED")]

-----------------------------------------------------------------------------
(* wd_stream_policy_update_health_locked.  tile_epoch and frame_id are what *)
(* the client reported presented since the last tick (0: no report).        *)

\* wd_tile_recovery_decide
TileRecoveryDecide(p, tile_epoch) ==
    IF ~p.tile_recovery_refresh_sent \/ p.tile_recovery_content_epoch = 0 THEN "WAIT"
    ELSE IF tile_epoch >= p.tile_recovery_content_epoch THEN "PRESENTED"
    ELSE IF p.tile_recovery_wait_seconds >= TileRecoveryTimeout THEN "TIMEOUT"
    ELSE "WAIT"

\* wd_video_recovery_decide
VideoRecoveryDecide(p, frame_id) ==
    IF /\ p.video_recovery_keyframe_queued
       /\ p.video_recovery_keyframe_id # 0
       /\ frame_id >= p.video_recovery_keyframe_id THEN "PRESENTED"
    ELSE IF p.video_recovery_wait_seconds < VideoRecoveryTimeout THEN "WAIT"
    ELSE IF p.video_recovery_attempts < VideoRecoveryMaxAttempts THEN "RETRY_KEYFRAME"
    ELSE "FALLBACK_TILES"

\* Mutant of RefreshOwed: deferred damage is forgotten.
RefreshPending(p) == p.tile_refresh_pending

\* The end of a recovery owes the damage deferred behind its barrier.
RefreshOwed(p) == p.tile_refresh_pending \/ p.tile_recovery_live_damage_deferred

\* The display is the tiles' again, but video may not be chosen before the
\* client has presented the recovery refresh, or failed to in time.
TileRecoveryHealth(p, tile_epoch) ==
    LET action == TileRecoveryDecide(p, tile_epoch)
        resume == /\ action = "PRESENTED"
                  /\ p.video_recovery_class = "PLANNED"
                  /\ p.planned_recovery_resume_video
        done   == [p EXCEPT
                     !.video_retry_cooldown_seconds = IF resume THEN 0 ELSE RetryCooldown,
                     !.video_recovery_class = IF action = "TIMEOUT" THEN "FAILURE" ELSE @,
                     !.planned_recovery_resume_video = @ /\ action # "TIMEOUT",
                     !.tile_refresh_pending = RefreshOwed(p),
                     !.video_client_failure_seconds = 0]
    IN  IF action # "WAIT" THEN SetMode(done, "TILES", "NONE")
        ELSE [p EXCEPT !.tile_recovery_wait_seconds =
                            IF p.tile_recovery_refresh_sent THEN @ + 1 ELSE @,
                       !.video_client_failure_seconds = 0]

\* Ask for a (new) recovery keyframe: none is queued yet.
NewRecoveryAttempt(p, attempts) ==
    [p EXCEPT !.video_recovery_attempts = attempts,
              !.video_recovery_wait_seconds = 0,
              !.video_recovery_keyframe_queued = FALSE,
              !.video_recovery_keyframe_id = 0]

VideoRecoveringHealth(p, frame_id) ==
    LET action == VideoRecoveryDecide(p, frame_id)
        quiet  == [p EXCEPT !.video_client_failure_seconds = 0]
    IN  CASE action = "PRESENTED" ->
                NewRecoveryAttempt(SetMode(quiet, "VIDEO_ACTIVE", "NONE"), 0)
          [] action = "RETRY_KEYFRAME" ->
                NewRecoveryAttempt(quiet, p.video_recovery_attempts + 1)
          [] action = "FALLBACK_TILES" ->
                [SetMode(quiet, "TILE_RECOVERY", "FAILURE") EXCEPT
                    !.video_recovery_attempts = 0, !.video_recovery_wait_seconds = 0]
          [] action = "WAIT" ->
                [quiet EXCEPT !.video_recovery_wait_seconds = @ + 1]

\* wd_video_health_streak_update
HealthStreak(p, health) ==
    LET counted == health \in {"PIPELINE_STALL", "HARD_FAILURE"}
    IN  [p EXCEPT
            !.video_client_failure_class = IF counted THEN health ELSE "IDLE",
            !.video_client_failure_seconds =
                IF ~counted THEN 0
                ELSE IF p.video_client_failure_class = health THEN @ + 1 ELSE 1]

\* Video is selected and not already recovering: judge the client's health.
VideoHealth(p, health) ==
    LET streak == HealthStreak(p, health)
        calm(q) == [q EXCEPT !.video_client_failure_seconds = 0,
                             !.video_client_failure_class = "IDLE"]
    IN  IF health = "DECODER_OVERLOADED"
          THEN calm(SetMode(NewRecoveryAttempt(p, 1), "VIDEO_RECOVERING", "FAILURE"))
        ELSE IF streak.video_client_failure_seconds >= ClientFailureSeconds
          THEN calm(SetMode(streak, "TILE_RECOVERY", "FAILURE"))
        ELSE streak

UpdateHealth(p, tile_epoch, frame_id, health) ==
    LET heard == [p EXCEPT !.video_feedback_flags = "none"]
    IN  CASE p.stream_mode = "TILE_RECOVERY" -> TileRecoveryHealth(p, tile_epoch)
          [] p.stream_mode = "VIDEO_ACTIVE" /\ p.video_feedback_flags = "fallback" ->
                SetMode(heard, "TILE_RECOVERY", "FAILURE")
          [] p.stream_mode = "VIDEO_ACTIVE" /\ p.video_feedback_flags = "recover" ->
                SetMode(NewRecoveryAttempt(heard, 1), "VIDEO_RECOVERING", "FAILURE")
          [] p.stream_mode = "VIDEO_RECOVERING" -> VideoRecoveringHealth(heard, frame_id)
          [] \/ p.stream_mode = "VIDEO_READY"
             \/ p.stream_mode = "VIDEO_ACTIVE" /\ p.video_feedback_flags = "none" ->
                VideoHealth(heard, health)
          [] p.stream_mode \in {"TILES", "VIDEO_CANDIDATE"} -> p

-----------------------------------------------------------------------------
(* wd_stream_policy_update_mode_locked.  channel: video is negotiated and   *)
(* its channel and worker are there; auto: the tile statistics make video a *)
(* candidate; low_dirty: little of the screen changed.                      *)

AllowsEntry(p, channel) == p.video_mode # "off" /\ channel

\* Video may be chosen only after the client presented the bootstrap refresh.
BootstrapGate(p, tile_epoch) ==
    LET presented == /\ p.video_bootstrap_refresh_sent
                     /\ p.video_bootstrap_content_epoch # 0
                     /\ tile_epoch >= p.video_bootstrap_content_epoch
        waiting   == [p EXCEPT !.video_candidate_seconds = 0]
    IN  IF presented
          THEN [waiting EXCEPT !.video_bootstrap_pending = FALSE,
                               !.video_bootstrap_refresh_started = FALSE,
                               !.video_bootstrap_refresh_sent = FALSE]
          ELSE waiting

\* Video selected before a resize is selected again without the entry criteria.
ResumePlanned(p) ==
    SetMode([p EXCEPT !.planned_recovery_resume_video = FALSE,
                      !.video_candidate_seconds = 0,
                      !.tile_recovery_seconds = 0,
                      !.tile_refresh_pending = FALSE,
                      !.tile_recovery_live_damage_deferred = FALSE],
            "VIDEO_READY", "NONE")

VideoUnavailable(p) ==
    LET reset == [p EXCEPT !.video_candidate_seconds = 0, !.tile_recovery_seconds = 0]
    IN  IF VideoOwnsDisplay(p.stream_mode)
          THEN SetMode(reset, "TILE_RECOVERY", "FAILURE")
          ELSE SetMode(reset, "TILES", "NONE")

EntryCandidate(p) ==
    LET stay    == [p EXCEPT !.tile_recovery_seconds = 0]
        seconds == p.video_candidate_seconds + 1
    IN  IF p.stream_mode \in {"VIDEO_ACTIVE", "VIDEO_READY"} THEN stay
        ELSE SetMode([stay EXCEPT !.video_candidate_seconds = seconds],
                     IF p.video_mode = "force" \/ seconds >= EnterSeconds
                       THEN "VIDEO_READY" ELSE "VIDEO_CANDIDATE",
                     "NONE")

NotCandidate(p, low_dirty) ==
    LET idle    == [p EXCEPT !.video_candidate_seconds = 0]
        seconds == p.tile_recovery_seconds + 1
    IN  IF p.stream_mode = "TILES" \/ p.video_mode = "force" \/ ~low_dirty
          THEN [idle EXCEPT !.tile_recovery_seconds = 0]
        ELSE IF seconds >= ExitSeconds
          THEN [SetMode(idle, "TILE_RECOVERY", "PLANNED") EXCEPT !.tile_recovery_seconds = 0]
        ELSE [idle EXCEPT !.tile_recovery_seconds = seconds]

\* Mutant of Cooldown: no check for zero.
CooldownUnchecked(p) == p.video_retry_cooldown_seconds - 1

\* The seconds left before video may be tried again.
Cooldown(p) ==
    IF p.video_retry_cooldown_seconds # 0 THEN p.video_retry_cooldown_seconds - 1
    ELSE p.video_retry_cooldown_seconds

UpdateMode(p, tile_epoch, channel, auto, low_dirty) ==
    LET allowed   == AllowsEntry(p, channel)
        cooling   == p.video_retry_cooldown_seconds # 0
        q         == [p EXCEPT
                        !.video_retry_cooldown_seconds = Cooldown(p),
                        !.planned_recovery_resume_video = @ /\ allowed]
        forced    == p.video_mode = "force"
        candidate == /\ ~cooling \/ (forced /\ p.video_recovery_class = "PLANNED")
                     /\ forced \/ auto
    IN  IF p.stream_mode = "TILE_RECOVERY"
          THEN [p EXCEPT !.video_candidate_seconds = 0]
        ELSE IF p.stream_mode = "VIDEO_RECOVERING" /\ allowed
          THEN [p EXCEPT !.video_candidate_seconds = 0, !.tile_recovery_seconds = 0]
        ELSE IF p.video_bootstrap_pending
          THEN BootstrapGate(p, tile_epoch)
        ELSE IF q.planned_recovery_resume_video /\ p.stream_mode = "TILES"
          THEN ResumePlanned(q)
        ELSE IF ~allowed
          THEN VideoUnavailable(q)
        ELSE IF candidate
          THEN EntryCandidate(q)
        ELSE NotCandidate(q, low_dirty)
=============================================================================
