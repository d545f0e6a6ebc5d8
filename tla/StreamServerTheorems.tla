------------------------ MODULE StreamServerTheorems ------------------------
(***************************************************************************)
(* The state of the streaming pipeline is well typed in every behaviour,   *)
(* for every value of the constants.  First the operators of StreamPolicy: *)
(* each maps policies to policies, and leaves a known stream mode where    *)
(* the ownership of the display depends on it.                             *)
(*                                                                         *)
(* An update of several fields is typed in three steps: the update has the *)
(* right type for all values of the right types; the values the operator   *)
(* computes have those types; the operator's result is that update.        *)
(***************************************************************************)
EXTENDS StreamServer, TLAPS

(* The policy. *)

(* The policies a session starts from (set_defaults, begin_session). *)

\* wd_stream_policy_set_defaults gives every field a value of its type, in mode TILES.
LEMMA PolicyDefaultsType ==
    ASSUME NEW mode \in VideoModes
    PROVE  PolicyDefaults(mode) \in Policy /\ PolicyDefaults(mode).stream_mode = "TILES"
BY DEF PolicyDefaults, Policy, Modes, VideoModes, RecoveryClasses, HealthClasses, FeedbackFlags

\* wd_stream_policy_begin_session starts every session in mode TILES, barrier armed or not.
LEMMA BeginSessionType ==
    ASSUME NEW mode \in VideoModes, NEW video_capable \in BOOLEAN, NEW epoch \in Nat
    PROVE  /\ BeginSession(mode, video_capable, epoch) \in Policy
           /\ BeginSession(mode, video_capable, epoch).stream_mode = "TILES"
<1> DEFINE p == PolicyDefaults(mode)
           bootstrap == mode # "off" /\ video_capable
           e == IF bootstrap THEN epoch ELSE 0
<1>1. p \in Policy /\ p.stream_mode = "TILES"
  BY PolicyDefaultsType
<1> HIDE DEF p
<1>2. \A b \in BOOLEAN, n \in Nat :
         LET q == [p EXCEPT !.tile_refresh_pending = TRUE, !.video_bootstrap_pending = b,
                            !.video_bootstrap_content_epoch = n]
         IN  q \in Policy /\ q.stream_mode = "TILES"
  BY <1>1, Zenon DEF Policy
<1>3. bootstrap \in BOOLEAN /\ e \in Nat
  OBVIOUS
<1>4. BeginSession(mode, video_capable, epoch)
        = [p EXCEPT !.tile_refresh_pending = TRUE, !.video_bootstrap_pending = bootstrap,
                    !.video_bootstrap_content_epoch = e]
  BY Zenon DEF BeginSession, p
<1> DEFINE r == [p EXCEPT !.tile_refresh_pending = TRUE, !.video_bootstrap_pending = bootstrap,
                    !.video_bootstrap_content_epoch = e]
<1> HIDE DEF bootstrap, e
<1>5. r \in Policy /\ r.stream_mode = "TILES"
  BY <1>2, <1>3, Zenon
<1> HIDE DEF r
<1> QED BY <1>4, <1>5, Zenon DEF r

-----------------------------------------------------------------------------
(* set_mode *)

\* Clearing the recovery barrier leaves the mode alone.
LEMMA ClearRecoveryRefreshType ==
    ASSUME NEW p \in Policy
    PROVE  /\ ClearRecoveryRefresh(p) \in Policy
           /\ ClearRecoveryRefresh(p).stream_mode = p.stream_mode
BY Zenon DEF ClearRecoveryRefresh, Policy

\* The fields wd_stream_policy_set_mode_locked assigns, as one update.
LEMMA SetModeUpdate ==
    ASSUME NEW c \in Policy, NEW mode \in Modes, NEW refresh \in BOOLEAN, NEW epoch \in Nat,
           NEW seconds \in Nat, NEW class \in RecoveryClasses, NEW resume \in BOOLEAN
    PROVE  [c EXCEPT !.stream_mode = mode, !.tile_refresh_pending = refresh,
                     !.tile_recovery_content_epoch = epoch,
                     !.video_client_failure_seconds = seconds,
                     !.video_recovery_class = class,
                     !.planned_recovery_resume_video = resume] \in Policy
BY Zenon DEF Policy

\* wd_stream_policy_set_mode_locked reaches the mode it is asked for, with a well-typed policy.
LEMMA SetModeType ==
    ASSUME NEW p \in Policy, NEW mode \in Modes, NEW class \in RecoveryClasses
    PROVE  /\ SetMode(p, mode, class) \in Policy
           /\ SetMode(p, mode, class).stream_mode = mode
<1> DEFINE c == ClearRecoveryRefresh(p)
           recover == mode = "TILE_RECOVERY"
           refresh == c.tile_refresh_pending \/ recover
                        \/ (VideoOwnsDisplay(p.stream_mode) /\ ~VideoOwnsDisplay(mode))
           epoch   == IF recover THEN 0 ELSE c.tile_recovery_content_epoch
           seconds == IF recover THEN 0 ELSE c.video_client_failure_seconds
           cause   == IF recover THEN class
                      ELSE IF UsesVideoFrames(mode) /\ ~UsesVideoFrames(p.stream_mode) THEN "NONE"
                      ELSE c.video_recovery_class
           resume  == c.planned_recovery_resume_video /\ (recover => class = "PLANNED")
<1>1. c \in Policy /\ c.stream_mode = p.stream_mode
  BY ClearRecoveryRefreshType
<1>3. refresh \in BOOLEAN /\ resume \in BOOLEAN
  OBVIOUS
<1>4. epoch \in Nat /\ seconds \in Nat /\ cause \in RecoveryClasses
  BY <1>1 DEF Policy, RecoveryClasses
<1>5. SetMode(p, mode, class) =
        IF p.stream_mode = mode THEN p
        ELSE [c EXCEPT !.stream_mode = mode, !.tile_refresh_pending = refresh,
                       !.tile_recovery_content_epoch = epoch,
                       !.video_client_failure_seconds = seconds,
                       !.video_recovery_class = cause,
                       !.planned_recovery_resume_video = resume]
  BY Zenon DEF SetMode
<1> DEFINE r == [c EXCEPT !.stream_mode = mode, !.tile_refresh_pending = refresh,
                          !.tile_recovery_content_epoch = epoch,
                          !.video_client_failure_seconds = seconds,
                          !.video_recovery_class = cause,
                          !.planned_recovery_resume_video = resume]
<1> HIDE DEF c, refresh, epoch, seconds, cause, resume
<1>6. r \in Policy
  BY <1>1, <1>3, <1>4, SetModeUpdate, Zenon
<1>8. r.stream_mode = mode
  BY <1>1 DEF Policy
<1>7. SetMode(p, mode, class) = IF p.stream_mode = mode THEN p ELSE r
  BY <1>5
<1> HIDE DEF r
<1> QED BY <1>6, <1>7, <1>8

-----------------------------------------------------------------------------
(* update_health *)

\* The fields the end of a tile recovery assigns, as one update.
LEMMA RecoveryDoneUpdate ==
    ASSUME NEW p \in Policy, NEW cooldown \in Nat, NEW class \in RecoveryClasses,
           NEW resume \in BOOLEAN, NEW refresh \in BOOLEAN
    PROVE  [p EXCEPT !.video_retry_cooldown_seconds = cooldown,
                     !.video_recovery_class = class,
                     !.planned_recovery_resume_video = resume,
                     !.tile_refresh_pending = refresh,
                     !.video_client_failure_seconds = 0] \in Policy
BY Zenon DEF Policy

\* The tile-recovery branch of wd_stream_policy_update_health_locked, whichever of resume,
\* return to tiles and timeout it takes.
LEMMA TileRecoveryHealthType ==
    ASSUME NEW p \in Policy, NEW tile_epoch \in Nat
    PROVE  TileRecoveryHealth(p, tile_epoch) \in Policy
<1> DEFINE action   == TileRecoveryDecide(p, tile_epoch)
           resume   == /\ action = "PRESENTED"
                       /\ p.video_recovery_class = "PLANNED"
                       /\ p.planned_recovery_resume_video
           cooldown == IF resume THEN 0 ELSE RetryCooldown
           class    == IF action = "TIMEOUT" THEN "FAILURE" ELSE p.video_recovery_class
           again    == p.planned_recovery_resume_video /\ action # "TIMEOUT"
           refresh  == RefreshOwed(p)
           done     == [p EXCEPT !.video_retry_cooldown_seconds = cooldown,
                                 !.video_recovery_class = class,
                                 !.planned_recovery_resume_video = again,
                                 !.tile_refresh_pending = refresh,
                                 !.video_client_failure_seconds = 0]
           wait     == IF p.tile_recovery_refresh_sent THEN p.tile_recovery_wait_seconds + 1
                       ELSE p.tile_recovery_wait_seconds
           waiting  == [p EXCEPT !.tile_recovery_wait_seconds = wait,
                                 !.video_client_failure_seconds = 0]
<1>1. cooldown \in Nat /\ class \in RecoveryClasses /\ wait \in Nat
  BY StreamPolicyAssumption DEF Policy, RecoveryClasses
<1>2. again \in BOOLEAN /\ refresh \in BOOLEAN
  BY DEF RefreshOwed
<1>3. TileRecoveryHealth(p, tile_epoch)
        = IF action # "WAIT" THEN SetMode(done, "TILES", "NONE") ELSE waiting
  BY Zenon DEF TileRecoveryHealth
<1>4. "TILES" \in Modes /\ "NONE" \in RecoveryClasses
  BY DEF Modes, RecoveryClasses
<1> HIDE DEF cooldown, class, again, refresh, wait
<1>5. done \in Policy
  BY <1>1, <1>2, RecoveryDoneUpdate, Zenon
<1>6. waiting \in Policy
  BY <1>1, Zenon DEF Policy
<1> HIDE DEF done, waiting, action
<1> QED BY <1>3, <1>4, <1>5, <1>6, SetModeType

\* A new keyframe attempt leaves the mode alone.
LEMMA NewRecoveryAttemptType ==
    ASSUME NEW p \in Policy, NEW attempts \in Nat
    PROVE  /\ NewRecoveryAttempt(p, attempts) \in Policy
           /\ NewRecoveryAttempt(p, attempts).stream_mode = p.stream_mode
BY Zenon DEF NewRecoveryAttempt, Policy

\* The VIDEO_RECOVERING branch: presented, another keyframe, fall back or wait.
LEMMA VideoRecoveringHealthType ==
    ASSUME NEW p \in Policy, NEW frame_id \in Nat
    PROVE  VideoRecoveringHealth(p, frame_id) \in Policy
<1> DEFINE action == VideoRecoveryDecide(p, frame_id)
           quiet  == [p EXCEPT !.video_client_failure_seconds = 0]
           back   == SetMode(quiet, "TILE_RECOVERY", "FAILURE")
<1>1. action \in {"PRESENTED", "RETRY_KEYFRAME", "FALLBACK_TILES", "WAIT"}
  BY DEF VideoRecoveryDecide
<1>2. quiet \in Policy /\ p.video_recovery_attempts + 1 \in Nat
  BY DEF Policy
<1>3. [quiet EXCEPT !.video_recovery_wait_seconds = @ + 1] \in Policy
  <2> HIDE DEF quiet
  <2> QED BY <1>2 DEF Policy
<1>4. /\ {"VIDEO_ACTIVE", "TILE_RECOVERY"} \subseteq Modes
      /\ {"NONE", "FAILURE"} \subseteq RecoveryClasses
  BY DEF Modes, RecoveryClasses
<1> HIDE DEF quiet
<1>5. SetMode(quiet, "VIDEO_ACTIVE", "NONE") \in Policy /\ back \in Policy
  BY <1>2, <1>4, SetModeType
<1>6. [back EXCEPT !.video_recovery_attempts = 0, !.video_recovery_wait_seconds = 0] \in Policy
  <2> HIDE DEF back
  <2> QED BY <1>5, Zenon DEF Policy
<1>7. /\ NewRecoveryAttempt(SetMode(quiet, "VIDEO_ACTIVE", "NONE"), 0) \in Policy
      /\ NewRecoveryAttempt(quiet, p.video_recovery_attempts + 1) \in Policy
  BY <1>2, <1>5, NewRecoveryAttemptType
<1> HIDE DEF action
<1> QED BY <1>1, <1>3, <1>6, <1>7 DEF VideoRecoveringHealth, action, quiet, back

\* wd_video_health_streak_update counts consecutive bad seconds of one class.
LEMMA HealthStreakType ==
    ASSUME NEW p \in Policy, NEW health \in HealthClasses
    PROVE  HealthStreak(p, health) \in Policy
<1> DEFINE counted == health \in {"PIPELINE_STALL", "HARD_FAILURE"}
           class   == IF counted THEN health ELSE "IDLE"
           seconds == IF ~counted THEN 0
                      ELSE IF p.video_client_failure_class = health
                        THEN p.video_client_failure_seconds + 1 ELSE 1
           q == [p EXCEPT !.video_client_failure_class = class,
                          !.video_client_failure_seconds = seconds]
<1>1. class \in HealthClasses /\ seconds \in Nat
  BY DEF Policy, HealthClasses
<1>2. HealthStreak(p, health) = q
  BY DEF HealthStreak
<1> HIDE DEF class, seconds
<1>3. q \in Policy
  BY <1>1, Zenon DEF Policy
<1> QED BY <1>2, <1>3

\* The VIDEO_ACTIVE branch: a streak long enough leads to a keyframe or back to tiles.
LEMMA VideoHealthType ==
    ASSUME NEW p \in Policy, NEW health \in HealthClasses
    PROVE  VideoHealth(p, health) \in Policy
<1> DEFINE streak  == HealthStreak(p, health)
           calm(q) == [q EXCEPT !.video_client_failure_seconds = 0,
                                !.video_client_failure_class = "IDLE"]
           keyframe == SetMode(NewRecoveryAttempt(p, 1), "VIDEO_RECOVERING", "FAILURE")
           back     == SetMode(streak, "TILE_RECOVERY", "FAILURE")
<1>1. \A q \in Policy : calm(q) \in Policy
  BY Zenon DEF Policy, HealthClasses
<1>2. streak \in Policy /\ NewRecoveryAttempt(p, 1) \in Policy
  BY HealthStreakType, NewRecoveryAttemptType
<1>3. {"VIDEO_RECOVERING", "TILE_RECOVERY"} \subseteq Modes /\ "FAILURE" \in RecoveryClasses
  BY DEF Modes, RecoveryClasses
<1>4. keyframe \in Policy /\ back \in Policy
  BY <1>2, <1>3, SetModeType
<1>5. VideoHealth(p, health)
        = IF health = "DECODER_OVERLOADED" THEN calm(keyframe)
          ELSE IF streak.video_client_failure_seconds >= ClientFailureSeconds THEN calm(back)
          ELSE streak
  BY Zenon DEF VideoHealth
<1> HIDE DEF calm, streak, keyframe, back
<1> QED BY <1>1, <1>2, <1>4, <1>5

\* wd_stream_policy_update_health_locked as a whole.
LEMMA UpdateHealthType ==
    ASSUME NEW p \in Policy, NEW tile_epoch \in Nat, NEW frame_id \in Nat,
           NEW health \in HealthClasses
    PROVE  UpdateHealth(p, tile_epoch, frame_id, health) \in Policy
<1> DEFINE heard == [p EXCEPT !.video_feedback_flags = "none"]
<1>1. heard \in Policy /\ p.stream_mode \in Modes /\ p.video_feedback_flags \in FeedbackFlags
  BY DEF Policy, FeedbackFlags
<1> HIDE DEF heard
<1>2. /\ {"VIDEO_RECOVERING", "TILE_RECOVERY"} \subseteq Modes
      /\ "FAILURE" \in RecoveryClasses
  BY DEF Modes, RecoveryClasses
<1>3. NewRecoveryAttempt(heard, 1) \in Policy
  BY <1>1, NewRecoveryAttemptType
<1>4. /\ SetMode(heard, "TILE_RECOVERY", "FAILURE") \in Policy
      /\ SetMode(NewRecoveryAttempt(heard, 1), "VIDEO_RECOVERING", "FAILURE") \in Policy
  BY <1>1, <1>2, <1>3, SetModeType
<1>5. /\ TileRecoveryHealth(p, tile_epoch) \in Policy
      /\ VideoRecoveringHealth(heard, frame_id) \in Policy
      /\ VideoHealth(heard, health) \in Policy
  BY <1>1, TileRecoveryHealthType, VideoRecoveringHealthType, VideoHealthType
<1> QED BY <1>1, <1>4, <1>5 DEF UpdateHealth, heard, Modes, FeedbackFlags

-----------------------------------------------------------------------------
(* update_mode *)

\* The bootstrap gate of wd_stream_policy_update_mode_locked leaves the mode alone.
LEMMA BootstrapGateType ==
    ASSUME NEW p \in Policy, NEW tile_epoch \in Nat
    PROVE  /\ BootstrapGate(p, tile_epoch) \in Policy
           /\ BootstrapGate(p, tile_epoch).stream_mode = p.stream_mode
BY Zenon DEF BootstrapGate, Policy

\* The resumption of video after a planned recovery.
LEMMA ResumePlannedType ==
    ASSUME NEW p \in Policy
    PROVE  ResumePlanned(p) \in Policy
<1>1. [p EXCEPT !.planned_recovery_resume_video = FALSE, !.video_candidate_seconds = 0,
                !.tile_recovery_seconds = 0, !.tile_refresh_pending = FALSE,
                !.tile_recovery_live_damage_deferred = FALSE] \in Policy
  BY Zenon DEF Policy
<1>2. "VIDEO_READY" \in Modes /\ "NONE" \in RecoveryClasses
  BY DEF Modes, RecoveryClasses
<1> QED BY <1>1, <1>2, SetModeType DEF ResumePlanned

\* Where video is not available a stream in TILES stays there.
LEMMA VideoUnavailableType ==
    ASSUME NEW p \in Policy
    PROVE  /\ VideoUnavailable(p) \in Policy
           /\ p.stream_mode = "TILES" => VideoUnavailable(p).stream_mode = "TILES"
<1> DEFINE reset == [p EXCEPT !.video_candidate_seconds = 0, !.tile_recovery_seconds = 0]
<1>1. reset \in Policy
  BY Zenon DEF Policy
<1>2. /\ {"TILES", "TILE_RECOVERY"} \subseteq Modes /\ {"NONE", "FAILURE"} \subseteq RecoveryClasses
      /\ ~VideoOwnsDisplay("TILES")
  BY DEF Modes, RecoveryClasses, VideoOwnsDisplay
<1>3. VideoUnavailable(p) = IF VideoOwnsDisplay(p.stream_mode)
                              THEN SetMode(reset, "TILE_RECOVERY", "FAILURE")
                              ELSE SetMode(reset, "TILES", "NONE")
  BY DEF VideoUnavailable
<1> HIDE DEF reset
<1> QED BY <1>1, <1>2, <1>3, SetModeType

\* A second that speaks for video: candidate, then ready.
LEMMA EntryCandidateType ==
    ASSUME NEW p \in Policy
    PROVE  EntryCandidate(p) \in Policy
<1> DEFINE stay == [p EXCEPT !.tile_recovery_seconds = 0]
           seconds == p.video_candidate_seconds + 1
           counted == [stay EXCEPT !.video_candidate_seconds = seconds]
           mode == IF p.video_mode = "force" \/ seconds >= EnterSeconds
                     THEN "VIDEO_READY" ELSE "VIDEO_CANDIDATE"
<1>1. stay \in Policy /\ seconds \in Nat
  BY DEF Policy
<1>2. counted \in Policy
  <2> HIDE DEF stay, seconds
  <2> QED BY <1>1 DEF Policy
<1>3. mode \in Modes /\ "NONE" \in RecoveryClasses
  BY DEF Modes, RecoveryClasses
<1>4. EntryCandidate(p) = IF p.stream_mode \in {"VIDEO_ACTIVE", "VIDEO_READY"} THEN stay
                          ELSE SetMode(counted, mode, "NONE")
  BY Zenon DEF EntryCandidate
<1> HIDE DEF stay, counted, mode
<1> QED BY <1>1, <1>2, <1>3, <1>4, SetModeType

\* A second that speaks against video: idle, or the way back to tiles.
LEMMA NotCandidateType ==
    ASSUME NEW p \in Policy, NEW low_dirty \in BOOLEAN
    PROVE  NotCandidate(p, low_dirty) \in Policy
<1> DEFINE idle == [p EXCEPT !.video_candidate_seconds = 0]
           seconds == p.tile_recovery_seconds + 1
           back == SetMode(idle, "TILE_RECOVERY", "PLANNED")
<1>1. idle \in Policy /\ seconds \in Nat
  BY DEF Policy
<1>2. "TILE_RECOVERY" \in Modes /\ "PLANNED" \in RecoveryClasses
  BY DEF Modes, RecoveryClasses
<1> HIDE DEF idle, seconds
<1>3. back \in Policy
  BY <1>1, <1>2, SetModeType
<1> HIDE DEF back
<1>4. /\ [idle EXCEPT !.tile_recovery_seconds = 0] \in Policy
      /\ [idle EXCEPT !.tile_recovery_seconds = seconds] \in Policy
      /\ [back EXCEPT !.tile_recovery_seconds = 0] \in Policy
  BY <1>1, <1>3 DEF Policy
<1> QED BY <1>4, Zenon DEF NotCandidate, idle, seconds, back

\* The retry cooldown of wd_stream_policy_update_mode_locked leaves the mode alone.
LEMMA CooldownUpdate ==
    ASSUME NEW p \in Policy, NEW cooldown \in Nat, NEW resume \in BOOLEAN
    PROVE  LET q == [p EXCEPT !.video_retry_cooldown_seconds = cooldown,
                              !.planned_recovery_resume_video = resume]
           IN  /\ q \in Policy
               /\ q.stream_mode = p.stream_mode
               /\ q.planned_recovery_resume_video = resume
BY Zenon DEF Policy

\* wd_stream_policy_update_mode_locked as a whole; without a video channel TILES is kept.
LEMMA UpdateModeType ==
    ASSUME NEW p \in Policy, NEW tile_epoch \in Nat, NEW channel \in BOOLEAN,
           NEW auto \in BOOLEAN, NEW low_dirty \in BOOLEAN
    PROVE  /\ UpdateMode(p, tile_epoch, channel, auto, low_dirty) \in Policy
           /\ p.stream_mode = "TILES" /\ ~channel =>
                 UpdateMode(p, tile_epoch, channel, auto, low_dirty).stream_mode = "TILES"
<1> DEFINE allowed   == AllowsEntry(p, channel)
           cooling   == p.video_retry_cooldown_seconds # 0
           cooldown  == Cooldown(p)
           resume    == p.planned_recovery_resume_video /\ allowed
           q         == [p EXCEPT !.video_retry_cooldown_seconds = cooldown,
                                  !.planned_recovery_resume_video = resume]
           forced    == p.video_mode = "force"
           candidate == /\ ~cooling \/ (forced /\ p.video_recovery_class = "PLANNED")
                        /\ forced \/ auto
           result    == UpdateMode(p, tile_epoch, channel, auto, low_dirty)
<1>1. cooldown \in Nat
  BY DEF Policy, Cooldown
<1>2. resume \in BOOLEAN
  OBVIOUS
<1>3. result =
        IF p.stream_mode = "TILE_RECOVERY"
          THEN [p EXCEPT !.video_candidate_seconds = 0]
        ELSE IF p.stream_mode = "VIDEO_RECOVERING" /\ allowed
          THEN [p EXCEPT !.video_candidate_seconds = 0, !.tile_recovery_seconds = 0]
        ELSE IF p.video_bootstrap_pending
          THEN BootstrapGate(p, tile_epoch)
        ELSE IF q.planned_recovery_resume_video /\ p.stream_mode = "TILES"
          THEN ResumePlanned(q)
        ELSE IF ~allowed
          THEN VideoUnavailable(q)
        ELSE IF candidate
          THEN EntryCandidate(q)
        ELSE NotCandidate(q, low_dirty)
  BY Zenon DEF UpdateMode
<1>4. ~channel => ~allowed /\ ~resume
  BY DEF AllowsEntry
<1> HIDE DEF allowed, cooldown, resume, candidate, result
<1>5. q \in Policy
  BY <1>1, <1>2, CooldownUpdate, Zenon
<1>6. q.stream_mode = p.stream_mode /\ q.planned_recovery_resume_video = resume
  BY <1>1, <1>2 DEF Policy
<1> HIDE DEF q
<1>7. /\ [p EXCEPT !.video_candidate_seconds = 0] \in Policy
      /\ [p EXCEPT !.video_candidate_seconds = 0, !.tile_recovery_seconds = 0] \in Policy
  BY Zenon DEF Policy
<1>8. /\ BootstrapGate(p, tile_epoch) \in Policy
      /\ BootstrapGate(p, tile_epoch).stream_mode = p.stream_mode
  BY BootstrapGateType
<1>9. /\ ResumePlanned(q) \in Policy
      /\ VideoUnavailable(q) \in Policy
      /\ q.stream_mode = "TILES" => VideoUnavailable(q).stream_mode = "TILES"
      /\ EntryCandidate(q) \in Policy
      /\ NotCandidate(q, low_dirty) \in Policy
  BY <1>5, ResumePlannedType, VideoUnavailableType, EntryCandidateType, NotCandidateType
<1>10. result \in Policy
  BY <1>3, <1>7, <1>8, <1>9, Zenon
<1>11. p.stream_mode = "TILES" /\ ~channel => result.stream_mode = "TILES"
  BY <1>3, <1>4, <1>6, <1>8, <1>9
<1> QED BY <1>10, <1>11, Zenon DEF result

-----------------------------------------------------------------------------
(* The policy updates of the pipeline. *)

\* The fields wd_stream_video_reset_locked assigns, as one update.
LEMMA ResetUpdate ==
    ASSUME NEW p \in Policy, NEW resume \in BOOLEAN
    PROVE  [p EXCEPT !.video_candidate_seconds = 0, !.tile_recovery_seconds = 0,
                     !.planned_recovery_resume_video = resume] \in Policy
BY Zenon DEF Policy

\* wd_stream_video_reset_locked ends in TILES, or in TILE_RECOVERY while a client is connected.
LEMMA ResetPolicyType ==
    ASSUME NEW p \in Policy, NEW connected \in BOOLEAN, NEW resize \in BOOLEAN
    PROVE  /\ ResetPolicy(p, connected, resize) \in Policy
           /\ ResetPolicy(p, connected, resize).stream_mode
                \in {"TILES"} \cup (IF connected THEN {"TILE_RECOVERY"} ELSE {})
<1> DEFINE resume == resize /\ (p.planned_recovery_resume_video
                                  \/ (connected /\ UsesVideoFrames(p.stream_mode)))
           q == [p EXCEPT !.video_candidate_seconds = 0, !.tile_recovery_seconds = 0,
                          !.planned_recovery_resume_video = resume]
           restart == /\ resize
                      /\ p.stream_mode = "TILE_RECOVERY"
                      /\ p.video_recovery_class = "PLANNED"
           c == ClearRecoveryRefresh(q)
           again == [c EXCEPT !.tile_refresh_pending = TRUE, !.tile_recovery_content_epoch = 0]
           r == IF restart THEN again ELSE q
           mode == IF connected THEN "TILE_RECOVERY" ELSE "TILES"
           class == IF ~connected THEN "NONE" ELSE IF resize THEN "PLANNED" ELSE "FAILURE"
<1>1. resume \in BOOLEAN
  OBVIOUS
<1>2. mode \in Modes /\ class \in RecoveryClasses
  BY DEF Modes, RecoveryClasses
<1>3. ResetPolicy(p, connected, resize)
        = IF p.stream_mode = "TILES" THEN q ELSE SetMode(r, mode, class)
  BY Zenon DEF ResetPolicy
<1> HIDE DEF resume, class
<1>4. q \in Policy
  BY <1>1, ResetUpdate, Zenon
<1>5. q.stream_mode = p.stream_mode
  BY <1>1 DEF Policy
<1> HIDE DEF q
<1>6. c \in Policy
  BY <1>4, ClearRecoveryRefreshType
<1> HIDE DEF c
<1>7. again \in Policy
  BY <1>6, Zenon DEF Policy
<1> HIDE DEF again, restart
<1>8. r \in Policy
  BY <1>4, <1>7
<1> HIDE DEF r
<1>9. SetMode(r, mode, class) \in Policy /\ SetMode(r, mode, class).stream_mode = mode
  BY <1>2, <1>8, SetModeType
<1> QED BY <1>3, <1>4, <1>5, <1>9

\* The recovery fields the start of a full refresh assigns, as one update.
LEMMA RecoveryUpdate ==
    ASSUME NEW p \in Policy, NEW started \in BOOLEAN, NEW epoch \in Nat, NEW generation \in Nat
    PROVE  [p EXCEPT !.tile_refresh_pending = FALSE,
                     !.tile_recovery_refresh_started = started,
                     !.tile_recovery_refresh_sent = FALSE,
                     !.tile_recovery_wait_seconds = 0,
                     !.tile_recovery_content_epoch = epoch,
                     !.tile_recovery_framebuffer_generation = generation] \in Policy
BY Zenon DEF Policy

\* The bootstrap fields the start of a full refresh assigns, as one update.
LEMMA BootstrapUpdate ==
    ASSUME NEW p \in Policy, NEW deferred \in BOOLEAN, NEW started \in BOOLEAN,
           NEW sent \in BOOLEAN, NEW epoch \in Nat
    PROVE  [p EXCEPT !.tile_recovery_live_damage_deferred = deferred,
                     !.video_bootstrap_refresh_started = started,
                     !.video_bootstrap_refresh_sent = sent,
                     !.video_bootstrap_content_epoch = epoch] \in Policy
BY Zenon DEF Policy

\* The start of a full refresh in wd_stream_send_tiles leaves the mode alone.
LEMMA StartRefreshType ==
    ASSUME NEW p \in Policy, content_epoch \in Nat, framebuffer_generation \in Nat
    PROVE  /\ StartRefresh(p) \in Policy
           /\ StartRefresh(p).stream_mode = p.stream_mode
<1> DEFINE recovering == p.stream_mode = "TILE_RECOVERY"
           bootstrap  == p.video_bootstrap_pending /\ ~p.video_bootstrap_refresh_started
           epoch      == IF recovering THEN content_epoch ELSE p.tile_recovery_content_epoch
           generation == IF recovering THEN framebuffer_generation
                         ELSE p.tile_recovery_framebuffer_generation
           deferred   == p.tile_recovery_live_damage_deferred /\ ~recovering
           bstarted   == p.video_bootstrap_refresh_started \/ bootstrap
           bsent      == p.video_bootstrap_refresh_sent /\ ~bootstrap
           bepoch     == IF bootstrap THEN content_epoch ELSE p.video_bootstrap_content_epoch
           r1         == [p EXCEPT
                            !.tile_refresh_pending = FALSE,
                            !.tile_recovery_refresh_started = recovering,
                            !.tile_recovery_refresh_sent = FALSE,
                            !.tile_recovery_wait_seconds = 0,
                            !.tile_recovery_content_epoch = epoch,
                            !.tile_recovery_framebuffer_generation = generation]
           r2         == [r1 EXCEPT
                            !.tile_recovery_live_damage_deferred = deferred,
                            !.video_bootstrap_refresh_started = bstarted,
                            !.video_bootstrap_refresh_sent = bsent,
                            !.video_bootstrap_content_epoch = bepoch]
<1>1. recovering \in BOOLEAN /\ deferred \in BOOLEAN /\ bstarted \in BOOLEAN /\ bsent \in BOOLEAN
  OBVIOUS
<1>2. epoch \in Nat /\ generation \in Nat /\ bepoch \in Nat
  BY DEF Policy
<1>3. StartRefresh(p) = r2
  BY DEF StartRefresh
<1> HIDE DEF recovering, epoch, generation, deferred, bstarted, bsent, bepoch
<1>4. r1 \in Policy
  BY <1>1, <1>2, RecoveryUpdate, Zenon
<1>5. r1.stream_mode = p.stream_mode
  BY <1>1, <1>2 DEF Policy
<1> HIDE DEF r1
<1>6. r2 \in Policy
  BY <1>1, <1>2, <1>4, BootstrapUpdate, Zenon
<1>7. r2.stream_mode = r1.stream_mode
  BY <1>1, <1>2, <1>4 DEF Policy
<1> HIDE DEF r2
<1> QED BY <1>3, <1>5, <1>6, <1>7

\* The barrier flags the end of a send pass assigns, as one update.
LEMMA BarrierUpdate ==
    ASSUME NEW p \in Policy, NEW pending \in BOOLEAN, NEW started \in BOOLEAN, NEW sent \in BOOLEAN,
           NEW wait \in Nat
    PROVE  [p EXCEPT !.tile_refresh_pending = pending,
                     !.tile_recovery_refresh_started = started,
                     !.tile_recovery_refresh_sent = sent,
                     !.tile_recovery_wait_seconds = wait] \in Policy
BY Zenon DEF Policy

\* The barrier identity the end of a send pass assigns, as one update.
LEMMA BarrierIdentityUpdate ==
    ASSUME NEW p \in Policy, NEW epoch \in Nat, NEW generation \in Nat, NEW sent \in BOOLEAN
    PROVE  [p EXCEPT !.tile_recovery_content_epoch = epoch,
                     !.tile_recovery_framebuffer_generation = generation,
                     !.video_bootstrap_refresh_sent = sent] \in Policy
BY Zenon DEF Policy

\* The end of a send pass (wd_tile_recovery_generation_decide) leaves the mode alone.
LEMMA FinishRefreshType ==
    ASSUME NEW p \in Policy, NEW queued \in BOOLEAN
    PROVE  /\ FinishRefresh(p, queued) \in Policy
           /\ FinishRefresh(p, queued).stream_mode = p.stream_mode
<1> DEFINE stale == StaleGeneration(p)
           sent  == RefreshTransmitted(p, queued)
           pending    == p.tile_refresh_pending \/ stale
           started    == p.tile_recovery_refresh_started /\ ~stale
           rsent      == p.tile_recovery_refresh_sent \/ sent
           wait       == IF stale \/ sent THEN 0 ELSE p.tile_recovery_wait_seconds
           epoch      == IF stale THEN 0 ELSE p.tile_recovery_content_epoch
           generation == IF stale THEN 0 ELSE p.tile_recovery_framebuffer_generation
           bsent      == \/ p.video_bootstrap_refresh_sent
                         \/ (p.video_bootstrap_pending /\ p.video_bootstrap_refresh_started /\ ~queued)
           r1         == [p EXCEPT !.tile_refresh_pending = pending,
                                   !.tile_recovery_refresh_started = started,
                                   !.tile_recovery_refresh_sent = rsent,
                                   !.tile_recovery_wait_seconds = wait]
           r2         == [r1 EXCEPT !.tile_recovery_content_epoch = epoch,
                                    !.tile_recovery_framebuffer_generation = generation,
                                    !.video_bootstrap_refresh_sent = bsent]
<1>1. pending \in BOOLEAN /\ started \in BOOLEAN /\ rsent \in BOOLEAN /\ bsent \in BOOLEAN
  OBVIOUS
<1>2. wait \in Nat /\ epoch \in Nat /\ generation \in Nat
  BY DEF Policy
<1>3. FinishRefresh(p, queued) = r2
  BY Zenon DEF FinishRefresh
<1> HIDE DEF pending, started, rsent, wait, epoch, generation, bsent
<1>4. r1 \in Policy
  BY <1>1, <1>2, BarrierUpdate, Zenon
<1>5. r1.stream_mode = p.stream_mode
  BY <1>1, <1>2 DEF Policy
<1> HIDE DEF r1
<1>6. r2 \in Policy
  BY <1>1, <1>2, <1>4, BarrierIdentityUpdate, Zenon
<1>7. r2.stream_mode = r1.stream_mode
  BY <1>1, <1>2, <1>4 DEF Policy
<1> HIDE DEF r2
<1> QED BY <1>3, <1>5, <1>6, <1>7

\* wd_video_recovery_track_keyframe leaves the mode alone.
LEMMA TrackRecoveryKeyframeType ==
    ASSUME NEW p \in Policy, active_job \in ActiveJob
    PROVE  /\ TrackRecoveryKeyframe(p) \in Policy
           /\ TrackRecoveryKeyframe(p).stream_mode = p.stream_mode
<1>1. active_job.frame_id \in Nat
  BY DEF ActiveJob
<1> DEFINE id == active_job.frame_id
           r == [p EXCEPT !.video_recovery_keyframe_queued = TRUE,
                          !.video_recovery_keyframe_id = id,
                          !.video_recovery_wait_seconds = 0]
<1> HIDE DEF id
<1>2. r \in Policy /\ r.stream_mode = p.stream_mode
  BY <1>1, Zenon DEF Policy, id
<1> QED BY <1>2 DEF TrackRecoveryKeyframe, id

-----------------------------------------------------------------------------
(* Type correctness. *)

\* wd_async_tcp_sender_drop_message_type leaves whole frames on the video sender.
LEMMA AfterDropType ==
    ASSUME NEW tx \in Seq(VideoFrame), NEW kept \in AfterDrop(tx)
    PROVE  kept \in Seq(VideoFrame)
<1>1. CASE kept = <<>>
  BY <1>1
<1>2. CASE tx # <<>> /\ kept = <<Head(tx)>>
  <2>1. Head(tx) \in VideoFrame
    BY <1>2
  <2> QED BY <1>2, <2>1
<1> QED BY <1>1, <1>2 DEF AfterDrop

\* The end-of-stream frame joins whole frames.
LEMMA ControlFrameQueuedType ==
    ASSUME NEW tx \in Seq(VideoFrame), NEW epoch \in Nat, NEW next \in ControlFrameQueued(tx, epoch)
    PROVE  next \in Seq(VideoFrame)
<1>1. [epoch |-> epoch, frame_id |-> 0] \in VideoFrame
  BY DEF VideoFrame
<1> QED BY <1>1 DEF ControlFrameQueued

\* wd_stream_video_reset_locked keeps every variable it assigns in its type.
LEMMA VideoResetType ==
    ASSUME TypeOK, NEW epoch \in Nat, NEW connected \in BOOLEAN, NEW resize \in BOOLEAN,
           VideoReset(epoch, connected, resize)
    PROVE  /\ content_epoch' \in Nat
           /\ policy' \in Policy
           /\ policy'.stream_mode \in {"TILES"} \cup (IF connected THEN {"TILE_RECOVERY"} ELSE {})
           /\ video_tx' \in Seq(VideoFrame)
           /\ pending_job' \in Job
           /\ encoder' \in Encoder
<1>1. content_epoch' \in Nat
  BY DEF VideoReset
<1>2. /\ policy' \in Policy
      /\ policy'.stream_mode \in {"TILES"} \cup (IF connected THEN {"TILE_RECOVERY"} ELSE {})
  <2>1. policy' = ResetPolicy(policy, connected, resize)
    BY DEF VideoReset
  <2>2. policy \in Policy
    BY DEF TypeOK
  <2> QED BY <2>1, <2>2, ResetPolicyType
<1>3. video_tx' \in Seq(VideoFrame)
  <2>1. PICK kept \in AfterDrop(video_tx) :
           video_tx' \in IF resize THEN ControlFrameQueued(kept, content_epoch') ELSE {kept}
    BY DEF VideoReset
  <2>2. kept \in Seq(VideoFrame)
    BY AfterDropType DEF TypeOK
  <2> QED BY <1>1, <2>1, <2>2, ControlFrameQueuedType
<1>4. pending_job' \in Job /\ encoder' \in Encoder
  BY DEF VideoReset, Job, NoJob, Encoder, ResetEncoder
<1> QED BY <1>1, <1>2, <1>3, <1>4

\* Marking the running job obsolete keeps it a job.
LEMMA DiscardedType ==
    ASSUME NEW a \in ActiveJob
    PROVE  Discarded(a) \in ActiveJob
BY Zenon DEF Discarded, ActiveJob

\* Every handler of the network thread preserves the types.
LEMMA NetworkType == TypeOK /\ Network => TypeOK'
<1> SUFFICES ASSUME TypeOK, Network PROVE TypeOK'
  OBVIOUS
<1> USE DEF TypeOK, session_vars, epoch_vars, worker_vars, video_vars, refresh_vars, pixel_vars
<1>1. ASSUME NEW mode \in SessionVideoModes, NEW video_capable \in BOOLEAN,
             Negotiate(mode, video_capable)
      PROVE  TypeOK'
  <2>1. mode \in VideoModes /\ content_epoch + 1 \in Nat
    BY StreamServerAssumption
  <2>2. policy' \in Policy
    BY <1>1, <2>1, BeginSessionType DEF Negotiate
  <2> QED BY <1>1, <2>1, <2>2 DEF Negotiate
<1>2. CASE NegotiationFailed
  <2>1. policy' \in Policy
    BY <1>2, PolicyDefaultsType DEF NegotiationFailed, VideoModes
  <2> QED BY <1>2, <2>1 DEF NegotiationFailed
<1>3. CASE Publish
  <2>1. video_channel' \in BOOLEAN
    BY <1>3, Zenon DEF Publish, Policy
  <2> QED BY <1>3, <2>1, Zenon DEF Publish
<1>4. CASE Disconnect
  <2>1. VideoReset(content_epoch + 1, FALSE, FALSE)
    BY <1>4, Zenon DEF Disconnect
  <2>3. content_epoch + 1 \in Nat
    OBVIOUS
  <2>2. active_job' \in ActiveJob
    BY <1>4, DiscardedType DEF Disconnect
  <2> QED BY <1>4, <2>1, <2>2, <2>3, VideoResetType, Zenon DEF Disconnect
<1>5. CASE VideoChannelClosed
  <2>1. VideoReset(content_epoch, TRUE, FALSE)
    BY <1>5, Zenon DEF VideoChannelClosed
  <2>2. active_job' \in ActiveJob
    BY <1>5, DiscardedType DEF VideoChannelClosed
  <2> QED BY <1>5, <2>1, <2>2, VideoResetType, Zenon DEF VideoChannelClosed
<1>6. CASE ConfigApplied
  BY <1>6, Zenon DEF ConfigApplied
<1>7. ASSUME NEW flag \in {"recover", "fallback"}, VideoFeedback(flag)
      PROVE  TypeOK'
  <2> DEFINE f == IF policy.video_feedback_flags = "fallback" THEN policy.video_feedback_flags ELSE flag
  <2>1. f \in FeedbackFlags
    BY DEF FeedbackFlags
  <2>2. policy' = [policy EXCEPT !.video_feedback_flags = f]
    BY <1>7 DEF VideoFeedback
  <2> HIDE DEF f
  <2>3. policy' \in Policy
    BY <2>1, <2>2, Zenon DEF Policy
  <2> QED BY <1>7, <2>3 DEF VideoFeedback
<1> QED BY <1>1, <1>2, <1>3, <1>4, <1>5, <1>6, <1>7 DEF Network

\* One tick of wd_stream_controller_tick preserves the types, whatever the statistics say.
LEMMA TickType ==
    ASSUME TypeOK, NEW tile \in Nat, NEW frame \in Nat, NEW health \in HealthClasses,
           NEW auto \in BOOLEAN, NEW low_dirty \in BOOLEAN,
           Tick(tile, frame, health, auto, low_dirty)
    PROVE  TypeOK'
<1> DEFINE h == UpdateHealth(policy, tile, frame, health)
           p == UpdateMode(h, tile, video_channel, auto, low_dirty)
<1>1. h \in Policy
  BY UpdateHealthType DEF TypeOK
<1>2. p \in Policy
  <2> HIDE DEF h
  <2> QED BY <1>1, UpdateModeType DEF TypeOK
<1>3. /\ content_epoch' = IF VideoOwnsDisplay(p.stream_mode) # Owned THEN content_epoch + 1
                          ELSE content_epoch
      /\ policy' = IF Owned /\ p.stream_mode = "TILE_RECOVERY"
                     THEN [p EXCEPT !.tile_recovery_content_epoch = content_epoch + 1] ELSE p
      /\ UNCHANGED <<session_vars, framebuffer_generation, config_update_pending,
                     worker_vars, video_vars, fw, refresh_vars, pixel_vars>>
  BY Zenon DEF Tick
<1> HIDE DEF p
<1>4. content_epoch + 1 \in Nat
  BY DEF TypeOK
<1>5. [p EXCEPT !.tile_recovery_content_epoch = content_epoch + 1] \in Policy
  BY <1>2, <1>4 DEF Policy
<1>6. policy' \in Policy /\ content_epoch' \in Nat
  BY <1>2, <1>3, <1>4, <1>5 DEF TypeOK
<1> QED BY <1>3, <1>6 DEF TypeOK, session_vars, worker_vars, video_vars, refresh_vars, pixel_vars

\* The statistics a tick can see are among those TickType covers.
LEMMA ControllerTickArguments ==
    ASSUME TypeOK, ControllerTick
    PROVE  \E tile \in Nat, frame \in Nat, health \in HealthClasses, auto \in BOOLEAN,
              low_dirty \in BOOLEAN : Tick(tile, frame, health, auto, low_dirty)
<1>1. PICK tile \in {0, content_epoch},
           frame \in IF Mode = "VIDEO_RECOVERING" THEN {0, MaxFrameId} ELSE {0},
           health \in IF ~UsesVideoFrames(Mode) THEN {"IDLE"}
                      ELSE IF Mode = "VIDEO_READY" /\ content_epoch >= MaxEpoch
                        THEN HealthClasses \ {"DECODER_OVERLOADED"} ELSE HealthClasses,
           coverage \in IF policy.video_mode = "auto" THEN {"high", "medium", "low"} ELSE {"medium"} :
              Tick(tile, frame, health, coverage = "high", coverage = "low")
  BY DEF ControllerTick
<1>2. tile \in Nat /\ frame \in Nat /\ health \in HealthClasses
  BY StreamServerAssumption DEF TypeOK, HealthClasses
<1>3. (coverage = "high") \in BOOLEAN /\ (coverage = "low") \in BOOLEAN
  OBVIOUS
<1> QED BY <1>1, <1>2, <1>3, Zenon

\* Every step of the compositor thread preserves the types.
LEMMA CompositorType == TypeOK /\ Compositor => TypeOK'
<1> SUFFICES ASSUME TypeOK, Compositor PROVE TypeOK'
  OBVIOUS
<1> USE DEF TypeOK, session_vars, epoch_vars, worker_vars, video_vars, refresh_vars, pixel_vars
<1>1. CASE ApplyCompositorRequests
  BY <1>1, Zenon DEF ApplyCompositorRequests
<1>2. ASSUME NEW gpu_only \in BOOLEAN, SubmitFrame(gpu_only)
      PROVE  TypeOK'
  <2>1. fw' \in FrameWorker
    BY <1>2, Zenon DEF SubmitFrame, FrameWorker, IdleWorker
  <2> QED BY <1>2, <2>1 DEF SubmitFrame
<1>3. CASE RequestService
  <2>1. fw' \in FrameWorker
    BY <1>3, Zenon DEF RequestService, FrameWorker, IdleWorker
  <2> QED BY <1>3, <2>1 DEF RequestService
<1>4. CASE Resize
  <2>1. VideoReset(content_epoch, session = "up", TRUE)
    BY <1>4, Zenon DEF Resize
  <2>2. active_job' \in ActiveJob
    BY <1>4, DiscardedType DEF Resize
  <2>3. (session = "up") \in BOOLEAN
    OBVIOUS
  <2>4. /\ content_epoch' \in Nat /\ policy' \in Policy
        /\ video_tx' \in Seq(VideoFrame) /\ pending_job' \in Job /\ encoder' \in Encoder
    BY <2>1, <2>3, VideoResetType, Zenon
  <2>5. /\ framebuffer_generation' = framebuffer_generation + 1
        /\ config_update_pending' = TRUE /\ dirty' = FALSE /\ lost' = TRUE /\ shadow_valid' = FALSE
        /\ UNCHANGED <<last_frame, session_vars, fw, refresh_requested>>
    BY <1>4, Zenon DEF Resize
  <2>6. framebuffer_generation' \in Nat
    BY <2>5
  <2>7. /\ session' \in {"down", "negotiated", "up"} /\ video_channel' \in BOOLEAN
        /\ config_update_pending' \in BOOLEAN
        /\ last_frame' \in VideoFrame /\ fw' \in FrameWorker
        /\ refresh_requested' \in BOOLEAN /\ shadow_valid' \in BOOLEAN
        /\ dirty' \in BOOLEAN /\ lost' \in BOOLEAN
    BY <2>5, Zenon
  <2> QED BY <2>2, <2>4, <2>6, <2>7
<1>5. CASE VideoTransportFailed
  <2>1. VideoReset(content_epoch, TRUE, FALSE)
    BY <1>5, Zenon DEF VideoTransportFailed
  <2>2. active_job' \in ActiveJob
    BY <1>5, DiscardedType DEF VideoTransportFailed
  <2> QED BY <1>5, <2>1, <2>2, VideoResetType, Zenon DEF VideoTransportFailed
<1>6. CASE ControllerTick
  BY <1>6, ControllerTickArguments, TickType
<1> QED BY <1>1, <1>2, <1>3, <1>4, <1>5, <1>6 DEF Compositor

\* wd_stream_try_publish_video_snapshot_locked leaves a whole job in the pending slot.
LEMMA PublishSnapshotType ==
    ASSUME TypeOK, NEW p, PublishSnapshot(p)
    PROVE  pending_job' \in Job
<1> DEFINE key   == \/ p.stream_mode = "VIDEO_READY"
                    \/ p.stream_mode = "VIDEO_RECOVERING" /\ ~p.video_recovery_keyframe_queued
           first == p.stream_mode = "VIDEO_READY"
           job   == [source_content_epoch |-> content_epoch, request_keyframe |-> key,
                     first_video_entry |-> first]
<1>1. pending_job' \in {pending_job, job}
  BY DEF PublishSnapshot
<1>2. key \in BOOLEAN /\ first \in BOOLEAN
  OBVIOUS
<1> HIDE DEF key, first
<1>3. job \in Job
  BY <1>2 DEF Job, TypeOK
<1> HIDE DEF job
<1> QED BY <1>1, <1>3 DEF TypeOK

\* Every step of the frame worker preserves the types.
LEMMA FrameWorkerType == TypeOK /\ FrameWorkerStep => TypeOK'
<1> SUFFICES ASSUME TypeOK, FrameWorkerStep PROVE TypeOK'
  OBVIOUS
<1> USE DEF TypeOK, session_vars, epoch_vars, worker_vars, video_vars, refresh_vars, pixel_vars
<1>0. IdleWorker \in FrameWorker
  BY DEF IdleWorker, FrameWorker
<1>1. CASE SampleForce
  <2>1. RefreshDue(policy) \in BOOLEAN
    BY DEF RefreshDue
  <2>2. fw' = [fw EXCEPT !.pc = "sampled", !.force = RefreshDue(policy)]
    BY <1>1 DEF SampleForce
  <2>3. fw' \in FrameWorker
    <3> DEFINE due == RefreshDue(policy)
    <3> HIDE DEF due
    <3>1. due \in BOOLEAN /\ fw' = [fw EXCEPT !.pc = "sampled", !.force = due]
      BY <2>1, <2>2 DEF due
    <3> QED BY <3>1, Zenon DEF FrameWorker
  <2> QED BY <1>1, <2>3 DEF SampleForce
<1>2. CASE Analyze
  <2>1. fw' \in FrameWorker
    <3>1. CASE fw' = [fw EXCEPT !.pc = "frame", !.skipped = TRUE]
      BY <3>1, Zenon DEF FrameWorker
    <3>2. CASE fw' = IdleWorker
      BY <1>0, <3>2
    <3>3. CASE \E full \in BOOLEAN, changed \in BOOLEAN :
                 fw' = [fw EXCEPT !.pc = "frame", !.full = full, !.changed = changed]
      BY <3>3, Zenon DEF FrameWorker
    <3>4. fw.force \in BOOLEAN
      BY DEF FrameWorker
    <3>5. (fw.force \/ ~shadow_valid) \in BOOLEAN
      OBVIOUS
    <3> QED BY <1>2, <3>1, <3>2, <3>3, <3>5, Zenon DEF Analyze
  <2>2. /\ refresh_requested' \in BOOLEAN /\ shadow_valid' \in BOOLEAN /\ lost' \in BOOLEAN
    BY <1>2, Zenon DEF Analyze
  <2>3. UNCHANGED <<session_vars, epoch_vars, policy, worker_vars, video_vars, dirty>>
    BY <1>2, Zenon DEF Analyze
  <2> QED BY <2>1, <2>2, <2>3
<1>3. CASE RefusePass
  BY <1>0, <1>3 DEF RefusePass
<1>4. CASE AskFullFrame
  BY <1>0, <1>4 DEF AskFullFrame
<1>5. CASE VideoPass
  <2>1. policy' \in Policy
    BY <1>5, StartRefreshType DEF VideoPass
  <2>2. pending_job' \in Job
    BY <1>5, PublishSnapshotType DEF VideoPass
  <2>3. dirty' \in BOOLEAN /\ lost' \in BOOLEAN
    BY <1>5, Zenon DEF VideoPass
  <2>4. /\ fw' = IdleWorker
        /\ UNCHANGED <<session_vars, epoch_vars, active_job, encoder, video_vars, refresh_vars>>
    BY <1>5, Zenon DEF VideoPass
  <2> QED BY <1>0, <2>1, <2>2, <2>3, <2>4
<1>6. CASE TilePass
  <2> DEFINE due    == RefreshDue(policy)
             p      == IF due THEN StartRefresh(policy) ELSE policy
             defer  == /\ fw.pc = "frame" /\ ~due
                       /\ Mode = "TILE_RECOVERY" /\ p.tile_recovery_refresh_started
             damage == p.tile_recovery_live_damage_deferred \/ defer
             q      == [p EXCEPT !.tile_recovery_live_damage_deferred = damage]
             apply  == fw.pc = "frame" /\ ~defer
             queued == (dirty /\ ~due) \/ (apply /\ fw.changed)
  <2>1. p \in Policy
    BY StartRefreshType
  <2>2. damage \in BOOLEAN /\ queued \in BOOLEAN
    OBVIOUS
  <2>3. /\ video_tx' \in IF due /\ Mode = "TILE_RECOVERY"
                           THEN ControlFrameQueued(video_tx, content_epoch) ELSE {video_tx}
        /\ IF apply THEN PublishSnapshot(q) ELSE UNCHANGED pending_job
        /\ dirty' = queued
        /\ lost' = IF apply THEN lost /\ ~fw.full ELSE lost \/ News
        /\ \/ /\ fw' = [IdleWorker EXCEPT !.pc = "sending"]
              /\ policy' = q
              /\ UNCHANGED refresh_requested
           \/ /\ fw' = IdleWorker
              /\ policy' = FinishRefresh(q, queued)
              /\ refresh_requested' = (refresh_requested \/ StaleGeneration(q))
        /\ UNCHANGED <<last_frame, session_vars, epoch_vars, active_job, encoder, shadow_valid>>
    BY <1>6, Zenon DEF TilePass
  <2> HIDE DEF p, due, damage, apply
  <2>4. q \in Policy
    BY <2>1, <2>2, Zenon DEF Policy
  <2> HIDE DEF q, queued
  <2>5. policy' \in Policy
    BY <2>2, <2>3, <2>4, FinishRefreshType, Zenon
  <2>6. video_tx' \in Seq(VideoFrame)
    BY <2>3, ControlFrameQueuedType
  <2>7. pending_job' \in Job
    BY <2>3, PublishSnapshotType
  <2>8. fw' \in FrameWorker
    BY <2>3, <1>0, Zenon DEF IdleWorker, FrameWorker
  <2>9. dirty' \in BOOLEAN /\ lost' \in BOOLEAN /\ refresh_requested' \in BOOLEAN
    BY <2>2, <2>3, Zenon
  <2>10. UNCHANGED <<last_frame, session_vars, epoch_vars, active_job, encoder, shadow_valid>>
    BY <2>3
  <2> QED BY <2>5, <2>6, <2>7, <2>8, <2>9, <2>10
<1>7. CASE SendResults
  BY <1>7 DEF SendResults
<1>8. CASE FinishPass
  <2>1. policy' \in Policy
    BY <1>8, FinishRefreshType DEF FinishPass
  <2>2. refresh_requested' \in BOOLEAN
    BY <1>8 DEF FinishPass
  <2>3. /\ fw' = IdleWorker
        /\ UNCHANGED <<session_vars, epoch_vars, worker_vars, video_vars, shadow_valid, pixel_vars>>
    BY <1>8, Zenon DEF FinishPass
  <2> QED BY <1>0, <2>1, <2>2, <2>3
<1> QED BY <1>1, <1>2, <1>3, <1>4, <1>5, <1>6, <1>7, <1>8 DEF FrameWorkerStep

\* wd_video_encoder_configure leaves an encoder of the epoch it is asked for.
LEMMA ConfiguredType ==
    ASSUME encoder \in Encoder, NEW epoch \in Nat
    PROVE  Configured(epoch) \in Encoder /\ Configured(epoch).epoch = epoch
BY DEF Configured, Encoder

\* Every step of the video worker preserves the types.
LEMMA VideoWorkerType == TypeOK /\ VideoWorkerStep => TypeOK'
<1> SUFFICES ASSUME TypeOK, VideoWorkerStep PROVE TypeOK'
  OBVIOUS
<1> USE DEF TypeOK, session_vars, epoch_vars, worker_vars, video_vars, refresh_vars, pixel_vars
<1>0. NoActiveJob \in ActiveJob /\ NoJob \in Job
  BY DEF NoActiveJob, ActiveJob, NoJob, Job
<1>1. CASE TakeJob
  <2>1. [NoActiveJob EXCEPT !.stage = "encoding", !.job = pending_job] \in ActiveJob
    BY Zenon DEF NoActiveJob, ActiveJob
  <2>2. active_job' \in ActiveJob /\ pending_job' \in Job
    BY <1>0, <1>1, <2>1, Zenon DEF TakeJob
  <2> QED BY <1>1, <2>2, Zenon DEF TakeJob
<1>2. CASE Encode
  <2> DEFINE epoch == active_job.job.source_content_epoch
             e == Configured(epoch)
  <2>1. epoch \in Nat
    BY DEF ActiveJob, Job
  <2>2. e \in Encoder
    BY <2>1, ConfiguredType
  <2>3. /\ \/ /\ active_job' = [active_job EXCEPT !.stage = "encoded"]
              /\ encoder' = e
           \/ /\ \E keyframe \in BOOLEAN :
                    active_job' = [active_job EXCEPT !.stage = "encoded",
                                     !.frame_id = e.next_frame_id, !.keyframe = keyframe]
              /\ encoder' = [e EXCEPT !.next_frame_id = @ + 1]
        /\ UNCHANGED <<session_vars, epoch_vars, policy, pending_job, video_vars, fw, refresh_vars,
                       pixel_vars>>
    BY <1>2, Zenon DEF Encode
  <2> HIDE DEF e, epoch
  <2>4. e.next_frame_id \in Nat
    BY <2>2 DEF Encoder
  <2>5. active_job' \in ActiveJob
    BY <2>3, <2>4, Zenon DEF ActiveJob
  <2>6. [e EXCEPT !.next_frame_id = @ + 1] \in Encoder
    BY <2>2 DEF Encoder
  <2>7. encoder' \in Encoder
    BY <2>2, <2>3, <2>6, Zenon
  <2> QED BY <2>3, <2>5, <2>7, Zenon
<1>3. CASE DropFrame
  BY <1>0, <1>3 DEF DropFrame
<1>4. CASE RefusedFrame
  <2>1. VideoReset(content_epoch, TRUE, FALSE)
    BY <1>4, Zenon DEF RefusedFrame
  <2> QED BY <1>0, <1>4, <2>1, VideoResetType, Zenon DEF RefusedFrame
<1>5. CASE QueueFrame
  <2> DEFINE commit == Mode = "VIDEO_READY" /\ EntersVideo
  <2>1. active_job.job.source_content_epoch \in Nat /\ active_job.frame_id \in Nat
    BY DEF ActiveJob, Job
  <2>2. FrameEpoch \in Nat
    BY <2>1 DEF FrameEpoch
  <2>3. last_frame' \in VideoFrame
    <3>1. last_frame' = [epoch |-> FrameEpoch, frame_id |-> active_job.frame_id]
      BY <1>5, Zenon DEF QueueFrame
    <3> QED BY <2>1, <2>2, <3>1 DEF VideoFrame
  <2>4. video_tx' \in Seq(VideoFrame)
    BY <1>5, <2>3 DEF QueueFrame
  <2>5. content_epoch' \in Nat
    BY <1>5, <2>2 DEF QueueFrame
  <2>6. encoder' \in Encoder
    BY <1>5, <2>2 DEF QueueFrame, Encoder
  <2>7. "VIDEO_ACTIVE" \in Modes /\ "NONE" \in RecoveryClasses
    BY DEF Modes, RecoveryClasses
  <2>8. policy' \in Policy
    BY <1>5, <2>7, SetModeType, TrackRecoveryKeyframeType DEF QueueFrame
  <2>9. /\ active_job' = NoActiveJob
        /\ UNCHANGED <<session_vars, framebuffer_generation, config_update_pending,
                       pending_job, fw, refresh_vars, pixel_vars>>
    BY <1>5, Zenon DEF QueueFrame
  <2> QED BY <1>0, <2>3, <2>4, <2>5, <2>6, <2>8, <2>9
<1> QED BY <1>1, <1>2, <1>3, <1>4, <1>5 DEF VideoWorkerStep

\* A server that has just started is well typed.
LEMMA InitType == Init => TypeOK
<1> SUFFICES ASSUME Init PROVE TypeOK
  OBVIOUS
<1>1. "auto" \in VideoModes
  BY DEF VideoModes
<1>2. PolicyDefaults("auto") \in Policy
  BY <1>1, PolicyDefaultsType
<1>3. /\ NoJob \in Job /\ NoActiveJob \in ActiveJob /\ ResetEncoder \in Encoder
      /\ [epoch |-> 0, frame_id |-> 0] \in VideoFrame /\ IdleWorker \in FrameWorker
  BY DEF Job, NoJob, ActiveJob, NoActiveJob, Encoder, ResetEncoder, VideoFrame, FrameWorker,
         IdleWorker
<1>4. /\ content_epoch \in Nat /\ framebuffer_generation \in Nat
      /\ video_tx \in Seq(VideoFrame)
      /\ session \in {"down", "negotiated", "up"}
  BY DEF Init
<1>5. /\ policy \in Policy
      /\ pending_job \in Job /\ active_job \in ActiveJob /\ encoder \in Encoder
      /\ last_frame \in VideoFrame /\ fw \in FrameWorker
  BY <1>2, <1>3, Zenon DEF Init
<1>6. /\ video_channel \in BOOLEAN /\ config_update_pending \in BOOLEAN
      /\ refresh_requested \in BOOLEAN /\ shadow_valid \in BOOLEAN
      /\ dirty \in BOOLEAN /\ lost \in BOOLEAN
  BY Zenon DEF Init
<1> QED BY <1>4, <1>5, <1>6 DEF TypeOK

\* Every step of the server preserves the types.
LEMMA NextType == TypeOK /\ [Next]_vars => TypeOK'
<1> SUFFICES ASSUME TypeOK, [Next]_vars PROVE TypeOK'
  OBVIOUS
<1>1. CASE VideoSent
  <2>1. video_tx' \in Seq(VideoFrame)
    BY <1>1 DEF VideoSent, TypeOK
  <2> QED BY <1>1, <2>1 DEF VideoSent, TypeOK, session_vars, epoch_vars, worker_vars, refresh_vars,
                            pixel_vars
<1>2. CASE UNCHANGED vars
  BY <1>2 DEF vars, TypeOK, session_vars, epoch_vars, worker_vars, video_vars, refresh_vars, pixel_vars
<1> QED BY <1>1, <1>2, NetworkType, CompositorType, FrameWorkerType, VideoWorkerType DEF Next

\* Every behaviour of the pipeline is type correct: in particular every mode
\* change, recovery and refresh leaves a policy all of whose fields are legal,
\* and nothing but whole frames is ever queued for the client.
THEOREM TypeCorrect == Spec => []TypeOK
<1>1. Init => TypeOK
  BY InitType
<1>2. TypeOK /\ [Next]_vars => TypeOK'
  BY NextType
<1> QED BY <1>1, <1>2, PTL DEF Spec

=============================================================================
