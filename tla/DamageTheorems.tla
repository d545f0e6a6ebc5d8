--------------------------- MODULE DamageTheorems ---------------------------
(***************************************************************************)
(* What the tiles owe the client: no handoff, refusal or failure loses     *)
(* pixels for good, a recovery refresh is declared transmitted only when   *)
(* it is whole, and a recovery of the video waits for a keyframe of its    *)
(* own epoch.  The proofs follow the policy: a thread changes it under     *)
(* net.lock by the operators of StreamPolicy, each of which keeps a        *)
(* barrier a barrier and a debt a debt.                                    *)
(***************************************************************************)
EXTENDS OwnershipTheorems

\* The policy owes the client a full refresh.
Owes(p) ==
    \/ RefreshDue(p)
    \/ p.stream_mode = "TILE_RECOVERY" /\ p.tile_recovery_live_damage_deferred

\* The recovery barrier: only a tile recovery has one, its refresh is then no
\* longer due, and it is transmitted only after it was started.
BarrierOK(p) ==
    /\ p.tile_recovery_refresh_sent => p.tile_recovery_refresh_started
    /\ p.tile_recovery_refresh_started =>
          p.stream_mode = "TILE_RECOVERY" /\ ~p.tile_refresh_pending

\* The pixels the client lacks are on their way, whatever the policy says.
Coming == config_update_pending \/ refresh_requested \/ ~shadow_valid \/ FullFrame

\* The inductive form of DamageAccounted: it also speaks of the moments at which
\* the worker holds a frame, and video is chosen only where it is available, so
\* that it gives the display back through a tile recovery.
DamageInv ==
    /\ UsesVideoFrames(Mode) => AllowsEntry(policy, video_channel)
    /\ session = "up" /\ lost /\ ~UsesVideoFrames(Mode) => Coming \/ Owes(policy)

\* From the start of a recovery refresh on, what the client lacks is deferred
\* behind the barrier, unless the framebuffer has changed since (and the refresh
\* starts again).
BarrierHolds(p, generation, lacks) ==
    /\ BarrierOK(p)
    /\ p.tile_recovery_framebuffer_generation <= generation
    /\ /\ p.tile_recovery_refresh_started /\ ~p.tile_recovery_refresh_sent
       /\ p.tile_recovery_framebuffer_generation = generation
       => ~lacks \/ p.tile_recovery_live_damage_deferred

\* The inductive form of RecoverySentIsWhole: the barrier holds, and no frame
\* without pixels reaches the end of its pass after the barrier was set up.
BarrierInv ==
    /\ BarrierHolds(policy, framebuffer_generation, lost)
    /\ framebuffer_generation > 0
    /\ config_update_pending =>
          policy.tile_recovery_framebuffer_generation < framebuffer_generation
    /\ fw.gpu_only \/ fw.skipped => ~policy.tile_recovery_refresh_started

RefreshInv == DamageInv /\ BarrierInv /\ RecoveryKeyframeCurrent

-----------------------------------------------------------------------------
(* What the operators of StreamPolicy keep. *)

\* The fields the tiles' debts are read from.
SameRefresh(p, q) ==
    /\ q.stream_mode = p.stream_mode
    /\ q.video_mode = p.video_mode
    /\ q.tile_refresh_pending = p.tile_refresh_pending
    /\ q.tile_recovery_refresh_started = p.tile_recovery_refresh_started
    /\ q.tile_recovery_refresh_sent = p.tile_recovery_refresh_sent
    /\ q.tile_recovery_framebuffer_generation = p.tile_recovery_framebuffer_generation
    /\ q.tile_recovery_live_damage_deferred = p.tile_recovery_live_damage_deferred

\* A barrier stays as it is or is taken down.
KeepsBarrier(p, q) ==
    BarrierOK(p) =>
        /\ BarrierOK(q)
        /\ q.tile_recovery_framebuffer_generation
              \in {0, p.tile_recovery_framebuffer_generation}
        /\ q.tile_recovery_refresh_started =>
              /\ p.tile_recovery_refresh_started
              /\ q.tile_recovery_refresh_sent = p.tile_recovery_refresh_sent
              /\ q.tile_recovery_framebuffer_generation = p.tile_recovery_framebuffer_generation
              /\ p.tile_recovery_live_damage_deferred => q.tile_recovery_live_damage_deferred

\* What the tiles owe stays owed until video is chosen, and falls due when video
\* is given up.
KeepsDebt(p, q) ==
    UsesVideoFrames(p.stream_mode) \/ Owes(p) => UsesVideoFrames(q.stream_mode) \/ Owes(q)

\* A recovery keyframe is not invented.
KeepsKeyframe(p, q) ==
    q.stream_mode = "VIDEO_RECOVERING" /\ q.video_recovery_keyframe_queued =>
        /\ p.stream_mode = "VIDEO_RECOVERING" /\ p.video_recovery_keyframe_queued
        /\ q.video_recovery_keyframe_id = p.video_recovery_keyframe_id

\* An update of other fields keeps barrier and debt.
LEMMA SameRefreshKeeps ==
    ASSUME NEW p, NEW q, SameRefresh(p, q)
    PROVE  KeepsBarrier(p, q) /\ KeepsDebt(p, q)
BY DEF SameRefresh, KeepsBarrier, KeepsDebt, BarrierOK, Owes, RefreshDue

\* What wd_stream_policy_set_mode_locked does to these fields: every change of mode
\* takes the barrier down, and the tiles owe a refresh when they get the display back.
LEMMA SetModeFields ==
    ASSUME NEW p \in Policy, NEW mode \in Modes, NEW class \in RecoveryClasses
    PROVE  LET q == SetMode(p, mode, class)
           IN  /\ q.stream_mode = mode
               /\ q.video_mode = p.video_mode
               /\ q.video_recovery_keyframe_queued = p.video_recovery_keyframe_queued
               /\ q.video_recovery_keyframe_id = p.video_recovery_keyframe_id
               /\ p.stream_mode = mode => q = p
               /\ p.stream_mode # mode =>
                    /\ ~q.tile_recovery_refresh_started /\ ~q.tile_recovery_refresh_sent
                    /\ q.tile_recovery_framebuffer_generation = 0
                    /\ ~q.tile_recovery_live_damage_deferred
                    /\ (q.tile_refresh_pending <=>
                          \/ p.tile_refresh_pending
                          \/ mode = "TILE_RECOVERY"
                          \/ VideoOwnsDisplay(p.stream_mode) /\ ~VideoOwnsDisplay(mode))
<1> DEFINE c == ClearRecoveryRefresh(p)
           recover == mode = "TILE_RECOVERY"
           refresh == \/ c.tile_refresh_pending \/ recover
                      \/ (VideoOwnsDisplay(p.stream_mode) /\ ~VideoOwnsDisplay(mode))
           epoch == IF recover THEN 0 ELSE c.tile_recovery_content_epoch
           seconds == IF recover THEN 0 ELSE c.video_client_failure_seconds
           rclass == IF recover THEN class
                     ELSE IF UsesVideoFrames(mode) /\ ~UsesVideoFrames(p.stream_mode) THEN "NONE"
                     ELSE c.video_recovery_class
           resume == c.planned_recovery_resume_video /\ (recover => class = "PLANNED")
           q == [c EXCEPT !.stream_mode = mode, !.tile_refresh_pending = refresh,
                          !.tile_recovery_content_epoch = epoch,
                          !.video_client_failure_seconds = seconds,
                          !.video_recovery_class = rclass,
                          !.planned_recovery_resume_video = resume]
<1>1. SetMode(p, mode, class) = IF p.stream_mode = mode THEN p ELSE q
  BY Zenon DEF SetMode
<1>2. /\ c \in Policy
      /\ c.video_mode = p.video_mode
      /\ c.video_recovery_keyframe_queued = p.video_recovery_keyframe_queued
      /\ c.video_recovery_keyframe_id = p.video_recovery_keyframe_id
      /\ c.tile_refresh_pending = p.tile_refresh_pending
      /\ ~c.tile_recovery_refresh_started /\ ~c.tile_recovery_refresh_sent
      /\ c.tile_recovery_framebuffer_generation = 0
      /\ ~c.tile_recovery_live_damage_deferred
  BY Zenon DEF ClearRecoveryRefresh, Policy
<1>3. refresh <=> (\/ p.tile_refresh_pending
                   \/ mode = "TILE_RECOVERY"
                   \/ VideoOwnsDisplay(p.stream_mode) /\ ~VideoOwnsDisplay(mode))
  BY <1>2
<1> HIDE DEF c, refresh, epoch, seconds, rclass, resume
<1>4. /\ q.stream_mode = mode
      /\ q.video_mode = c.video_mode
      /\ q.video_recovery_keyframe_queued = c.video_recovery_keyframe_queued
      /\ q.video_recovery_keyframe_id = c.video_recovery_keyframe_id
      /\ q.tile_refresh_pending = refresh
      /\ q.tile_recovery_refresh_started = c.tile_recovery_refresh_started
      /\ q.tile_recovery_refresh_sent = c.tile_recovery_refresh_sent
      /\ q.tile_recovery_framebuffer_generation = c.tile_recovery_framebuffer_generation
      /\ q.tile_recovery_live_damage_deferred = c.tile_recovery_live_damage_deferred
  BY <1>2 DEF Policy
<1> HIDE DEF q
<1> QED BY <1>1, <1>2, <1>3, <1>4

\* Every change of mode keeps the barrier a barrier; one into the video modes, into
\* a tile recovery or out of a mode in which the video owned the display also
\* keeps the debt.
LEMMA SetModeKeeps ==
    ASSUME NEW p \in Policy, NEW mode \in Modes, NEW class \in RecoveryClasses
    PROVE  LET q == SetMode(p, mode, class)
           IN  /\ KeepsBarrier(p, q)
               /\ \/ p.tile_refresh_pending \/ p.stream_mode = mode
                  \/ UsesVideoFrames(mode) \/ mode = "TILE_RECOVERY"
                  \/ p.stream_mode \in {"TILES", "VIDEO_CANDIDATE"}
                  => KeepsDebt(p, q)
<1> DEFINE q == SetMode(p, mode, class)
<1>1. CASE p.stream_mode = mode
  <2>1. q = p
    BY <1>1 DEF SetMode
  <2> QED BY <2>1, SameRefreshKeeps DEF SameRefresh
<1>2. CASE p.stream_mode # mode
  <2>1. /\ q.stream_mode = mode
        /\ ~q.tile_recovery_refresh_started /\ ~q.tile_recovery_refresh_sent
        /\ q.tile_recovery_framebuffer_generation = 0
        /\ (q.tile_refresh_pending <=>
              \/ p.tile_refresh_pending
              \/ mode = "TILE_RECOVERY"
              \/ VideoOwnsDisplay(p.stream_mode) /\ ~VideoOwnsDisplay(mode))
    BY <1>2, SetModeFields
  <2> HIDE DEF q
  <2>2. KeepsBarrier(p, q)
    BY <2>1 DEF KeepsBarrier, BarrierOK
  <2>3. CASE UsesVideoFrames(mode)
    BY <2>1, <2>3, <2>2 DEF KeepsDebt, q
  <2>4. CASE p.tile_refresh_pending \/ mode = "TILE_RECOVERY"
    BY <2>1, <2>2, <2>4 DEF KeepsDebt, Owes, RefreshDue, q
  <2>5. CASE p.stream_mode \in {"TILES", "VIDEO_CANDIDATE"}
    BY <2>1, <2>2, <2>5 DEF KeepsDebt, Owes, RefreshDue, UsesVideoFrames, q
  <2> QED BY <1>2, <2>2, <2>3, <2>4, <2>5 DEF q
<1> QED BY <1>1, <1>2

\* What each part of the controller's tick keeps.
Keeps(p, q) ==
    KeepsBarrier(p, q) /\ KeepsDebt(p, q) /\ KeepsKeyframe(p, q) /\ q.video_mode = p.video_mode

\* Two updates, one after the other.
LEMMA KeepsCompose ==
    ASSUME NEW p, NEW q, NEW r, Keeps(p, q), Keeps(q, r)
    PROVE  Keeps(p, r)
<1>1. KeepsBarrier(p, r)
  BY DEF Keeps, KeepsBarrier
<1>2. KeepsDebt(p, r)
  BY DEF Keeps, KeepsDebt
<1>3. KeepsKeyframe(p, r)
  BY DEF Keeps, KeepsKeyframe
<1> QED BY <1>1, <1>2, <1>3 DEF Keeps

\* An update of fields that neither barrier, debt nor recovery keyframe is read from.
LEMMA OtherFieldsKeep ==
    ASSUME NEW p, NEW q, SameRefresh(p, q),
           q.video_recovery_keyframe_queued = p.video_recovery_keyframe_queued,
           q.video_recovery_keyframe_id = p.video_recovery_keyframe_id
    PROVE  Keeps(p, q)
<1>1. KeepsBarrier(p, q) /\ KeepsDebt(p, q)
  BY SameRefreshKeeps
<1>2. KeepsKeyframe(p, q) /\ q.video_mode = p.video_mode
  BY DEF SameRefresh, KeepsKeyframe
<1> QED BY <1>1, <1>2 DEF Keeps

\* The TILE_RECOVERY branch: the end of a recovery takes the barrier down and owes
\* the damage that was deferred behind it.
LEMMA TileRecoveryHealthKeeps ==
    ASSUME NEW p \in Policy, NEW tile_epoch \in Nat,
           p.stream_mode = "TILE_RECOVERY", BarrierOK(p)
    PROVE  LET r == TileRecoveryHealth(p, tile_epoch)
           IN  Keeps(p, r) /\ ~UsesVideoFrames(r.stream_mode)
<1> DEFINE action   == TileRecoveryDecide(p, tile_epoch)
           resume   == /\ action = "PRESENTED"
                       /\ p.video_recovery_class = "PLANNED"
                       /\ p.planned_recovery_resume_video
           cooldown == IF resume THEN 0 ELSE RetryCooldown
           class    == IF action = "TIMEOUT" THEN "FAILURE" ELSE p.video_recovery_class
           planned  == p.planned_recovery_resume_video /\ action # "TIMEOUT"
           owed     == RefreshOwed(p)
           seconds  == IF p.tile_recovery_refresh_sent THEN p.tile_recovery_wait_seconds + 1
                       ELSE p.tile_recovery_wait_seconds
           done     == [p EXCEPT !.video_retry_cooldown_seconds = cooldown,
                                 !.video_recovery_class = class,
                                 !.planned_recovery_resume_video = planned,
                                 !.tile_refresh_pending = owed,
                                 !.video_client_failure_seconds = 0]
           wait     == [p EXCEPT !.tile_recovery_wait_seconds = seconds,
                                 !.video_client_failure_seconds = 0]
           q        == SetMode(done, "TILES", "NONE")
           r        == TileRecoveryHealth(p, tile_epoch)
<1>1. r = IF action # "WAIT" THEN q ELSE wait
  BY Zenon DEF TileRecoveryHealth
<1>2. action # "WAIT" => p.tile_recovery_refresh_started /\ ~p.tile_refresh_pending
  BY DEF TileRecoveryDecide, BarrierOK
<1>3. /\ cooldown \in Nat /\ class \in RecoveryClasses /\ planned \in BOOLEAN /\ owed \in BOOLEAN
      /\ owed <=> p.tile_refresh_pending \/ p.tile_recovery_live_damage_deferred
  BY StreamPolicyAssumption DEF Policy, RecoveryClasses, RefreshOwed
<1>4. "TILES" \in Modes /\ "NONE" \in RecoveryClasses
  BY DEF Modes, RecoveryClasses
<1> HIDE DEF action, cooldown, class, planned, owed, seconds, r
<1>5. done \in Policy
  BY <1>3, RecoveryDoneUpdate, Zenon
<1>6. /\ done.tile_refresh_pending = owed
      /\ done.stream_mode = "TILE_RECOVERY"
      /\ done.video_mode = p.video_mode
  BY DEF Policy
<1> HIDE DEF done
<1>7. CASE action # "WAIT"
  <2>1. /\ q.stream_mode = "TILES" /\ q.video_mode = p.video_mode
        /\ ~q.tile_recovery_refresh_started /\ ~q.tile_recovery_refresh_sent
        /\ q.tile_recovery_framebuffer_generation = 0
        /\ q.tile_refresh_pending <=> owed
    BY <1>4, <1>5, <1>6, SetModeFields DEF VideoOwnsDisplay
  <2> HIDE DEF q
  <2>2. KeepsBarrier(p, q)
    BY <2>1 DEF KeepsBarrier, BarrierOK
  <2>3. KeepsDebt(p, q)
    BY <1>2, <1>3, <1>7, <2>1 DEF KeepsDebt, Owes, RefreshDue, UsesVideoFrames
  <2>4. KeepsKeyframe(p, q) /\ ~UsesVideoFrames(q.stream_mode)
    BY <2>1 DEF KeepsKeyframe, UsesVideoFrames
  <2> QED BY <1>1, <1>7, <2>1, <2>2, <2>3, <2>4 DEF Keeps, r
<1>8. CASE action = "WAIT"
  <2>1. /\ SameRefresh(p, wait)
        /\ wait.video_recovery_keyframe_queued = p.video_recovery_keyframe_queued
        /\ wait.video_recovery_keyframe_id = p.video_recovery_keyframe_id
    BY DEF Policy, SameRefresh
  <2> HIDE DEF wait
  <2>2. Keeps(p, wait)
    BY <2>1, OtherFieldsKeep
  <2>3. ~UsesVideoFrames(wait.stream_mode)
    BY <2>1 DEF SameRefresh, UsesVideoFrames
  <2> QED BY <1>1, <1>8, <2>2, <2>3 DEF r
<1> QED BY <1>7, <1>8

\* A new attempt asks for another keyframe and changes nothing else here.
LEMMA NewRecoveryAttemptKeeps ==
    ASSUME NEW p \in Policy, NEW attempts \in Nat
    PROVE  LET q == NewRecoveryAttempt(p, attempts)
           IN  /\ q \in Policy
               /\ SameRefresh(p, q)
               /\ ~q.video_recovery_keyframe_queued
               /\ Keeps(p, q)
<1> DEFINE q == NewRecoveryAttempt(p, attempts)
<1>1. q \in Policy
  BY NewRecoveryAttemptType
<1>2. SameRefresh(p, q) /\ ~q.video_recovery_keyframe_queued
  BY DEF NewRecoveryAttempt, Policy, SameRefresh
<1> HIDE DEF q
<1>3. KeepsBarrier(p, q) /\ KeepsDebt(p, q)
  BY <1>2, SameRefreshKeeps
<1>4. KeepsKeyframe(p, q) /\ q.video_mode = p.video_mode
  BY <1>2 DEF KeepsKeyframe, SameRefresh
<1> QED BY <1>1, <1>2, <1>3, <1>4 DEF Keeps, q

\* A change between the modes of a tick: into video, or into a tile recovery.
LEMMA SetModeTick ==
    ASSUME NEW p \in Policy, NEW mode \in Modes, NEW class \in RecoveryClasses,
           \/ mode = "VIDEO_RECOVERING" /\ ~p.video_recovery_keyframe_queued
           \/ mode \in {"VIDEO_READY", "VIDEO_ACTIVE", "TILE_RECOVERY"}
           \/ mode \in {"TILES", "VIDEO_CANDIDATE"}
              /\ p.stream_mode \in {"TILES", "VIDEO_CANDIDATE"}
    PROVE  LET q == SetMode(p, mode, class)
           IN  q \in Policy /\ Keeps(p, q) /\ q.stream_mode = mode
<1> DEFINE q == SetMode(p, mode, class)
<1>1. q \in Policy /\ q.stream_mode = mode
  BY SetModeType
<1>2. KeepsBarrier(p, q) /\ KeepsDebt(p, q)
  BY SetModeKeeps DEF UsesVideoFrames
<1>3. /\ q.video_recovery_keyframe_queued = p.video_recovery_keyframe_queued
      /\ q.video_mode = p.video_mode
  BY SetModeFields
<1> HIDE DEF q
<1>4. KeepsKeyframe(p, q)
  BY <1>1, <1>3 DEF KeepsKeyframe
<1> QED BY <1>1, <1>2, <1>3, <1>4 DEF Keeps, q

\* The VIDEO_RECOVERING branch.
LEMMA VideoRecoveringHealthKeeps ==
    ASSUME NEW p \in Policy, NEW frame_id \in Nat
    PROVE  Keeps(p, VideoRecoveringHealth(p, frame_id))
<1> DEFINE action == VideoRecoveryDecide(p, frame_id)
           quiet  == [p EXCEPT !.video_client_failure_seconds = 0]
           active == SetMode(quiet, "VIDEO_ACTIVE", "NONE")
           back   == SetMode(quiet, "TILE_RECOVERY", "FAILURE")
           tiles  == [back EXCEPT !.video_recovery_attempts = 0, !.video_recovery_wait_seconds = 0]
           wait   == [quiet EXCEPT !.video_recovery_wait_seconds = @ + 1]
           again  == NewRecoveryAttempt(quiet, p.video_recovery_attempts + 1)
           shown  == NewRecoveryAttempt(active, 0)
           r      == VideoRecoveringHealth(p, frame_id)
<1>1. r \in {shown, again, tiles, wait}
  <2>1. action \in {"PRESENTED", "RETRY_KEYFRAME", "FALLBACK_TILES", "WAIT"}
    BY DEF VideoRecoveryDecide
  <2> HIDE DEF action, quiet
  <2> QED BY <2>1 DEF VideoRecoveringHealth, action, quiet
<1>2. quiet \in Policy /\ p.video_recovery_attempts + 1 \in Nat
  BY DEF Policy
<1>3. Keeps(p, quiet)
  <2>1. /\ SameRefresh(p, quiet)
        /\ quiet.video_recovery_keyframe_queued = p.video_recovery_keyframe_queued
        /\ quiet.video_recovery_keyframe_id = p.video_recovery_keyframe_id
    BY DEF Policy, SameRefresh
  <2> QED BY <2>1, OtherFieldsKeep, Zenon
<1>4. /\ {"VIDEO_ACTIVE", "TILE_RECOVERY"} \subseteq Modes
      /\ {"NONE", "FAILURE"} \subseteq RecoveryClasses
  BY DEF Modes, RecoveryClasses
<1> HIDE DEF quiet, r
<1>5. active \in Policy /\ Keeps(quiet, active) /\ back \in Policy /\ Keeps(quiet, back)
  BY <1>2, <1>4, SetModeTick
<1>6. Keeps(quiet, again) /\ Keeps(active, shown)
  BY <1>2, <1>5, NewRecoveryAttemptKeeps
<1>7. Keeps(quiet, wait)
  <2>1. /\ SameRefresh(quiet, wait)
        /\ wait.video_recovery_keyframe_queued = quiet.video_recovery_keyframe_queued
        /\ wait.video_recovery_keyframe_id = quiet.video_recovery_keyframe_id
    BY <1>2 DEF Policy, SameRefresh
  <2> QED BY <2>1, OtherFieldsKeep, Zenon
<1>8. Keeps(back, tiles)
  <2> HIDE DEF back
  <2>1. /\ SameRefresh(back, tiles)
        /\ tiles.video_recovery_keyframe_queued = back.video_recovery_keyframe_queued
        /\ tiles.video_recovery_keyframe_id = back.video_recovery_keyframe_id
    BY <1>5 DEF Policy, SameRefresh
  <2> QED BY <2>1, OtherFieldsKeep, Zenon
<1> HIDE DEF active, back, tiles, wait, again, shown
<1>9. Keeps(quiet, shown) /\ Keeps(quiet, tiles)
  BY <1>5, <1>6, <1>8, KeepsCompose
<1>10. Keeps(p, shown) /\ Keeps(p, tiles) /\ Keeps(p, again) /\ Keeps(p, wait)
  BY <1>3, <1>6, <1>7, <1>9, KeepsCompose
<1> QED BY <1>1, <1>10 DEF r

\* The branch of a selected video that is not recovering.
LEMMA VideoHealthKeeps ==
    ASSUME NEW p \in Policy, NEW health \in HealthClasses
    PROVE  Keeps(p, VideoHealth(p, health))
<1> DEFINE streak  == HealthStreak(p, health)
           calm(q) == [q EXCEPT !.video_client_failure_seconds = 0,
                                !.video_client_failure_class = "IDLE"]
           attempt  == NewRecoveryAttempt(p, 1)
           keyframe == SetMode(attempt, "VIDEO_RECOVERING", "FAILURE")
           back     == SetMode(streak, "TILE_RECOVERY", "FAILURE")
<1>1. \A q \in Policy : Keeps(q, calm(q))
  <2> SUFFICES ASSUME NEW q \in Policy PROVE Keeps(q, calm(q))
    OBVIOUS
  <2>1. /\ SameRefresh(q, calm(q))
        /\ calm(q).video_recovery_keyframe_queued = q.video_recovery_keyframe_queued
        /\ calm(q).video_recovery_keyframe_id = q.video_recovery_keyframe_id
    BY DEF Policy, SameRefresh
  <2> QED BY <2>1, OtherFieldsKeep, Zenon
<1>2. streak \in Policy
  BY HealthStreakType
<1>3. Keeps(p, streak)
  <2>1. /\ SameRefresh(p, streak)
        /\ streak.video_recovery_keyframe_queued = p.video_recovery_keyframe_queued
        /\ streak.video_recovery_keyframe_id = p.video_recovery_keyframe_id
    BY DEF HealthStreak, Policy, SameRefresh
  <2> QED BY <2>1, OtherFieldsKeep
<1>4. attempt \in Policy /\ Keeps(p, attempt) /\ ~attempt.video_recovery_keyframe_queued
  BY NewRecoveryAttemptKeeps
<1>5. {"VIDEO_RECOVERING", "TILE_RECOVERY"} \subseteq Modes /\ "FAILURE" \in RecoveryClasses
  BY DEF Modes, RecoveryClasses
<1>6. VideoHealth(p, health)
        = IF health = "DECODER_OVERLOADED" THEN calm(keyframe)
          ELSE IF streak.video_client_failure_seconds >= ClientFailureSeconds THEN calm(back)
          ELSE streak
  BY Zenon DEF VideoHealth
<1> HIDE DEF calm, streak, attempt
<1>7. keyframe \in Policy /\ Keeps(attempt, keyframe) /\ back \in Policy /\ Keeps(streak, back)
  BY <1>2, <1>4, <1>5, SetModeTick
<1> HIDE DEF keyframe, back
<1>8. Keeps(keyframe, calm(keyframe)) /\ Keeps(back, calm(back))
  BY <1>1, <1>7
<1>9. Keeps(p, calm(keyframe)) /\ Keeps(p, calm(back))
  BY <1>3, <1>4, <1>7, <1>8, KeepsCompose
<1> QED BY <1>3, <1>6, <1>9

\* wd_stream_policy_update_health_locked as a whole: it keeps barrier, debt and
\* keyframe, and never chooses video.
LEMMA UpdateHealthKeeps ==
    ASSUME NEW p \in Policy, NEW tile_epoch \in Nat, NEW frame_id \in Nat,
           NEW health \in HealthClasses, BarrierOK(p)
    PROVE  LET h == UpdateHealth(p, tile_epoch, frame_id, health)
           IN  Keeps(p, h) /\ (UsesVideoFrames(h.stream_mode) => UsesVideoFrames(p.stream_mode))
<1> DEFINE heard   == [p EXCEPT !.video_feedback_flags = "none"]
           attempt == NewRecoveryAttempt(heard, 1)
           back    == SetMode(heard, "TILE_RECOVERY", "FAILURE")
           recover == SetMode(attempt, "VIDEO_RECOVERING", "FAILURE")
           h       == UpdateHealth(p, tile_epoch, frame_id, health)
<1>1. heard \in Policy /\ p.stream_mode \in Modes /\ p.video_feedback_flags \in FeedbackFlags
  BY DEF Policy, FeedbackFlags
<1>2. Keeps(p, heard) /\ Keeps(p, p)
  <2>1. /\ SameRefresh(p, heard)
        /\ heard.video_recovery_keyframe_queued = p.video_recovery_keyframe_queued
        /\ heard.video_recovery_keyframe_id = p.video_recovery_keyframe_id
    BY DEF Policy, SameRefresh
  <2>2. SameRefresh(p, p)
    BY DEF SameRefresh
  <2> QED BY <2>1, <2>2, OtherFieldsKeep, Zenon
<1> HIDE DEF heard
<1>3. attempt \in Policy /\ Keeps(heard, attempt) /\ ~attempt.video_recovery_keyframe_queued
  BY <1>1, NewRecoveryAttemptKeeps
<1>4. {"VIDEO_RECOVERING", "TILE_RECOVERY"} \subseteq Modes /\ "FAILURE" \in RecoveryClasses
  BY DEF Modes, RecoveryClasses
<1> HIDE DEF attempt
<1>5. Keeps(heard, back) /\ Keeps(attempt, recover)
  BY <1>1, <1>3, <1>4, SetModeTick
<1>6. Keeps(heard, VideoRecoveringHealth(heard, frame_id)) /\ Keeps(heard, VideoHealth(heard, health))
  BY <1>1, VideoRecoveringHealthKeeps, VideoHealthKeeps
<1> HIDE DEF back, recover
<1>7. /\ Keeps(p, back) /\ Keeps(p, recover)
      /\ Keeps(p, VideoRecoveringHealth(heard, frame_id)) /\ Keeps(p, VideoHealth(heard, health))
  BY <1>2, <1>3, <1>5, <1>6, KeepsCompose
<1>8. CASE p.stream_mode = "TILE_RECOVERY"
  <2>1. h = TileRecoveryHealth(p, tile_epoch)
    BY <1>8 DEF UpdateHealth
  <2> QED BY <1>8, <2>1, TileRecoveryHealthKeeps
<1>9. CASE p.stream_mode # "TILE_RECOVERY" /\ UsesVideoFrames(p.stream_mode)
  <2>1. h \in {back, recover, VideoRecoveringHealth(heard, frame_id), VideoHealth(heard, health)}
    BY <1>1, <1>9 DEF UpdateHealth, heard, attempt, back, recover, UsesVideoFrames, FeedbackFlags
  <2> QED BY <1>7, <1>9, <2>1
<1>10. CASE p.stream_mode \in {"TILES", "VIDEO_CANDIDATE"}
  <2>1. h = p
    BY <1>10 DEF UpdateHealth
  <2> QED BY <1>2, <2>1
<1> QED BY <1>1, <1>8, <1>9, <1>10 DEF Modes, UsesVideoFrames

\* The gate of the bootstrap refresh touches neither barrier nor mode.
LEMMA BootstrapGateKeeps ==
    ASSUME NEW p \in Policy, NEW tile_epoch \in Nat
    PROVE  LET r == BootstrapGate(p, tile_epoch)
           IN  Keeps(p, r) /\ r.stream_mode = p.stream_mode
<1> DEFINE r == BootstrapGate(p, tile_epoch)
<1>1. /\ SameRefresh(p, r)
      /\ r.video_recovery_keyframe_queued = p.video_recovery_keyframe_queued
      /\ r.video_recovery_keyframe_id = p.video_recovery_keyframe_id
  BY DEF BootstrapGate, Policy, SameRefresh
<1> HIDE DEF r
<1>2. Keeps(p, r) /\ r.stream_mode = p.stream_mode
  BY <1>1, OtherFieldsKeep DEF SameRefresh
<1> QED BY <1>2 DEF r

\* Video that resumes after a resize takes over what the tiles owe.
LEMMA ResumePlannedKeeps ==
    ASSUME NEW p \in Policy, p.stream_mode = "TILES"
    PROVE  Keeps(p, ResumePlanned(p))
<1> DEFINE s == [p EXCEPT !.planned_recovery_resume_video = FALSE, !.video_candidate_seconds = 0,
                          !.tile_recovery_seconds = 0, !.tile_refresh_pending = FALSE,
                          !.tile_recovery_live_damage_deferred = FALSE]
           r == SetMode(s, "VIDEO_READY", "NONE")
<1>1. s \in Policy /\ s.stream_mode = "TILES" /\ s.video_mode = p.video_mode
  BY Zenon DEF Policy
<1>2. "VIDEO_READY" \in Modes /\ "NONE" \in RecoveryClasses
  BY DEF Modes, RecoveryClasses
<1>3. ResumePlanned(p) = r
  BY Zenon DEF ResumePlanned
<1> HIDE DEF s
<1>4. /\ r.stream_mode = "VIDEO_READY" /\ r.video_mode = p.video_mode
      /\ ~r.tile_recovery_refresh_started /\ ~r.tile_recovery_refresh_sent
      /\ r.tile_recovery_framebuffer_generation = 0
  BY <1>1, <1>2, SetModeFields
<1> HIDE DEF r
<1>5. Keeps(p, r)
  BY <1>4 DEF Keeps, KeepsBarrier, BarrierOK, KeepsDebt, KeepsKeyframe, UsesVideoFrames
<1> QED BY <1>3, <1>5

\* Video that is not available leaves through a tile recovery when it owned the display.
LEMMA VideoUnavailableKeeps ==
    ASSUME NEW p \in Policy, p.stream_mode \in {"TILES", "VIDEO_CANDIDATE"}
    PROVE  LET r == VideoUnavailable(p)
           IN  Keeps(p, r) /\ r.stream_mode = "TILES"
<1> DEFINE reset == [p EXCEPT !.video_candidate_seconds = 0, !.tile_recovery_seconds = 0]
           r     == SetMode(reset, "TILES", "NONE")
<1>1. reset \in Policy /\ reset.stream_mode = p.stream_mode
  BY Zenon DEF Policy
<1>2. Keeps(p, reset)
  <2>1. /\ SameRefresh(p, reset)
        /\ reset.video_recovery_keyframe_queued = p.video_recovery_keyframe_queued
        /\ reset.video_recovery_keyframe_id = p.video_recovery_keyframe_id
    BY DEF Policy, SameRefresh
  <2> QED BY <2>1, OtherFieldsKeep, Zenon
<1>3. "TILES" \in Modes /\ "NONE" \in RecoveryClasses
  BY DEF Modes, RecoveryClasses
<1>4. VideoUnavailable(p) = r
  BY DEF VideoUnavailable, VideoOwnsDisplay
<1> HIDE DEF reset
<1>5. Keeps(reset, r) /\ r.stream_mode = "TILES"
  BY <1>1, <1>3, SetModeTick
<1> HIDE DEF r
<1> QED BY <1>2, <1>4, <1>5, KeepsCompose

\* A candidate for video moves towards it.
LEMMA EntryCandidateKeeps ==
    ASSUME NEW p \in Policy, p.stream_mode \notin {"TILE_RECOVERY", "VIDEO_RECOVERING"}
    PROVE  Keeps(p, EntryCandidate(p))
<1> DEFINE stay    == [p EXCEPT !.tile_recovery_seconds = 0]
           seconds == p.video_candidate_seconds + 1
           counted == [stay EXCEPT !.video_candidate_seconds = seconds]
           mode    == IF p.video_mode = "force" \/ seconds >= EnterSeconds
                        THEN "VIDEO_READY" ELSE "VIDEO_CANDIDATE"
           r       == SetMode(counted, mode, "NONE")
<1>1. EntryCandidate(p) = IF p.stream_mode \in {"VIDEO_ACTIVE", "VIDEO_READY"} THEN stay ELSE r
  BY Zenon DEF EntryCandidate
<1>2. seconds \in Nat /\ p.stream_mode \in Modes
  BY DEF Policy
<1>3. /\ mode \in Modes /\ mode \in {"VIDEO_READY", "VIDEO_CANDIDATE"}
      /\ "NONE" \in RecoveryClasses
  BY DEF Modes, RecoveryClasses
<1> HIDE DEF seconds, mode
<1>4. Keeps(p, stay) /\ Keeps(p, counted) /\ counted \in Policy /\ counted.stream_mode = p.stream_mode
  <2>1. /\ SameRefresh(p, stay) /\ SameRefresh(p, counted)
        /\ stay.video_recovery_keyframe_queued = p.video_recovery_keyframe_queued
        /\ stay.video_recovery_keyframe_id = p.video_recovery_keyframe_id
        /\ counted.video_recovery_keyframe_queued = p.video_recovery_keyframe_queued
        /\ counted.video_recovery_keyframe_id = p.video_recovery_keyframe_id
    BY DEF Policy, SameRefresh
  <2>2. counted \in Policy /\ counted.stream_mode = p.stream_mode
    BY <1>2, Zenon DEF Policy
  <2> QED BY <2>1, <2>2, OtherFieldsKeep, Zenon
<1> HIDE DEF stay, counted
<1>5. CASE p.stream_mode \in {"TILES", "VIDEO_CANDIDATE"}
  <2>1. Keeps(counted, r)
    BY <1>3, <1>4, <1>5, SetModeTick
  <2> HIDE DEF r
  <2> QED BY <1>1, <1>4, <1>5, <2>1, KeepsCompose
<1>6. CASE p.stream_mode \in {"VIDEO_ACTIVE", "VIDEO_READY"}
  BY <1>1, <1>4, <1>6
<1> QED BY <1>2, <1>5, <1>6 DEF Modes

\* No candidate: video is left through a planned tile recovery.
LEMMA NotCandidateKeeps ==
    ASSUME NEW p \in Policy, NEW low_dirty \in BOOLEAN
    PROVE  LET r == NotCandidate(p, low_dirty)
           IN  Keeps(p, r) /\ (UsesVideoFrames(r.stream_mode) => UsesVideoFrames(p.stream_mode))
<1> DEFINE idle    == [p EXCEPT !.video_candidate_seconds = 0]
           seconds == p.tile_recovery_seconds + 1
           zero(q) == [q EXCEPT !.tile_recovery_seconds = 0]
           more    == [idle EXCEPT !.tile_recovery_seconds = seconds]
           back    == SetMode(idle, "TILE_RECOVERY", "PLANNED")
           r       == NotCandidate(p, low_dirty)
<1>1. r \in {zero(idle), zero(back), more}
  BY Zenon DEF NotCandidate
<1>2. /\ idle \in Policy /\ idle.stream_mode = p.stream_mode
      /\ more.stream_mode = p.stream_mode
  BY DEF Policy
<1>3. \A q \in Policy : Keeps(q, zero(q)) /\ zero(q).stream_mode = q.stream_mode
  <2> SUFFICES ASSUME NEW q \in Policy
               PROVE  Keeps(q, zero(q)) /\ zero(q).stream_mode = q.stream_mode
    BY Zenon
  <2>1. /\ SameRefresh(q, zero(q))
        /\ zero(q).video_recovery_keyframe_queued = q.video_recovery_keyframe_queued
        /\ zero(q).video_recovery_keyframe_id = q.video_recovery_keyframe_id
    BY DEF Policy, SameRefresh
  <2> QED BY <2>1, OtherFieldsKeep, Zenon DEF SameRefresh
<1>4. Keeps(p, idle) /\ Keeps(p, more)
  <2>1. /\ SameRefresh(p, idle) /\ SameRefresh(p, more)
        /\ idle.video_recovery_keyframe_queued = p.video_recovery_keyframe_queued
        /\ idle.video_recovery_keyframe_id = p.video_recovery_keyframe_id
        /\ more.video_recovery_keyframe_queued = p.video_recovery_keyframe_queued
        /\ more.video_recovery_keyframe_id = p.video_recovery_keyframe_id
    BY DEF Policy, SameRefresh
  <2> QED BY <2>1, OtherFieldsKeep, Zenon
<1>5. "TILE_RECOVERY" \in Modes /\ "PLANNED" \in RecoveryClasses
  BY DEF Modes, RecoveryClasses
<1> HIDE DEF idle, more, zero, r
<1>6. back \in Policy /\ Keeps(idle, back) /\ back.stream_mode = "TILE_RECOVERY"
  BY <1>2, <1>5, SetModeTick
<1> HIDE DEF back
<1>7. Keeps(idle, zero(idle)) /\ Keeps(back, zero(back)) /\ Keeps(idle, back)
  BY <1>2, <1>3, <1>6
<1>8. Keeps(p, zero(idle)) /\ Keeps(p, zero(back))
  BY <1>4, <1>7, KeepsCompose
<1>9. Keeps(p, r)
  BY <1>1, <1>4, <1>8
<1>10. r.stream_mode \in {p.stream_mode, "TILE_RECOVERY"}
  BY <1>1, <1>2, <1>3, <1>6
<1> QED BY <1>9, <1>10 DEF r, UsesVideoFrames

\* wd_stream_policy_update_mode_locked as a whole: it keeps barrier, debt and
\* keyframe, and chooses video only where it is available.
LEMMA UpdateModeKeeps ==
    ASSUME NEW p \in Policy, NEW tile_epoch \in Nat, NEW channel \in BOOLEAN,
           NEW auto \in BOOLEAN, NEW low_dirty \in BOOLEAN,
           UsesVideoFrames(p.stream_mode) => AllowsEntry(p, channel)
    PROVE  LET r == UpdateMode(p, tile_epoch, channel, auto, low_dirty)
           IN  Keeps(p, r) /\ (UsesVideoFrames(r.stream_mode) => AllowsEntry(r, channel))
<1> DEFINE allowed   == AllowsEntry(p, channel)
           cooling   == p.video_retry_cooldown_seconds # 0
           cooldown  == Cooldown(p)
           resume    == p.planned_recovery_resume_video /\ allowed
           q         == [p EXCEPT !.video_retry_cooldown_seconds = cooldown,
                                  !.planned_recovery_resume_video = resume]
           forced    == p.video_mode = "force"
           candidate == /\ ~cooling \/ (forced /\ p.video_recovery_class = "PLANNED")
                        /\ forced \/ auto
           still     == [p EXCEPT !.video_candidate_seconds = 0]
           reset     == [p EXCEPT !.video_candidate_seconds = 0, !.tile_recovery_seconds = 0]
           r         == UpdateMode(p, tile_epoch, channel, auto, low_dirty)
<1>1. r =
        IF p.stream_mode = "TILE_RECOVERY" THEN still
        ELSE IF p.stream_mode = "VIDEO_RECOVERING" /\ allowed THEN reset
        ELSE IF p.video_bootstrap_pending THEN BootstrapGate(p, tile_epoch)
        ELSE IF q.planned_recovery_resume_video /\ p.stream_mode = "TILES" THEN ResumePlanned(q)
        ELSE IF ~allowed THEN VideoUnavailable(q)
        ELSE IF candidate THEN EntryCandidate(q)
        ELSE NotCandidate(q, low_dirty)
  BY Zenon DEF UpdateMode
<1>2. cooldown \in Nat /\ resume \in BOOLEAN /\ p.stream_mode \in Modes
  BY DEF Policy, Cooldown
<1>3. resume => allowed
  OBVIOUS
<1> HIDE DEF cooldown, resume, candidate, r
<1>4. q \in Policy
  BY <1>2, CooldownUpdate, Zenon
<1>5. /\ Keeps(p, q) /\ Keeps(p, still) /\ Keeps(p, reset)
      /\ q.stream_mode = p.stream_mode /\ q.planned_recovery_resume_video = resume
      /\ still.stream_mode = p.stream_mode /\ reset.stream_mode = p.stream_mode
  <2>1. /\ SameRefresh(p, q) /\ SameRefresh(p, still) /\ SameRefresh(p, reset)
        /\ q.video_recovery_keyframe_queued = p.video_recovery_keyframe_queued
        /\ q.video_recovery_keyframe_id = p.video_recovery_keyframe_id
        /\ still.video_recovery_keyframe_queued = p.video_recovery_keyframe_queued
        /\ still.video_recovery_keyframe_id = p.video_recovery_keyframe_id
        /\ reset.video_recovery_keyframe_queued = p.video_recovery_keyframe_queued
        /\ reset.video_recovery_keyframe_id = p.video_recovery_keyframe_id
        /\ q.planned_recovery_resume_video = resume
    BY DEF Policy, SameRefresh
  <2> QED BY <2>1, OtherFieldsKeep, Zenon DEF SameRefresh
<1> HIDE DEF q, still, reset
<1>6. Keeps(p, r) /\ (UsesVideoFrames(r.stream_mode) => allowed)
  <2>1. CASE p.stream_mode = "TILE_RECOVERY"
    BY <1>1, <1>5, <2>1 DEF UsesVideoFrames
  <2>2. CASE p.stream_mode = "VIDEO_RECOVERING"
    <3>1. r = reset /\ allowed
      BY <1>1, <2>2 DEF UsesVideoFrames
    <3> QED BY <1>5, <3>1
  <2>3. CASE p.stream_mode \notin {"TILE_RECOVERY", "VIDEO_RECOVERING"} /\ p.video_bootstrap_pending
    <3>1. r = BootstrapGate(p, tile_epoch)
      BY <1>1, <2>3
    <3> QED BY <3>1, BootstrapGateKeeps
  <2>4. CASE /\ p.stream_mode \notin {"TILE_RECOVERY", "VIDEO_RECOVERING"}
             /\ ~p.video_bootstrap_pending
    <3>1. CASE resume /\ p.stream_mode = "TILES"
      <4>1. r = ResumePlanned(q)
        BY <1>1, <1>5, <2>4, <3>1
      <4>2. Keeps(q, r)
        BY <1>4, <1>5, <3>1, <4>1, ResumePlannedKeeps
      <4> QED BY <1>3, <1>5, <3>1, <4>2, KeepsCompose
    <3>2. CASE ~(resume /\ p.stream_mode = "TILES") /\ ~allowed
      <4>1. r = VideoUnavailable(q)
        BY <1>1, <1>5, <2>4, <3>2
      <4>2. p.stream_mode \in {"TILES", "VIDEO_CANDIDATE"}
        BY <1>2, <2>4, <3>2 DEF Modes, UsesVideoFrames
      <4>3. Keeps(q, r) /\ r.stream_mode = "TILES"
        BY <1>4, <1>5, <4>1, <4>2, VideoUnavailableKeeps
      <4> QED BY <1>5, <4>3, KeepsCompose DEF UsesVideoFrames
    <3>3. CASE ~(resume /\ p.stream_mode = "TILES") /\ allowed
      <4>1. r \in {EntryCandidate(q), NotCandidate(q, low_dirty)}
        BY <1>1, <1>5, <2>4, <3>3
      <4>2. Keeps(q, r)
        BY <1>4, <1>5, <2>4, <4>1, EntryCandidateKeeps, NotCandidateKeeps
      <4> QED BY <1>5, <3>3, <4>2, KeepsCompose
    <3> QED BY <3>1, <3>2, <3>3
  <2> QED BY <2>1, <2>2, <2>3, <2>4
<1>7. allowed => AllowsEntry(r, channel)
  BY <1>6 DEF AllowsEntry, Keeps
<1> QED BY <1>6, <1>7 DEF r

\* wd_stream_video_reset_locked takes the barrier of a planned recovery down, and
\* while a client is connected it keeps the debt; it leaves no video mode.
LEMMA ResetPolicyKeeps ==
    ASSUME NEW p \in Policy, NEW connected \in BOOLEAN, NEW resize \in BOOLEAN
    PROVE  LET r == ResetPolicy(p, connected, resize)
           IN  /\ KeepsBarrier(p, r)
               /\ connected => KeepsDebt(p, r)
               /\ ~UsesVideoFrames(r.stream_mode)
<1> DEFINE resume == resize /\ (p.planned_recovery_resume_video
                                  \/ (connected /\ UsesVideoFrames(p.stream_mode)))
           q == [p EXCEPT !.video_candidate_seconds = 0, !.tile_recovery_seconds = 0,
                          !.planned_recovery_resume_video = resume]
           restart == /\ resize
                      /\ p.stream_mode = "TILE_RECOVERY"
                      /\ p.video_recovery_class = "PLANNED"
           again == [ClearRecoveryRefresh(q) EXCEPT !.tile_refresh_pending = TRUE,
                                                    !.tile_recovery_content_epoch = 0]
           s == IF restart THEN again ELSE q
           mode == IF connected THEN "TILE_RECOVERY" ELSE "TILES"
           class == IF ~connected THEN "NONE" ELSE IF resize THEN "PLANNED" ELSE "FAILURE"
           t == SetMode(s, mode, class)
           r == ResetPolicy(p, connected, resize)
<1>1. r = IF p.stream_mode = "TILES" THEN q ELSE t
  BY Zenon DEF ResetPolicy
<1>2. mode \in Modes /\ class \in RecoveryClasses /\ resume \in BOOLEAN
  BY DEF Modes, RecoveryClasses
<1>3. ~UsesVideoFrames(r.stream_mode)
  BY ResetPolicyType DEF UsesVideoFrames
<1> HIDE DEF resume, r, class
<1>4. q \in Policy
  BY <1>2, ResetUpdate, Zenon
<1>5. SameRefresh(p, q)
  BY DEF Policy, SameRefresh
<1>6. KeepsBarrier(p, q) /\ KeepsDebt(p, q)
  BY <1>5, SameRefreshKeeps
<1> HIDE DEF q
<1>7. /\ again \in Policy /\ again.stream_mode = q.stream_mode /\ again.tile_refresh_pending
      /\ ~again.tile_recovery_refresh_started /\ ~again.tile_recovery_refresh_sent
      /\ again.tile_recovery_framebuffer_generation = 0
  <2> DEFINE c == ClearRecoveryRefresh(q)
  <2>1. /\ c \in Policy /\ c.stream_mode = q.stream_mode
        /\ ~c.tile_recovery_refresh_started /\ ~c.tile_recovery_refresh_sent
        /\ c.tile_recovery_framebuffer_generation = 0
    BY <1>4, Zenon DEF ClearRecoveryRefresh, Policy
  <2> HIDE DEF c
  <2>2. /\ [c EXCEPT !.tile_refresh_pending = TRUE, !.tile_recovery_content_epoch = 0] \in Policy
        /\ [c EXCEPT !.tile_refresh_pending = TRUE, !.tile_recovery_content_epoch = 0].stream_mode
             = c.stream_mode
    BY <2>1, Zenon DEF Policy
  <2> QED BY <2>1, <2>2 DEF c, Policy
<1>8. KeepsBarrier(p, again) /\ KeepsDebt(p, again)
  <2> HIDE DEF again
  <2>1. KeepsBarrier(p, again)
    BY <1>7 DEF KeepsBarrier, BarrierOK
  <2>2. KeepsDebt(p, again)
    BY <1>7 DEF KeepsDebt, Owes, RefreshDue
  <2> QED BY <2>1, <2>2
<1>9. s \in Policy /\ s.stream_mode = p.stream_mode /\ KeepsBarrier(p, s) /\ KeepsDebt(p, s)
  BY <1>4, <1>5, <1>6, <1>7, <1>8 DEF SameRefresh
<1> HIDE DEF s, again, restart
<1>10. KeepsBarrier(s, t) /\ (connected => KeepsDebt(s, t))
  BY <1>2, <1>9, SetModeKeeps
<1> HIDE DEF t
<1>11. KeepsBarrier(p, t)
  BY <1>9, <1>10 DEF KeepsBarrier
<1>12. connected => KeepsDebt(p, t)
  BY <1>9, <1>10 DEF KeepsDebt
<1> QED BY <1>1, <1>3, <1>6, <1>11, <1>12 DEF r

-----------------------------------------------------------------------------
(* The steps of the pipeline. *)

\* What is to be shown of every step.
SentWhole ==
    policy'.tile_recovery_refresh_sent /\ ~policy.tile_recovery_refresh_sent =>
        ~lost' \/ policy'.tile_recovery_live_damage_deferred
RefreshStep == RefreshInv' /\ SentWhole

\* A step of a thread that does not set up a barrier.
LEMMA BarrierStep ==
    ASSUME TypeOK, TypeOK', BarrierInv,
           KeepsBarrier(policy, policy'),
           framebuffer_generation' >= framebuffer_generation,
           config_update_pending' =>
              config_update_pending \/ framebuffer_generation' > framebuffer_generation,
           fw'.gpu_only \/ fw'.skipped => ~policy'.tile_recovery_refresh_started,
           \/ lost' => lost
           \/ ~policy'.tile_recovery_refresh_started
           \/ framebuffer_generation' > framebuffer_generation
           \/ config_update_pending
    PROVE  BarrierInv' /\ SentWhole
<1>1. /\ framebuffer_generation \in Nat /\ framebuffer_generation' \in Nat
      /\ policy.tile_recovery_framebuffer_generation \in Nat
      /\ policy'.tile_recovery_framebuffer_generation \in Nat
  BY DEF TypeOK, Policy
<1>2. BarrierOK(policy) /\ BarrierOK(policy)'
  BY DEF BarrierInv, BarrierHolds, KeepsBarrier
<1>3. BarrierHolds(policy, framebuffer_generation, lost)'
  BY <1>1, <1>2 DEF BarrierInv, BarrierHolds, KeepsBarrier
<1>4. BarrierInv'
  BY <1>1, <1>2, <1>3 DEF BarrierInv, BarrierHolds, KeepsBarrier
<1>5. SentWhole
  BY <1>2, Zenon DEF SentWhole, BarrierOK, KeepsBarrier
<1> QED BY <1>4, <1>5

\* A step that loses no refresh on its way.
LEMMA DebtStep ==
    ASSUME DamageInv,
           session' = "up" => session = "up" /\ KeepsDebt(policy, policy'),
           UsesVideoFrames(Mode') => AllowsEntry(policy', video_channel'),
           Coming => Coming',
           (lost' => lost) \/ Coming'
    PROVE  DamageInv'
BY DEF DamageInv, KeepsDebt, Mode

\* A step that queues no recovery keyframe.
LEMMA KeyframeStep ==
    ASSUME RecoveryKeyframeCurrent, KeepsKeyframe(policy, policy'),
           Mode' = "VIDEO_RECOVERING" => UNCHANGED <<content_epoch, last_frame>>
    PROVE  RecoveryKeyframeCurrent'
BY DEF RecoveryKeyframeCurrent, KeepsKeyframe, Mode

\* A step that does not touch the policy.
LEMMA SamePolicyKeeps ==
    ASSUME policy' = policy
    PROVE  Keeps(policy, policy')
BY OtherFieldsKeep DEF SameRefresh

\* A step that touches nothing of all this.
LEMMA QuietRefresh ==
    ASSUME TypeOK, TypeOK', RefreshInv,
           UNCHANGED <<session, video_channel, framebuffer_generation, config_update_pending, policy,
                       fw, refresh_requested, shadow_valid, lost>>,
           Mode = "VIDEO_RECOVERING" => UNCHANGED <<content_epoch, last_frame>>
    PROVE  RefreshStep
<1>1. Keeps(policy, policy') /\ Mode' = Mode
  BY SamePolicyKeeps DEF Mode
<1>2. BarrierInv' /\ SentWhole
  BY <1>1, BarrierStep DEF RefreshInv, BarrierInv, Keeps, TypeOK
<1>3. DamageInv'
  BY <1>1, DebtStep DEF RefreshInv, DamageInv, Keeps, Coming, FullFrame
<1>4. RecoveryKeyframeCurrent'
  BY <1>1, KeyframeStep DEF RefreshInv, Keeps
<1> QED BY <1>2, <1>3, <1>4 DEF RefreshStep, RefreshInv

\* wd_stream_video_reset_locked, whoever calls it: no step of it loses a debt or sets
\* up a barrier, and no video mode is left.
LEMMA VideoResetRefresh ==
    ASSUME TypeOK, TypeOK', RefreshInv, NEW epoch, NEW connected \in BOOLEAN, NEW resize \in BOOLEAN,
           VideoReset(epoch, connected, resize),
           framebuffer_generation' >= framebuffer_generation,
           config_update_pending' =>
              config_update_pending \/ framebuffer_generation' > framebuffer_generation,
           fw' = fw,
           \/ lost' = lost
           \/ framebuffer_generation' > framebuffer_generation
           \/ ~connected,
           session' = "up" => session = "up" /\ (connected \/ Coming'),
           Coming => Coming' \/ session' # "up",
           (lost' => lost) \/ Coming' \/ session' # "up"
    PROVE  RefreshStep
<1>1. /\ KeepsBarrier(policy, policy')
      /\ connected => KeepsDebt(policy, policy')
      /\ ~UsesVideoFrames(Mode')
      /\ ~connected => Mode' = "TILES"
  <2>1. policy' = ResetPolicy(policy, connected, resize) /\ policy \in Policy
    BY DEF VideoReset, TypeOK
  <2> QED BY <2>1, ResetPolicyKeeps, ResetPolicyType DEF Mode
<1>2. BarrierOK(policy')
  BY <1>1 DEF RefreshInv, BarrierInv, BarrierHolds, KeepsBarrier
<1>3. ~connected => ~policy'.tile_recovery_refresh_started
  BY <1>1, <1>2 DEF BarrierOK, Mode
<1>4. fw'.gpu_only \/ fw'.skipped => ~policy'.tile_recovery_refresh_started
  BY <1>1 DEF RefreshInv, BarrierInv, BarrierHolds, KeepsBarrier
<1>5. BarrierInv' /\ SentWhole
  BY <1>1, <1>3, <1>4, BarrierStep DEF RefreshInv
<1>6. DamageInv'
  BY <1>1 DEF RefreshInv, DamageInv, KeepsDebt, Mode
<1>7. RecoveryKeyframeCurrent'
  BY <1>1 DEF RecoveryKeyframeCurrent, UsesVideoFrames
<1> QED BY <1>5, <1>6, <1>7 DEF RefreshStep, RefreshInv

\* A new session, or none, has neither barrier nor video.
LEMMA FreshPolicy ==
    ASSUME TypeOK, TypeOK', RefreshInv,
           Mode' = "TILES", session' # "up",
           ~policy'.tile_recovery_refresh_started, ~policy'.tile_recovery_refresh_sent,
           policy'.tile_recovery_framebuffer_generation = 0,
           UNCHANGED <<framebuffer_generation>>
    PROVE  RefreshStep
<1>1. BarrierInv'
  BY DEF RefreshInv, BarrierInv, BarrierHolds, BarrierOK, TypeOK
<1>2. DamageInv' /\ RecoveryKeyframeCurrent' /\ SentWhole
  BY DEF DamageInv, RecoveryKeyframeCurrent, SentWhole, UsesVideoFrames
<1> QED BY <1>1, <1>2 DEF RefreshStep, RefreshInv

\* The handlers of the network thread.
LEMMA NetworkRefresh ==
    ASSUME TypeOK, TypeOK', OwnershipInv, RefreshInv, Network
    PROVE  RefreshStep
<1> USE DEF session_vars, epoch_vars, worker_vars, video_vars, refresh_vars, pixel_vars
<1>1. ASSUME NEW mode \in SessionVideoModes, NEW video_capable \in BOOLEAN,
             Negotiate(mode, video_capable)
      PROVE  RefreshStep
  <2>1. /\ policy' = BeginSession(mode, video_capable, content_epoch + 1)
        /\ session' = "negotiated" /\ framebuffer_generation' = framebuffer_generation
    BY <1>1, Zenon DEF Negotiate
  <2>2. /\ policy'.stream_mode = "TILES"
        /\ ~policy'.tile_recovery_refresh_started /\ ~policy'.tile_recovery_refresh_sent
        /\ policy'.tile_recovery_framebuffer_generation = 0
    BY <2>1 DEF BeginSession, PolicyDefaults
  <2> QED BY <2>1, <2>2, FreshPolicy DEF Mode
<1>2. CASE NegotiationFailed
  <2>1. /\ policy'.stream_mode = "TILES"
        /\ ~policy'.tile_recovery_refresh_started /\ ~policy'.tile_recovery_refresh_sent
        /\ policy'.tile_recovery_framebuffer_generation = 0
    BY <1>2 DEF NegotiationFailed, PolicyDefaults
  <2> QED BY <1>2, <2>1, FreshPolicy DEF NegotiationFailed, Mode
<1>3. CASE Publish
  <2>1. Mode = "TILES" /\ Mode' = "TILES" /\ Keeps(policy, policy')
    BY <1>3, SamePolicyKeeps DEF Publish, OwnershipInv, Mode
  <2>2. ~policy'.tile_recovery_refresh_started
    BY <1>3, <2>1 DEF RefreshInv, BarrierInv, BarrierHolds, BarrierOK, Mode, Publish
  <2>3. BarrierInv' /\ SentWhole
    BY <1>3, <2>1, <2>2, BarrierStep DEF Publish, RefreshInv, Keeps, TypeOK
  <2>4. DamageInv' /\ RecoveryKeyframeCurrent'
    BY <1>3, <2>1 DEF Publish, DamageInv, RecoveryKeyframeCurrent, Coming, UsesVideoFrames
  <2> QED BY <2>3, <2>4 DEF RefreshStep, RefreshInv
<1>4. CASE Disconnect
  <2>1. /\ VideoReset(content_epoch + 1, FALSE, FALSE)
        /\ session' = "down" /\ config_update_pending' = FALSE
        /\ framebuffer_generation' = framebuffer_generation /\ fw' = fw
    BY <1>4, Zenon DEF Disconnect
  <2>2. framebuffer_generation' >= framebuffer_generation
    BY <2>1 DEF TypeOK
  <2> QED BY <2>1, <2>2, VideoResetRefresh, Zenon
<1>5. CASE VideoChannelClosed
  <2>1. /\ VideoReset(content_epoch, TRUE, FALSE) /\ session = "up"
        /\ UNCHANGED <<session, framebuffer_generation, config_update_pending, fw, refresh_vars,
                       pixel_vars>>
    BY <1>5, Zenon DEF VideoChannelClosed
  <2>2. framebuffer_generation' >= framebuffer_generation /\ Coming' = Coming
    BY <2>1 DEF TypeOK, Coming, FullFrame
  <2> QED BY <2>1, <2>2, VideoResetRefresh, Zenon
<1>6. CASE ConfigApplied
  <2>1. Keeps(policy, policy') /\ Mode' = Mode
    BY <1>6, SamePolicyKeeps DEF ConfigApplied, Mode
  <2>2. BarrierInv' /\ SentWhole
    BY <1>6, <2>1, BarrierStep DEF ConfigApplied, RefreshInv, BarrierInv, Keeps, TypeOK
  <2>3. DamageInv'
    BY <1>6, <2>1, DebtStep DEF ConfigApplied, RefreshInv, DamageInv, Keeps, Coming
  <2>4. RecoveryKeyframeCurrent'
    BY <1>6, <2>1, KeyframeStep DEF ConfigApplied, RefreshInv, Keeps
  <2> QED BY <2>2, <2>3, <2>4 DEF RefreshStep, RefreshInv
<1>7. ASSUME NEW flag \in {"recover", "fallback"}, VideoFeedback(flag)
      PROVE  RefreshStep
  <2> DEFINE f == IF policy.video_feedback_flags = "fallback" THEN policy.video_feedback_flags ELSE flag
  <2>1. /\ policy' = [policy EXCEPT !.video_feedback_flags = f]
        /\ UNCHANGED <<session_vars, epoch_vars, worker_vars, video_vars, fw, refresh_vars,
                       pixel_vars>>
    BY <1>7 DEF VideoFeedback
  <2> HIDE DEF f
  <2>2. /\ SameRefresh(policy, policy')
        /\ policy'.video_recovery_keyframe_queued = policy.video_recovery_keyframe_queued
        /\ policy'.video_recovery_keyframe_id = policy.video_recovery_keyframe_id
    BY <2>1 DEF TypeOK, Policy, SameRefresh
  <2>3. Keeps(policy, policy')
    BY <2>2, OtherFieldsKeep
  <2>4. BarrierInv' /\ SentWhole
    BY <2>1, <2>2, <2>3, BarrierStep DEF RefreshInv, BarrierInv, Keeps, TypeOK, SameRefresh
  <2>5. DamageInv'
    BY <2>1, <2>2, <2>3, DebtStep
       DEF RefreshInv, DamageInv, Keeps, SameRefresh, Coming, FullFrame, Mode, AllowsEntry
  <2>6. RecoveryKeyframeCurrent'
    BY <2>1, <2>3, KeyframeStep DEF RefreshInv, Keeps
  <2> QED BY <2>4, <2>5, <2>6 DEF RefreshStep, RefreshInv
<1> QED BY <1>1, <1>2, <1>3, <1>4, <1>5, <1>6, <1>7 DEF Network

\* A tick of the controller.
LEMMA TickRefresh ==
    ASSUME TypeOK, TypeOK', OwnershipInv, RefreshInv,
           NEW tile \in Nat, NEW frame \in Nat, NEW health \in HealthClasses,
           NEW auto \in BOOLEAN, NEW low_dirty \in BOOLEAN,
           Tick(tile, frame, health, auto, low_dirty)
    PROVE  RefreshStep
<1> DEFINE h == UpdateHealth(policy, tile, frame, health)
           p == UpdateMode(h, tile, video_channel, auto, low_dirty)
<1>1. h \in Policy
  BY UpdateHealthType DEF TypeOK
<1>2. Keeps(policy, h) /\ (UsesVideoFrames(h.stream_mode) => UsesVideoFrames(Mode))
  BY UpdateHealthKeeps DEF TypeOK, RefreshInv, BarrierInv, BarrierHolds, Mode
<1>3. UsesVideoFrames(h.stream_mode) => AllowsEntry(h, video_channel)
  <2> HIDE DEF h
  <2> QED BY <1>2 DEF RefreshInv, DamageInv, AllowsEntry, Keeps
<1>4. /\ p \in Policy /\ Keeps(h, p)
      /\ UsesVideoFrames(p.stream_mode) => AllowsEntry(p, video_channel)
  <2>1. video_channel \in BOOLEAN
    BY DEF TypeOK
  <2> HIDE DEF h
  <2> QED BY <1>1, <1>3, <2>1, UpdateModeType, UpdateModeKeeps
<1>5. /\ content_epoch' = IF VideoOwnsDisplay(p.stream_mode) # Owned THEN content_epoch + 1
                          ELSE content_epoch
      /\ policy' = IF Owned /\ p.stream_mode = "TILE_RECOVERY"
                     THEN [p EXCEPT !.tile_recovery_content_epoch = content_epoch + 1] ELSE p
      /\ UNCHANGED <<session, video_channel, framebuffer_generation, config_update_pending,
                     last_frame, fw, refresh_requested, shadow_valid, lost>>
  BY Zenon DEF Tick, session_vars, video_vars, refresh_vars, pixel_vars
<1> HIDE DEF p, h
<1>6. /\ SameRefresh(p, policy')
      /\ policy'.video_recovery_keyframe_queued = p.video_recovery_keyframe_queued
      /\ policy'.video_recovery_keyframe_id = p.video_recovery_keyframe_id
  BY <1>4, <1>5 DEF Policy, SameRefresh
<1>7. Keeps(policy, policy')
  BY <1>2, <1>4, <1>6, OtherFieldsKeep, KeepsCompose
<1>8. /\ Mode' = p.stream_mode
      /\ UsesVideoFrames(Mode') => AllowsEntry(policy', video_channel')
  BY <1>4, <1>5, <1>6 DEF SameRefresh, Mode, AllowsEntry
<1>9. policy'.tile_recovery_refresh_started => policy.tile_recovery_refresh_started
  BY <1>7 DEF Keeps, KeepsBarrier, RefreshInv, BarrierInv, BarrierHolds
<1>10. BarrierInv' /\ SentWhole
  BY <1>5, <1>7, <1>9, BarrierStep DEF RefreshInv, BarrierInv, Keeps, TypeOK
<1>11. DamageInv'
  BY <1>5, <1>7, <1>8, DebtStep DEF RefreshInv, Keeps, Coming, FullFrame
<1>12. RecoveryKeyframeCurrent'
  <2>1. CASE Mode' = "VIDEO_RECOVERING" /\ Mode = "VIDEO_RECOVERING"
    <3>1. content_epoch' = content_epoch
      BY <1>5, <1>8, <2>1 DEF Owned, VideoOwnsDisplay
    <3> QED BY <1>5, <1>7, <3>1, KeyframeStep DEF RefreshInv, Keeps
  <2>2. CASE Mode' # "VIDEO_RECOVERING" \/ Mode # "VIDEO_RECOVERING"
    BY <1>7, <2>2 DEF RecoveryKeyframeCurrent, Keeps, KeepsKeyframe, Mode
  <2> QED BY <2>1, <2>2
<1> QED BY <1>10, <1>11, <1>12 DEF RefreshStep, RefreshInv

\* A step that leaves policy, session, epoch and framebuffer alone.
LEMMA FrameStepRefresh ==
    ASSUME TypeOK, TypeOK', RefreshInv,
           UNCHANGED <<session, video_channel, content_epoch, framebuffer_generation,
                       config_update_pending, policy, last_frame>>,
           fw'.gpu_only \/ fw'.skipped => ~policy.tile_recovery_refresh_started,
           \/ lost' => lost
           \/ ~policy.tile_recovery_refresh_started
           \/ config_update_pending,
           Coming => Coming',
           (lost' => lost) \/ Coming' \/ session # "up"
    PROVE  RefreshStep
<1>1. Keeps(policy, policy') /\ Mode' = Mode
  BY SamePolicyKeeps DEF Mode
<1>2. BarrierInv' /\ SentWhole
  BY <1>1, BarrierStep DEF RefreshInv, Keeps, TypeOK
<1>3. DamageInv'
  BY <1>1 DEF RefreshInv, DamageInv
<1>4. RecoveryKeyframeCurrent'
  BY <1>1, KeyframeStep DEF RefreshInv, Keeps
<1> QED BY <1>2, <1>3, <1>4 DEF RefreshStep, RefreshInv

\* While the video owns the display, or there is no client, there is no barrier.
LEMMA NoBarrier ==
    ASSUME RefreshInv, OwnershipInv, Owned \/ session # "up" \/ RefreshDue(policy)
    PROVE  ~policy.tile_recovery_refresh_started
BY DEF RefreshInv, BarrierInv, BarrierHolds, BarrierOK, OwnershipInv, Owned, VideoOwnsDisplay, Mode,
       RefreshDue

\* The steps of the compositor thread.
LEMMA CompositorRefresh ==
    ASSUME TypeOK, TypeOK', OwnershipInv, RefreshInv, Compositor
    PROVE  RefreshStep
<1> USE DEF session_vars, epoch_vars, worker_vars, video_vars, refresh_vars, pixel_vars
<1>1. CASE ApplyCompositorRequests
  BY <1>1, FrameStepRefresh DEF ApplyCompositorRequests, RefreshInv, BarrierInv, Coming
<1>2. ASSUME NEW gpu_only \in BOOLEAN, SubmitFrame(gpu_only)
      PROVE  RefreshStep
  <2>1. /\ fw.pc = "idle" /\ (gpu_only => Owned)
        /\ fw' = [IdleWorker EXCEPT !.pc = "submitted", !.gpu_only = gpu_only]
        /\ UNCHANGED <<session_vars, epoch_vars, policy, worker_vars, video_vars, refresh_vars,
                       pixel_vars>>
    BY <1>2, Zenon DEF SubmitFrame, ShouldRender
  <2>2. fw'.gpu_only = gpu_only /\ ~fw'.skipped
    BY <2>1 DEF IdleWorker
  <2>3. Coming => Coming'
    BY <2>1 DEF Coming, FullFrame
  <2> QED BY <2>1, <2>2, <2>3, NoBarrier, FrameStepRefresh
<1>3. CASE RequestService
  <2>1. ~fw'.gpu_only /\ ~fw'.skipped
    BY <1>3 DEF RequestService, IdleWorker
  <2>2. Coming => Coming'
    BY <1>3 DEF RequestService, Coming, FullFrame
  <2> QED BY <1>3, <2>1, <2>2, FrameStepRefresh DEF RequestService
<1>4. CASE Resize
  <2>1. /\ VideoReset(content_epoch, session = "up", TRUE)
        /\ framebuffer_generation' = framebuffer_generation + 1
        /\ config_update_pending' = TRUE
        /\ UNCHANGED <<session, fw>>
    BY <1>4, Zenon DEF Resize
  <2>2. (session = "up") \in BOOLEAN /\ Coming'
    BY <2>1 DEF Coming
  <2>3. /\ framebuffer_generation' >= framebuffer_generation
        /\ framebuffer_generation' > framebuffer_generation
    BY <2>1 DEF TypeOK
  <2> QED BY <2>1, <2>2, <2>3, VideoResetRefresh, Zenon
<1>5. CASE VideoTransportFailed
  <2>1. /\ VideoReset(content_epoch, TRUE, FALSE) /\ session = "up"
        /\ refresh_requested' = TRUE
        /\ UNCHANGED <<session, framebuffer_generation, config_update_pending, fw, lost>>
    BY <1>5, Zenon DEF VideoTransportFailed
  <2>2. framebuffer_generation' >= framebuffer_generation /\ Coming'
    BY <2>1 DEF TypeOK, Coming
  <2> QED BY <2>1, <2>2, VideoResetRefresh, Zenon
<1>6. CASE ControllerTick
  BY <1>6, ControllerTickArguments, TickRefresh
<1> QED BY <1>1, <1>2, <1>3, <1>4, <1>5, <1>6 DEF Compositor

\* What the start of a full refresh in wd_stream_send_tiles assigns.
LEMMA StartRefreshFields ==
    ASSUME NEW p \in Policy
    PROVE  LET q == StartRefresh(p)
               recovering == p.stream_mode = "TILE_RECOVERY"
           IN  /\ q.stream_mode = p.stream_mode /\ q.video_mode = p.video_mode
               /\ ~q.tile_refresh_pending /\ ~q.tile_recovery_refresh_sent
               /\ q.tile_recovery_refresh_started <=> recovering
               /\ q.tile_recovery_framebuffer_generation =
                     IF recovering THEN framebuffer_generation
                     ELSE p.tile_recovery_framebuffer_generation
               /\ q.video_recovery_keyframe_queued = p.video_recovery_keyframe_queued
               /\ q.video_recovery_keyframe_id = p.video_recovery_keyframe_id
BY Zenon DEF StartRefresh, Policy

\* What the end of a send pass assigns.
LEMMA FinishRefreshFields ==
    ASSUME NEW p \in Policy, NEW queued \in BOOLEAN
    PROVE  LET q == FinishRefresh(p, queued)
           IN  /\ q.stream_mode = p.stream_mode /\ q.video_mode = p.video_mode
               /\ q.tile_refresh_pending <=> p.tile_refresh_pending \/ StaleGeneration(p)
               /\ q.tile_recovery_refresh_started <=>
                     p.tile_recovery_refresh_started /\ ~StaleGeneration(p)
               /\ q.tile_recovery_refresh_sent <=>
                     p.tile_recovery_refresh_sent \/ RefreshTransmitted(p, queued)
               /\ q.tile_recovery_framebuffer_generation =
                     IF StaleGeneration(p) THEN 0 ELSE p.tile_recovery_framebuffer_generation
               /\ q.tile_recovery_live_damage_deferred = p.tile_recovery_live_damage_deferred
               /\ q.video_recovery_keyframe_queued = p.video_recovery_keyframe_queued
               /\ q.video_recovery_keyframe_id = p.video_recovery_keyframe_id
<1> DEFINE stale == StaleGeneration(p)
           sent  == RefreshTransmitted(p, queued)
           q     == FinishRefresh(p, queued)
<1>1. q = [p EXCEPT
           !.tile_refresh_pending = @ \/ stale,
           !.tile_recovery_refresh_started = @ /\ ~stale,
           !.tile_recovery_refresh_sent = @ \/ sent,
           !.tile_recovery_wait_seconds = IF stale \/ sent THEN 0 ELSE @,
           !.tile_recovery_content_epoch = IF stale THEN 0 ELSE @,
           !.tile_recovery_framebuffer_generation = IF stale THEN 0 ELSE @,
           !.video_bootstrap_refresh_sent =
                @ \/ (p.video_bootstrap_pending /\ p.video_bootstrap_refresh_started /\ ~queued)]
  BY Zenon DEF FinishRefresh
<1> HIDE DEF stale, sent, q
<1>2. /\ q.stream_mode = p.stream_mode /\ q.video_mode = p.video_mode
      /\ q.tile_refresh_pending <=> p.tile_refresh_pending \/ stale
      /\ q.tile_recovery_refresh_started <=> p.tile_recovery_refresh_started /\ ~stale
      /\ q.tile_recovery_refresh_sent <=> p.tile_recovery_refresh_sent \/ sent
      /\ q.tile_recovery_framebuffer_generation =
            IF stale THEN 0 ELSE p.tile_recovery_framebuffer_generation
      /\ q.tile_recovery_live_damage_deferred = p.tile_recovery_live_damage_deferred
      /\ q.video_recovery_keyframe_queued = p.video_recovery_keyframe_queued
      /\ q.video_recovery_keyframe_id = p.video_recovery_keyframe_id
  BY <1>1, Zenon DEF Policy
<1> QED BY <1>2 DEF stale, sent, q

\* The end of a send pass keeps the barrier and the debt; it declares a recovery
\* refresh transmitted only when what the client lacks is deferred behind it.
LEMMA FinishRefreshKeeps ==
    ASSUME framebuffer_generation \in Nat, NEW p \in Policy, NEW queued \in BOOLEAN, NEW lacks \in BOOLEAN,
           BarrierHolds(p, framebuffer_generation, lacks)
    PROVE  LET q == FinishRefresh(p, queued)
           IN  /\ BarrierHolds(q, framebuffer_generation, lacks)
               /\ Owes(p) => Owes(q)
               /\ q.tile_recovery_refresh_sent /\ ~p.tile_recovery_refresh_sent =>
                     ~lacks \/ q.tile_recovery_live_damage_deferred
<1> DEFINE q == FinishRefresh(p, queued)
<1>1. /\ q.stream_mode = p.stream_mode
      /\ q.tile_refresh_pending <=> p.tile_refresh_pending \/ StaleGeneration(p)
      /\ q.tile_recovery_refresh_started <=>
            p.tile_recovery_refresh_started /\ ~StaleGeneration(p)
      /\ q.tile_recovery_refresh_sent <=>
            p.tile_recovery_refresh_sent \/ RefreshTransmitted(p, queued)
      /\ q.tile_recovery_framebuffer_generation =
            IF StaleGeneration(p) THEN 0 ELSE p.tile_recovery_framebuffer_generation
      /\ q.tile_recovery_live_damage_deferred = p.tile_recovery_live_damage_deferred
  BY FinishRefreshFields
<1>2. p.tile_recovery_framebuffer_generation \in Nat
  BY DEF Policy
<1> HIDE DEF q
<1>3. RefreshTransmitted(p, queued) =>
        /\ p.tile_recovery_refresh_started /\ ~p.tile_recovery_refresh_sent
        /\ ~StaleGeneration(p)
        /\ p.tile_recovery_framebuffer_generation = framebuffer_generation
  BY DEF RefreshTransmitted, StaleGeneration
<1>4. StaleGeneration(p) => ~p.tile_recovery_refresh_sent
  BY DEF StaleGeneration
<1>5. BarrierHolds(q, framebuffer_generation, lacks)
  BY <1>1, <1>2, <1>3, <1>4 DEF BarrierHolds, BarrierOK
<1>6. Owes(p) => Owes(q)
  BY <1>1 DEF Owes, RefreshDue
<1>7. q.tile_recovery_refresh_sent /\ ~p.tile_recovery_refresh_sent =>
        ~lacks \/ q.tile_recovery_live_damage_deferred
  BY <1>1, <1>3 DEF BarrierHolds
<1> QED BY <1>5, <1>6, <1>7 DEF q

\* A pass of the tiles: the full frame that starts a refresh brings everything, a
\* frame behind the barrier is deferred, any other is sent.
LEMMA TilePassRefresh ==
    ASSUME TypeOK, TypeOK', OwnershipInv, RefreshInv, TilePass
    PROVE  RefreshStep
<1> DEFINE due    == RefreshDue(policy)
           p      == IF due THEN StartRefresh(policy) ELSE policy
           defer  == /\ fw.pc = "frame" /\ ~due
                     /\ Mode = "TILE_RECOVERY" /\ p.tile_recovery_refresh_started
           damage == p.tile_recovery_live_damage_deferred \/ defer
           q      == [p EXCEPT !.tile_recovery_live_damage_deferred = damage]
           apply  == fw.pc = "frame" /\ ~defer
           queued == (dirty /\ ~due) \/ (apply /\ fw.changed)
<1>1. /\ AtPass /\ Admitted /\ ~Owned
      /\ due => FullFrame
      /\ lost' = IF apply THEN lost /\ ~fw.full ELSE lost \/ News
      /\ \/ /\ fw' = [IdleWorker EXCEPT !.pc = "sending"]
            /\ policy' = q
            /\ UNCHANGED refresh_requested
         \/ /\ fw' = IdleWorker
            /\ policy' = FinishRefresh(q, queued)
            /\ refresh_requested' = (refresh_requested \/ StaleGeneration(q))
      /\ UNCHANGED <<session, video_channel, content_epoch, framebuffer_generation,
                     config_update_pending, last_frame, shadow_valid>>
  BY Zenon DEF TilePass, session_vars, epoch_vars
<1>2. /\ policy \in Policy /\ framebuffer_generation \in Nat /\ content_epoch \in Nat
      /\ lost' \in BOOLEAN /\ lost \in BOOLEAN
  BY DEF TypeOK
<1>3. queued \in BOOLEAN /\ damage \in BOOLEAN
  OBVIOUS
<1>4. p \in Policy
  BY <1>2, StartRefreshType
<1>5. /\ p.stream_mode = Mode /\ p.video_mode = policy.video_mode
      /\ p.video_recovery_keyframe_queued = policy.video_recovery_keyframe_queued
      /\ p.video_recovery_keyframe_id = policy.video_recovery_keyframe_id
      /\ p.tile_recovery_refresh_sent => policy.tile_recovery_refresh_sent
      /\ due => /\ ~p.tile_refresh_pending /\ ~p.tile_recovery_refresh_sent
                /\ p.tile_recovery_refresh_started <=> Mode = "TILE_RECOVERY"
                /\ p.tile_recovery_framebuffer_generation =
                     IF Mode = "TILE_RECOVERY" THEN framebuffer_generation
                     ELSE policy.tile_recovery_framebuffer_generation
      /\ ~due => p = policy
  BY <1>2, StartRefreshFields DEF Mode
<1>6. due => ~defer
  OBVIOUS
<1>7. defer => Mode = "TILE_RECOVERY" /\ ~due
  OBVIOUS
<1>8. ~due /\ fw.pc = "frame" /\ ~defer => lost' = (lost /\ ~fw.full)
  BY <1>1
<1>9. due => ~lost'
  BY <1>1, <1>6, Zenon DEF FullFrame
<1>10. defer => damage
  OBVIOUS
<1>11. ~due /\ ~defer => (damage <=> policy.tile_recovery_live_damage_deferred)
  BY <1>5
<1>12. fw.pc # "frame" => lost' = lost
  BY <1>1, <1>2 DEF News
<1> HIDE DEF p, damage, due
<1>13. /\ q \in Policy
       /\ q.stream_mode = p.stream_mode /\ q.video_mode = p.video_mode
       /\ q.tile_refresh_pending = p.tile_refresh_pending
       /\ q.tile_recovery_refresh_started = p.tile_recovery_refresh_started
       /\ q.tile_recovery_refresh_sent = p.tile_recovery_refresh_sent
       /\ q.tile_recovery_framebuffer_generation = p.tile_recovery_framebuffer_generation
       /\ q.tile_recovery_live_damage_deferred <=> damage
       /\ q.video_recovery_keyframe_queued = p.video_recovery_keyframe_queued
       /\ q.video_recovery_keyframe_id = p.video_recovery_keyframe_id
  BY <1>3, <1>4 DEF Policy
<1> HIDE DEF q, defer, queued, apply
<1>14. BarrierHolds(policy, framebuffer_generation, lost)
  BY DEF RefreshInv, BarrierInv
<1>15. BarrierHolds(q, framebuffer_generation, lost')
  <2>1. CASE due
    BY <1>2, <1>5, <1>9, <1>13, <1>14, <2>1 DEF BarrierHolds, BarrierOK, Policy
  <2>2. CASE ~due /\ defer
    BY <1>5, <1>10, <1>13, <1>14, <2>2 DEF BarrierHolds, BarrierOK
  <2>3. CASE ~due /\ ~defer
    <3>1. lost' => lost
      BY <1>8, <1>12, <2>3, Zenon
    <3>2. /\ BarrierOK(q)
          /\ q.tile_recovery_framebuffer_generation = policy.tile_recovery_framebuffer_generation
          /\ q.tile_recovery_refresh_started = policy.tile_recovery_refresh_started
          /\ q.tile_recovery_refresh_sent = policy.tile_recovery_refresh_sent
          /\ q.tile_recovery_live_damage_deferred <=> policy.tile_recovery_live_damage_deferred
      BY <1>5, <1>11, <1>13, <1>14, <2>3 DEF BarrierHolds, BarrierOK
    <3> QED BY <1>14, <3>1, <3>2 DEF BarrierHolds
  <2> QED BY <2>1, <2>2, <2>3
<1>16. lost' /\ ~UsesVideoFrames(Mode) => refresh_requested \/ ~shadow_valid \/ Owes(q)
  <2>1. CASE due
    BY <1>9, <2>1
  <2>2. CASE ~due /\ defer
    BY <1>5, <1>7, <1>10, <1>13, <2>2 DEF Owes
  <2>3. CASE ~due /\ ~defer
    <3>1. lost' => lost /\ ~FullFrame
      BY <1>8, <1>12, <2>3, Zenon DEF FullFrame
    <3>2. lost' /\ ~UsesVideoFrames(Mode) => refresh_requested \/ ~shadow_valid \/ Owes(policy)
      BY <1>1, <3>1, Zenon DEF RefreshInv, DamageInv, Coming, Admitted
    <3>3. Owes(policy) => Owes(q)
      BY <1>5, <1>11, <1>13, <2>3 DEF Owes, RefreshDue
    <3> QED BY <3>2, <3>3
  <2> QED BY <2>1, <2>2, <2>3
<1>17. /\ BarrierHolds(policy, framebuffer_generation, lost)'
       /\ policy'.stream_mode = q.stream_mode /\ policy'.video_mode = q.video_mode
       /\ policy'.video_recovery_keyframe_queued = q.video_recovery_keyframe_queued
       /\ policy'.video_recovery_keyframe_id = q.video_recovery_keyframe_id
       /\ Owes(q) => Owes(policy')
       /\ policy'.tile_recovery_refresh_sent /\ ~q.tile_recovery_refresh_sent =>
             ~lost' \/ policy'.tile_recovery_live_damage_deferred
  <2>1. CASE policy' = q
    BY <1>1, <1>15, <2>1
  <2>2. CASE policy' = FinishRefresh(q, queued)
    BY <1>1, <1>2, <1>3, <1>13, <1>15, <2>2, FinishRefreshKeeps, FinishRefreshFields
  <2> QED BY <1>1, <2>1, <2>2
<1>18. ~fw'.gpu_only /\ ~fw'.skipped
  BY <1>1 DEF IdleWorker
<1>19. Mode' = Mode
  BY <1>5, <1>13, <1>17 DEF Mode
<1>20. BarrierInv'
  BY <1>1, <1>17, <1>18 DEF RefreshInv, BarrierInv, Admitted
<1>21. DamageInv'
  <2>1. /\ refresh_requested => refresh_requested'
        /\ UNCHANGED <<session, video_channel, shadow_valid>>
    <3>1. UNCHANGED refresh_requested \/ refresh_requested' = (refresh_requested \/ StaleGeneration(q))
      BY <1>1
    <3>2. refresh_requested => refresh_requested'
      BY <3>1, Zenon
    <3> QED BY <1>1, <3>2
  <2>2. policy'.video_mode = policy.video_mode
    BY <1>5, <1>13, <1>17
  <2> QED BY <1>16, <1>17, <1>19, <2>1, <2>2 DEF RefreshInv, DamageInv, Coming, AllowsEntry
<1>22. SentWhole
  BY <1>5, <1>13, <1>17 DEF SentWhole
<1>23. RecoveryKeyframeCurrent'
  BY <1>1, <1>5, <1>13, <1>17, <1>19 DEF RefreshInv, RecoveryKeyframeCurrent
<1> QED BY <1>20, <1>21, <1>22, <1>23 DEF RefreshStep, RefreshInv

\* The steps of the frame worker.
LEMMA FrameWorkerRefresh ==
    ASSUME TypeOK, TypeOK', OwnershipInv, RefreshInv, FrameWorkerStep
    PROVE  RefreshStep
<1> USE DEF session_vars, epoch_vars, worker_vars, video_vars, refresh_vars, pixel_vars
<1>0. ~IdleWorker.gpu_only /\ ~IdleWorker.skipped
  BY DEF IdleWorker
<1>1. CASE SampleForce
  <2>1. /\ fw.pc = "submitted" /\ fw'.gpu_only = fw.gpu_only /\ fw'.skipped = fw.skipped
    BY <1>1 DEF SampleForce, TypeOK, FrameWorker
  <2>2. Coming => Coming'
    BY <1>1, <2>1 DEF SampleForce, Coming, FullFrame
  <2> QED BY <1>1, <2>1, <2>2, FrameStepRefresh DEF SampleForce, RefreshInv, BarrierInv
<1>2. CASE Analyze
  <2>1. fw.pc = "sampled" /\ UNCHANGED <<session_vars, epoch_vars, policy, worker_vars, video_vars>>
    BY <1>2, Zenon DEF Analyze
  <2>2. CASE /\ SkipDiff
             /\ fw' = [fw EXCEPT !.pc = "frame", !.skipped = TRUE]
             /\ shadow_valid' = FALSE
             /\ UNCHANGED <<refresh_requested, lost>>
    BY <2>1, <2>2, NoBarrier, FrameStepRefresh DEF SkipDiff, Coming
  <2>3. CASE /\ ~SkipDiff /\ fw.gpu_only
             /\ fw' = IdleWorker
             /\ refresh_requested' = TRUE /\ lost' = TRUE
             /\ UNCHANGED shadow_valid
    BY <1>0, <2>1, <2>3, FrameStepRefresh DEF RefreshInv, BarrierInv, Coming
  <2>4. ASSUME NEW full \in BOOLEAN, NEW changed \in BOOLEAN,
               full = (fw.force \/ ~shadow_valid),
               fw' = [fw EXCEPT !.pc = "frame", !.full = full, !.changed = changed],
               shadow_valid' = TRUE,
               UNCHANGED <<refresh_requested, lost>>
        PROVE  RefreshStep
    <3>1. /\ fw'.pc = "frame" /\ fw'.full = full
          /\ fw'.gpu_only = fw.gpu_only /\ fw'.skipped = fw.skipped
      BY <2>4 DEF TypeOK, FrameWorker
    <3>2. Coming => Coming'
      BY <2>1, <2>4, <3>1, Zenon DEF Coming, FullFrame
    <3> QED BY <2>1, <2>4, <3>1, <3>2, FrameStepRefresh DEF RefreshInv, BarrierInv
  <2>5. CASE /\ ~SkipDiff /\ ~fw.gpu_only
             /\ LET full == fw.force \/ ~shadow_valid
                IN \E changed \in (IF full THEN {TRUE} ELSE BOOLEAN) :
                      fw' = [fw EXCEPT !.pc = "frame", !.full = full, !.changed = changed]
             /\ shadow_valid' = TRUE
             /\ UNCHANGED <<refresh_requested, lost>>
    <3> DEFINE full == fw.force \/ ~shadow_valid
    <3>1. PICK changed \in (IF full THEN {TRUE} ELSE BOOLEAN) :
             fw' = [fw EXCEPT !.pc = "frame", !.full = full, !.changed = changed]
      BY <2>5, Zenon
    <3>2. full \in BOOLEAN /\ changed \in BOOLEAN /\ full = (fw.force \/ ~shadow_valid)
      BY Zenon
    <3> HIDE DEF full
    <3> QED BY <2>4, <2>5, <3>1, <3>2, Zenon
  <2> QED BY <1>2, <2>2, <2>3, <2>5, Zenon DEF Analyze
<1>3. CASE RefusePass
  <2>1. CASE config_update_pending
    <3>1. Coming /\ Coming'
      BY <1>3, <2>1 DEF RefusePass, Coming
    <3> QED BY <1>0, <1>3, <2>1, <3>1, FrameStepRefresh DEF RefusePass
  <2>2. CASE session # "up"
    <3>1. ~policy.tile_recovery_refresh_started
      BY <2>2, NoBarrier
    <3>2. policy' = policy /\ session' = session /\ fw' = IdleWorker
      BY <1>3 DEF RefusePass
    <3>3. Mode' = Mode /\ Mode = "TILES"
      BY <2>2, <3>2 DEF OwnershipInv, Mode
    <3>4. Keeps(policy, policy')
      BY <3>2, SamePolicyKeeps
    <3>5. BarrierInv' /\ SentWhole
      BY <1>0, <1>3, <3>1, <3>2, <3>4, BarrierStep DEF RefusePass, RefreshInv, Keeps, TypeOK
    <3>6. DamageInv' /\ RecoveryKeyframeCurrent'
      BY <2>2, <3>2, <3>3 DEF DamageInv, RecoveryKeyframeCurrent, UsesVideoFrames
    <3> QED BY <3>5, <3>6 DEF RefreshStep, RefreshInv
  <2> QED BY <1>3, <2>1, <2>2 DEF RefusePass, Admitted
<1>4. CASE AskFullFrame
  <2>1. ~policy.tile_recovery_refresh_started
    BY <1>4, NoBarrier DEF AskFullFrame, RefreshInv, BarrierInv
  <2>2. Coming'
    BY <1>4 DEF AskFullFrame, Coming
  <2> QED BY <1>0, <1>4, <2>1, <2>2, FrameStepRefresh DEF AskFullFrame
<1>5. CASE VideoPass
  <2>1. /\ Owned /\ fw' = IdleWorker
        /\ policy' \in {policy, StartRefresh(policy)}
        /\ UNCHANGED <<session_vars, epoch_vars, video_vars, refresh_vars>>
    BY <1>5, Zenon DEF VideoPass
  <2>2. /\ policy'.stream_mode = policy.stream_mode /\ policy'.video_mode = policy.video_mode
        /\ policy'.video_recovery_keyframe_queued = policy.video_recovery_keyframe_queued
        /\ policy'.video_recovery_keyframe_id = policy.video_recovery_keyframe_id
        /\ ~policy'.tile_recovery_refresh_started /\ ~policy'.tile_recovery_refresh_sent
        /\ policy'.tile_recovery_framebuffer_generation = policy.tile_recovery_framebuffer_generation
    <3>1. ~policy.tile_recovery_refresh_started /\ ~policy.tile_recovery_refresh_sent
      BY <2>1, NoBarrier DEF RefreshInv, BarrierInv, BarrierHolds, BarrierOK
    <3>2. policy \in Policy /\ policy.stream_mode # "TILE_RECOVERY"
      BY <2>1 DEF TypeOK, Owned, VideoOwnsDisplay, Mode
    <3> QED BY <2>1, <3>1, <3>2, StartRefreshFields
  <2>3. Mode' = Mode /\ UsesVideoFrames(Mode)
    BY <2>1, <2>2 DEF Mode, Owned, VideoOwnsDisplay, UsesVideoFrames
  <2>4. KeepsBarrier(policy, policy')
    BY <2>2 DEF KeepsBarrier, BarrierOK
  <2>5. BarrierInv' /\ SentWhole
    BY <1>0, <2>1, <2>2, <2>4, BarrierStep DEF RefreshInv, TypeOK
  <2>6. DamageInv' /\ RecoveryKeyframeCurrent'
    BY <2>1, <2>2, <2>3 DEF RefreshInv, DamageInv, AllowsEntry, RecoveryKeyframeCurrent
  <2> QED BY <2>5, <2>6 DEF RefreshStep, RefreshInv
<1>6. CASE TilePass
  BY <1>6, TilePassRefresh
<1>7. CASE SendResults
  BY <1>7, QuietRefresh DEF SendResults
<1>8. CASE FinishPass
  <2>1. /\ fw.pc = "sending" /\ fw' = IdleWorker
        /\ policy' = FinishRefresh(policy, dirty)
        /\ refresh_requested' = (refresh_requested \/ StaleGeneration(policy))
        /\ UNCHANGED <<session_vars, epoch_vars, video_vars, shadow_valid, pixel_vars>>
    BY <1>8, Zenon DEF FinishPass
  <2>2. /\ framebuffer_generation \in Nat /\ policy \in Policy /\ dirty \in BOOLEAN /\ lost \in BOOLEAN
        /\ BarrierHolds(policy, framebuffer_generation, lost)
    BY DEF TypeOK, RefreshInv, BarrierInv
  <2>3. /\ BarrierHolds(policy', framebuffer_generation, lost)
        /\ Owes(policy) => Owes(policy')
        /\ policy'.tile_recovery_refresh_sent /\ ~policy.tile_recovery_refresh_sent =>
              ~lost \/ policy'.tile_recovery_live_damage_deferred
    BY <2>1, <2>2, FinishRefreshKeeps
  <2>4. /\ policy'.stream_mode = policy.stream_mode /\ policy'.video_mode = policy.video_mode
        /\ policy'.video_recovery_keyframe_queued = policy.video_recovery_keyframe_queued
        /\ policy'.video_recovery_keyframe_id = policy.video_recovery_keyframe_id
        /\ policy'.tile_recovery_framebuffer_generation
             \in {0, policy.tile_recovery_framebuffer_generation}
    BY <2>1, <2>2, FinishRefreshFields
  <2>5. Mode' = Mode
    BY <2>4 DEF Mode
  <2>6. BarrierInv' /\ SentWhole
    BY <1>0, <2>1, <2>2, <2>3, <2>4 DEF RefreshInv, BarrierInv, SentWhole
  <2>7. DamageInv'
    BY <2>1, <2>3, <2>4, <2>5, Zenon DEF RefreshInv, DamageInv, AllowsEntry, Coming, FullFrame
  <2>8. RecoveryKeyframeCurrent'
    BY <2>1, <2>4, <2>5, Zenon DEF RefreshInv, RecoveryKeyframeCurrent
  <2> QED BY <2>6, <2>7, <2>8 DEF RefreshStep, RefreshInv
<1> QED BY <1>1, <1>2, <1>3, <1>4, <1>5, <1>6, <1>7, <1>8 DEF FrameWorkerStep

\* The steps of the video worker.
LEMMA VideoWorkerRefresh ==
    ASSUME TypeOK, TypeOK', OwnershipInv, RefreshInv, VideoWorkerStep
    PROVE  RefreshStep
<1> USE DEF session_vars, epoch_vars, worker_vars, video_vars, refresh_vars, pixel_vars
<1>1. CASE TakeJob \/ Encode \/ DropFrame
  <2>1. UNCHANGED <<session_vars, epoch_vars, policy, video_vars, fw, refresh_vars, pixel_vars>>
    BY <1>1, Zenon DEF TakeJob, Encode, DropFrame
  <2> QED BY <2>1, QuietRefresh
<1>2. CASE RefusedFrame
  <2>1. /\ VideoReset(content_epoch, TRUE, FALSE)
        /\ UNCHANGED <<session, framebuffer_generation, config_update_pending, fw, refresh_vars,
                       pixel_vars>>
    BY <1>2, Zenon DEF RefusedFrame
  <2>2. framebuffer_generation' >= framebuffer_generation /\ Coming' = Coming
    BY <2>1 DEF TypeOK, Coming, FullFrame
  <2> QED BY <2>1, <2>2, VideoResetRefresh, Zenon
<1>3. CASE QueueFrame
  <2> DEFINE commit == Mode = "VIDEO_READY" /\ EntersVideo
  <2>1. /\ active_job.stage = "encoded" /\ Publishable
        /\ last_frame' = [epoch |-> FrameEpoch, frame_id |-> active_job.frame_id]
        /\ content_epoch' = IF commit THEN FrameEpoch ELSE content_epoch
        /\ policy' = IF commit THEN SetMode(policy, "VIDEO_ACTIVE", "NONE")
                     ELSE TrackRecoveryKeyframe(policy)
        /\ UNCHANGED <<session, video_channel, framebuffer_generation, config_update_pending, fw,
                       refresh_vars, pixel_vars>>
    BY <1>3, Zenon DEF QueueFrame
  <2>2. /\ UsesVideoFrames(Mode) /\ active_job.frame_id \in Nat \ {0}
        /\ commit <=> ~Owned
        /\ FrameEpoch = IF Owned THEN content_epoch ELSE content_epoch + 1
    BY <2>1, PublishedFrame
  <2> HIDE DEF commit
  <2>3. /\ KeepsBarrier(policy, policy') /\ KeepsDebt(policy, policy')
        /\ policy'.video_mode = policy.video_mode
        /\ RecoveryKeyframeCurrent'
    <3>1. CASE commit
      <4>1. "VIDEO_ACTIVE" \in Modes /\ "NONE" \in RecoveryClasses /\ policy \in Policy
        BY DEF Modes, RecoveryClasses, TypeOK
      <4>2. Keeps(policy, policy') /\ policy'.stream_mode = "VIDEO_ACTIVE"
        BY <2>1, <3>1, <4>1, SetModeTick
      <4>3. RecoveryKeyframeCurrent'
        BY <4>2 DEF RecoveryKeyframeCurrent, Mode
      <4> QED BY <4>2, <4>3 DEF Keeps
    <3>2. CASE ~commit
      <4>1. policy' = TrackRecoveryKeyframe(policy) /\ policy \in Policy
        BY <2>1, <3>2 DEF TypeOK
      <4>2. SameRefresh(policy, policy')
        BY <4>1 DEF TrackRecoveryKeyframe, Policy, SameRefresh
      <4>3. content_epoch' = content_epoch /\ FrameEpoch = content_epoch /\ Owned
        BY <2>1, <2>2, <3>2
      <4>4. last_frame'.epoch = content_epoch' /\ last_frame'.frame_id = active_job.frame_id
        BY <2>1, <4>3
      <4>5. last_frame.epoch = content_epoch /\ last_frame.frame_id # 0 =>
               active_job.frame_id > last_frame.frame_id
        BY <2>1, <2>2 DEF OwnershipInv, LastFrameOwned
      <4>6. Mode' = Mode
        BY <4>2 DEF SameRefresh, Mode
      <4>7. CASE policy' = policy
        <5>1. ASSUME Mode = "VIDEO_RECOVERING", policy.video_recovery_keyframe_queued
              PROVE  policy.video_recovery_keyframe_id \in 1..active_job.frame_id
          <6>1. /\ last_frame.epoch = content_epoch
                /\ policy.video_recovery_keyframe_id \in 1..last_frame.frame_id
            BY <5>1 DEF RefreshInv, RecoveryKeyframeCurrent
          <6>2. last_frame.frame_id \in Nat
            BY DEF TypeOK, VideoFrame
          <6> QED BY <2>2, <4>5, <6>1, <6>2
        <5>2. RecoveryKeyframeCurrent'
          BY <4>4, <4>6, <4>7, <5>1 DEF RecoveryKeyframeCurrent
        <5> QED BY <4>2, <5>2, SameRefreshKeeps DEF SameRefresh
      <4>8. CASE policy' = [policy EXCEPT !.video_recovery_keyframe_queued = TRUE,
                                          !.video_recovery_keyframe_id = active_job.frame_id,
                                          !.video_recovery_wait_seconds = 0]
        <5>1. policy'.video_recovery_keyframe_id = active_job.frame_id
          BY <4>1, <4>8 DEF Policy
        <5>2. RecoveryKeyframeCurrent'
          BY <2>2, <4>4, <5>1 DEF RecoveryKeyframeCurrent
        <5> QED BY <4>2, <5>2, SameRefreshKeeps DEF SameRefresh
      <4> QED BY <4>1, <4>7, <4>8 DEF TrackRecoveryKeyframe
    <3> QED BY <3>1, <3>2
  <2>4. policy'.tile_recovery_refresh_started => policy.tile_recovery_refresh_started
    BY <2>3 DEF KeepsBarrier, RefreshInv, BarrierInv, BarrierHolds
  <2>5. BarrierInv' /\ SentWhole
    BY <2>1, <2>3, <2>4, BarrierStep DEF RefreshInv, BarrierInv, TypeOK
  <2>6. AllowsEntry(policy', video_channel')
    BY <2>1, <2>2, <2>3 DEF RefreshInv, DamageInv, AllowsEntry
  <2>7. DamageInv'
    BY <2>1, <2>3, <2>6, DebtStep DEF RefreshInv, Coming, FullFrame
  <2> QED BY <2>3, <2>5, <2>7 DEF RefreshStep, RefreshInv
<1> QED BY <1>1, <1>2, <1>3 DEF VideoWorkerStep

\* Every step of the server.
LEMMA NextRefresh ==
    ASSUME TypeOK, TypeOK', OwnershipInv, RefreshInv, [Next]_vars
    PROVE  RefreshStep
<1>1. CASE VideoSent \/ UNCHANGED vars
  <2>1. UNCHANGED <<session_vars, epoch_vars, policy, last_frame, fw, refresh_vars, pixel_vars>>
    BY <1>1, Zenon DEF VideoSent, vars, video_vars
  <2> QED BY <2>1, QuietRefresh DEF session_vars, epoch_vars, refresh_vars, pixel_vars
<1> QED BY <1>1, NetworkRefresh, CompositorRefresh, FrameWorkerRefresh, VideoWorkerRefresh DEF Next

\* A server that has just started owes nothing to anybody.
LEMMA InitRefresh == Init => RefreshInv
<1> SUFFICES ASSUME Init PROVE RefreshInv
  OBVIOUS
<1>1. /\ policy.stream_mode = "TILES" /\ ~policy.tile_recovery_refresh_started
      /\ ~policy.tile_recovery_refresh_sent /\ policy.tile_recovery_framebuffer_generation = 0
      /\ session = "down" /\ framebuffer_generation = 1
  BY DEF Init, PolicyDefaults
<1>2. BarrierInv
  BY <1>1 DEF BarrierInv, BarrierHolds, BarrierOK
<1>3. DamageInv /\ RecoveryKeyframeCurrent
  BY <1>1 DEF DamageInv, RecoveryKeyframeCurrent, Mode, UsesVideoFrames
<1> QED BY <1>2, <1>3 DEF RefreshInv

\* Debts, barrier and recovery keyframe are as they should be in every state.
THEOREM RefreshInvariant == Spec => []RefreshInv
<1>1. Init => RefreshInv
  BY InitRefresh
<1>2. TypeOK /\ TypeOK' /\ OwnershipInv /\ RefreshInv /\ [Next]_vars => RefreshInv'
  BY NextRefresh DEF RefreshStep
<1> QED BY <1>1, <1>2, TypeCorrect, OwnershipInvariant, PTL DEF Spec

\* No handoff between tiles and video, no refusal, deferral or failure of a frame and
\* no change of session or geometry loses pixels for good: whenever the worker is
\* idle and tiles own the display, what the client lacks is on its way.
THEOREM DamageNeverLost == Spec => []DamageAccounted
<1>1. RefreshInv => DamageAccounted
  BY DEF RefreshInv, DamageInv, DamageAccounted, Coming, Owes, FullFrame, Mode
<1> QED BY <1>1, RefreshInvariant, PTL

\* A recovery from VIDEO_RECOVERING only ever waits for a keyframe of the epoch the
\* video owns (wd_video_recovery_track_keyframe), however often it is retried.
THEOREM RecoveryKeyframes == Spec => []RecoveryKeyframeCurrent
<1>1. RefreshInv => RecoveryKeyframeCurrent
  BY DEF RefreshInv
<1> QED BY <1>1, RefreshInvariant, PTL

\* A recovery refresh is declared transmitted only when the client has been sent
\* the whole framebuffer, or what it lacks is deferred behind the barrier: no step
\* of the other threads between the start of the refresh and the end of its last
\* pass makes wd_tile_recovery_generation_decide accept a partial one.
THEOREM RecoveryRefreshWhole == Spec => RecoverySentIsWhole
<1>1. TypeOK /\ TypeOK' /\ OwnershipInv /\ RefreshInv /\ [Next]_vars
        => [policy'.tile_recovery_refresh_sent /\ ~policy.tile_recovery_refresh_sent =>
              ~lost' \/ policy'.tile_recovery_live_damage_deferred]_vars
  BY NextRefresh DEF RefreshStep, SentWhole
<1> QED BY <1>1, TypeCorrect, OwnershipInvariant, RefreshInvariant, PTL DEF Spec, RecoverySentIsWhole

=============================================================================
