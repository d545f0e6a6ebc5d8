---------------------------- MODULE VideoStream ----------------------------
(***************************************************************************)
(* The compressed video path from the server's encoder to the client's     *)
(* decoder.  A dependent frame can only be decoded by a decoder that       *)
(* holds the picture the encoder coded before it, and frames are dropped   *)
(* in many places on the way: behind an unfinished TCP send, with a stale  *)
(* job, by a full decode queue, by an epoch change.  Each dropper has to   *)
(* arrange for a keyframe before the next frame is decoded.                *)
(*                                                                         *)
(* Actors: the server's compositor thread (publishing snapshots, the one   *)
(* second controller), its video worker, its network thread; the client's  *)
(* TCP reader, decode worker, UDP receiver and render thread.  An action   *)
(* is one critical section.  A coded picture is a number; ref names the    *)
(* picture a frame was predicted from.                                     *)
(***************************************************************************)
EXTENDS Integers, Sequences, FiniteSetsExt, SequencesExt

CONSTANTS
    VideoScenarios,  \* budgets of a run: [frames, entries, gop, rates, opens, faults]
    DecodeCapacity,  \* WD_CLIENT_VIDEO_DECODE_INPUT_QUEUE_CAPACITY
    PresentCapacity, \* WD_CLIENT_VIDEO_PRESENT_QUEUE_CAPACITY
    MaxAttempts      \* WD_STREAM_VIDEO_RECOVERY_MAX_ATTEMPTS

VARIABLES
    left,   \* the scenario's budgets not used yet
    enc,    \* server: mode, epochs, encoder session, recovery, reports heard
    mail,   \* server: the video worker's mailbox and the job it works on
    vtx,    \* server: VIDEO_FRAME messages in the asynchronous sender
    vwire,  \* the video TCP stream
    vup,     \* the control TCP stream, client to server
    dec,    \* client: decode queue, decoder, present queue, counters
    hand,   \* client: the packet the decode worker holds
    draw    \* client: the video frame the render thread is presenting

vvars == <<left, enc, mail, vtx, vwire, vup, dec, hand, draw>>

UsesVideo(mode) == mode \in {"ready", "active", "recovering"}
VideoOwns(mode) == mode \in {"active", "recovering"}

NoVideoJob == [source |-> 0, worker |-> 0, key |-> FALSE, first |-> FALSE]
NoPacket == [epoch |-> 0, id |-> 0, key |-> FALSE, eos |-> FALSE, pic |-> 0, ref |-> 0]
IdleHand == [stage |-> "idle", packet |-> NoPacket, fresh |-> FALSE, flags |-> "none",
             seq |-> 0, epoch |-> 0]
NoDraw == [epoch |-> 0, id |-> 0, pic |-> 0]

VideoInit ==
    /\ left \in VideoScenarios
    /\ enc = [mode |-> "tiles", epoch |-> 1, worker |-> 1, config |-> 0, next |-> 0,
              rate |-> TRUE, keyreq |-> FALSE, pic |-> 0, queued |-> FALSE, keyid |-> 0, attempts |-> 0,
              flags |-> "none", seq |-> 0,
              tile |-> 0, id |-> 0, drops |-> FALSE, fails |-> FALSE]
    /\ mail = [job |-> NoVideoJob, stage |-> "idle", active |-> NoVideoJob, packet |-> NoPacket]
    /\ vtx = <<>> /\ vwire = <<>> /\ vup = <<>>
    /\ dec = [queue |-> <<>>, wait |-> FALSE, epoch |-> 1, owner |-> "tiles", phase |-> "tiles",
              ref |-> 0, last |-> 0, present |-> <<>>, seq |-> 0, tiles |-> 0,
              drops |-> FALSE, fails |-> FALSE, shown |-> 0]
    /\ hand = IdleHand /\ draw = NoDraw

\* A fault of the environment, charged to the scenario.
Fault == left.faults > 0 /\ left' = [left EXCEPT !.faults = @ - 1]

-----------------------------------------------------------------------------
(* Server: publishing snapshots. *)

\* wd_stream_video_snapshot_needed and wd_stream_try_publish_video_snapshot:
\* no snapshot is taken behind an unsent VIDEO_FRAME; a newer one supersedes
\* the one in the mailbox.  New scene content is charged to the scenario; a
\* snapshot the policy waits for is not, and the scene goes on changing for as
\* long as the client cannot decode what video owns.
KeyframeWanted == enc.mode = "ready" \/ (enc.mode = "recovering" /\ ~enc.queued)
ClientStarved == enc.mode = "active" /\ (dec.wait \/ dec.shown # enc.pic)
InFlight == \/ vwire # <<>> \/ vup # <<>> \/ dec.queue # <<>> \/ hand # IdleHand
            \/ dec.present # <<>> \/ draw # NoDraw
            \/ dec.drops \/ dec.fails \/ enc.drops \/ enc.fails \/ enc.flags # "none"

PublishVideo ==
    /\ UsesVideo(enc.mode) /\ vtx = <<>>
    /\ \/ /\ left.frames > 0
          /\ left' = [left EXCEPT !.frames = @ - 1]
       \/ /\ left.frames = 0 /\ mail.job = NoVideoJob /\ mail.stage = "idle"
          /\ KeyframeWanted \/ enc.keyreq \/ (ClientStarved /\ ~InFlight)
          /\ left' = left
    /\ mail' = [mail EXCEPT !.job = [source |-> enc.epoch, worker |-> enc.worker,
                                     key |-> KeyframeWanted, first |-> enc.mode = "ready"]]
    /\ UNCHANGED <<enc, vtx, vwire, vup, dec, hand, draw>>

\* wd_stream_video_job_current_locked
VideoJobCurrent(job) ==
    job.worker = enc.worker /\ job.source = enc.epoch /\ UsesVideo(enc.mode)

\* The worker takes the job; a stale one, or one behind an unsent frame, is
\* dropped before it is encoded.
TakeVideoJob ==
    /\ mail.stage = "idle" /\ mail.job # NoVideoJob
    /\ mail' = IF VideoJobCurrent(mail.job) /\ vtx = <<>>
                 THEN [mail EXCEPT !.job = NoVideoJob, !.stage = "encode", !.active = mail.job]
                 ELSE [mail EXCEPT !.job = NoVideoJob]
    /\ UNCHANGED <<left, enc, vtx, vwire, vup, dec, hand, draw>>

-----------------------------------------------------------------------------
(* Server: the encoder, under video_encoder_lock. *)

\* wd_video_encoder_config_matches: the epoch and the bitrate (rate says that
\* the encoder runs at the planned one).
ConfigMatches(e, epoch) == e.config = epoch /\ e.rate

\* wd_video_encoder_configure: a matching session goes on.  Otherwise the codec
\* is opened again, which starts with a keyframe; only another epoch, or a
\* session that is not configured, restarts the frame ids.
ConfigureEncoder(e, epoch) ==
    IF ConfigMatches(e, epoch) THEN e
    ELSE [e EXCEPT !.config = epoch, !.rate = TRUE, !.keyreq = TRUE,
                   !.next = IF e.config = epoch /\ @ # 0 THEN @ ELSE 1]

\* No backend opens: the encoder is left without a session.
ConfigureFails(e, epoch) == left.opens > 0 /\ ~ConfigMatches(e, epoch)

\* wd_stream_video_bitrate_kib_locked gives the next job another bitrate.
RateChanges ==
    /\ left.rates > 0 /\ VideoOwns(enc.mode) /\ enc.rate
    /\ left' = [left EXCEPT !.rates = @ - 1]
    /\ enc' = [enc EXCEPT !.rate = FALSE]
    /\ UNCHANGED <<mail, vtx, vwire, vup, dec, hand, draw>>

\* Mutant of RequestKeyframe: the request is forgotten.
RequestNothing(e) == e

\* wd_video_encoder_request_keyframe
RequestKeyframe(e) == [e EXCEPT !.keyreq = TRUE]

\* wd_video_encoder_reset
ResetEncoderSession(e) == [e EXCEPT !.config = 0, !.next = 0, !.keyreq = FALSE]

\* wd_video_encoder_adopt_content_epoch: the session of the tile epoch goes on
\* under the video epoch its first keyframe was sent with.
AdoptEpoch(e, old, new) == IF e.config = old THEN [e EXCEPT !.config = new] ELSE e

\* wd_video_encoder_encode_prepared and wd_video_encoder_own_packet: the next
\* picture, predicted from the previous one unless a keyframe was requested.
CodedPacket(e, key) ==
    [epoch |-> e.config, id |-> e.next, key |-> key, eos |-> FALSE, pic |-> e.pic + 1,
     ref |-> IF key THEN 0 ELSE e.pic]
AfterCoding(e) == [e EXCEPT !.next = @ + 1, !.pic = @ + 1, !.keyreq = FALSE]

\* wd_video_entry_plan_make: the keyframe that enters video carries the epoch
\* it is about to open.
EntryEpoch(job, key) == IF job.first /\ job.key /\ key THEN job.source + 1 ELSE job.source

\* wd_video_encoder_encode_frame fails before or after the picture is coded:
\* the worker asks for a keyframe.
EncoderFailed(e) == {RequestKeyframe(e), RequestKeyframe(AfterCoding(e))}

\* The job is encoded; the encoder may fail, having coded the picture or not,
\* or answer the job's keyframe request with a dependent frame.
EncodeVideo ==
    /\ mail.stage = "encode"
    /\ LET job == mail.active
           on == ConfigureEncoder(enc, job.source)
           ready == IF job.key THEN RequestKeyframe(on) ELSE on
           packet(key) == [CodedPacket(ready, key) EXCEPT !.epoch = EntryEpoch(job, key)]
       IN  \/ /\ enc' = AfterCoding(ready)
              /\ mail' = [mail EXCEPT !.stage = "encoded", !.packet = packet(ready.keyreq)]
              /\ left' = left
           \* the keyframe that ends a group of pictures
           \/ /\ ~ready.keyreq /\ left.gop > 0
              /\ left' = [left EXCEPT !.gop = @ - 1]
              /\ enc' = AfterCoding(ready)
              /\ mail' = [mail EXCEPT !.stage = "encoded", !.packet = packet(TRUE)]
           \/ /\ job.key /\ ready.next > 1 /\ Fault
              /\ enc' = AfterCoding(ready)
              /\ mail' = [mail EXCEPT !.stage = "encoded", !.packet = packet(FALSE)]
           \/ /\ Fault
              /\ enc' \in EncoderFailed(ready)
              /\ mail' = [mail EXCEPT !.stage = "idle", !.active = NoVideoJob]
           \/ /\ ConfigureFails(enc, job.source)
              /\ left' = [left EXCEPT !.opens = @ - 1]
              /\ enc' = RequestKeyframe([enc EXCEPT !.config = 0])
              /\ mail' = [mail EXCEPT !.stage = "idle", !.active = NoVideoJob]
    /\ UNCHANGED <<vtx, vwire, vup, dec, hand, draw>>

-----------------------------------------------------------------------------
(* Server: queueing the encoded frame, and leaving video. *)

\* The controller leaves video: the tile epoch that follows is the next one.
LeaveVideo(e) == [e EXCEPT !.mode = "repair", !.epoch = IF VideoOwns(e.mode) THEN @ + 1 ELSE @,
                           !.queued = FALSE, !.keyid = 0]

\* wd_stream_video_reset_locked: a new epoch, the worker's jobs outdated, the
\* encoder session closed.
ResetVideo(e, resize) ==
    LET next == IF resize \/ VideoOwns(e.mode) THEN e.epoch + 1 ELSE e.epoch
    IN  [ResetEncoderSession(e) EXCEPT !.mode = IF e.mode = "tiles" THEN @ ELSE "repair",
                                       !.epoch = next, !.worker = @ + 1,
                                       !.queued = FALSE, !.keyid = 0]

\* wd_video_recovery_track_keyframe
TrackKeyframe(e, packet) ==
    IF e.mode = "recovering" /\ packet.key /\ ~e.queued
      THEN [e EXCEPT !.queued = TRUE, !.keyid = packet.id] ELSE e

\* The first video keyframe is queued: its epoch begins and video owns the
\* display.
CommitEntry(e, job, packet) ==
    IF e.mode = "ready" /\ packet.epoch = job.source + 1 /\ job.source = e.epoch
      THEN [AdoptEpoch(e, job.source, packet.epoch) EXCEPT !.epoch = packet.epoch,
                                                           !.mode = "active"]
      ELSE e

IdleMail == [mail EXCEPT !.stage = "idle", !.active = NoVideoJob, !.packet = NoPacket]

\* An encoded frame that cannot be sent was a reference: the next is a keyframe.
Unsendable == vtx # <<>> \/ (mail.active.key /\ ~mail.packet.key)

FinishVideo ==
    /\ mail.stage = "encoded"
    /\ \/ /\ ~VideoJobCurrent(mail.active)
          /\ mail' = IdleMail /\ UNCHANGED <<left, enc, vtx>>
       \/ /\ VideoJobCurrent(mail.active) /\ Unsendable
          /\ mail' = IdleMail /\ enc' = RequestKeyframe(enc) /\ UNCHANGED <<left, vtx>>
       \/ /\ VideoJobCurrent(mail.active) /\ ~Unsendable
          /\ mail' = IdleMail
          /\ vtx' = Append(vtx, mail.packet)
          /\ enc' = CommitEntry(TrackKeyframe(enc, mail.packet), mail.active, mail.packet)
          /\ left' = left
       \/ /\ VideoJobCurrent(mail.active) /\ ~Unsendable /\ Fault
          /\ mail' = [IdleMail EXCEPT !.job = NoVideoJob]
          /\ enc' = ResetVideo(enc, FALSE) /\ vtx' = vtx
    /\ UNCHANGED <<vwire, vup, dec, hand, draw>>

\* The sender puts its oldest message on the wire.
SendVideo ==
    /\ vtx # <<>> /\ vwire' = Append(vwire, Head(vtx)) /\ vtx' = Tail(vtx)
    /\ UNCHANGED <<left, enc, mail, vup, dec, hand, draw>>

\* A resize: unsent frames are dropped but for the one being written, and an
\* end-of-stream frame is queued when the sender takes it.
ResizeVideo ==
    /\ Fault
    /\ enc' = ResetVideo(enc, TRUE)
    /\ mail' = [mail EXCEPT !.job = NoVideoJob]
    /\ \E kept \in {<<>>, vtx}, told \in BOOLEAN :
          vtx' = IF told THEN Append(kept, [NoPacket EXCEPT !.epoch = enc'.epoch, !.eos = TRUE])
                 ELSE kept
    /\ UNCHANGED <<vwire, vup, dec, hand, draw>>

-----------------------------------------------------------------------------
(* Server: reports and the one second controller. *)

\* WD_MSG_VIDEO_FEEDBACK and WD_MSG_CLIENT_STATS in the network thread: stale
\* feedback is ignored, counters accumulate until the controller reads them.
ReceiveReport ==
    /\ vup # <<>> /\ vup' = Tail(vup)
    /\ LET m == Head(vup)
       IN  enc' = IF m.kind = "stats"
                    THEN [enc EXCEPT !.tile = Max({@, m.tile}), !.id = Max({@, m.id}),
                                     !.drops = @ \/ m.drops, !.fails = @ \/ m.fails]
                  ELSE IF m.epoch = enc.epoch /\ m.seq > enc.seq
                    THEN [enc EXCEPT !.seq = m.seq,
                                     !.flags = IF "fallback" \in {@, m.flags} THEN "fallback"
                                               ELSE "recover"]
                  ELSE enc
    /\ UNCHANGED <<left, mail, vtx, vwire, dec, hand, draw>>

\* In-place recovery asks for a new keyframe.  From VIDEO_READY it also takes
\* the display, so the epoch moves.
BeginRecovery(e) ==
    [e EXCEPT !.mode = "recovering", !.epoch = IF VideoOwns(e.mode) THEN @ ELSE @ + 1,
              !.attempts = 1, !.queued = FALSE, !.keyid = 0]

\* Mutant of RecoveryStep: a recovery that is not answered is waited for.
RecoveryWaits(e, expired) ==
    IF e.queued /\ e.id >= e.keyid
      THEN [e EXCEPT !.mode = "active", !.attempts = 0, !.queued = FALSE, !.keyid = 0] ELSE e

\* wd_video_recovery_decide, with the wait expired or not.
RecoveryStep(e, expired) ==
    IF e.queued /\ e.id >= e.keyid
      THEN [e EXCEPT !.mode = "active", !.attempts = 0, !.queued = FALSE, !.keyid = 0]
    ELSE IF ~expired THEN e
    ELSE IF e.attempts < MaxAttempts
      THEN [e EXCEPT !.attempts = @ + 1, !.queued = FALSE, !.keyid = 0]
    ELSE LeaveVideo(e)

\* wd_stream_policy_update_health_locked: tile recovery ends when the client
\* has presented its epoch.  Reports of hard failures only mask the drops of
\* their interval: they leave video after four in a row (StreamPolicy).
HealthStep(e, expired) ==
    CASE e.mode = "tiles" -> e
      [] e.mode = "repair" -> IF e.tile >= e.epoch THEN [e EXCEPT !.mode = "tiles"] ELSE e
      [] e.mode = "recovering" -> [RecoveryStep(e, expired) EXCEPT !.flags = "none"]
      [] e.mode = "active" /\ e.flags = "fallback" -> [LeaveVideo(e) EXCEPT !.flags = "none"]
      [] e.mode = "active" /\ e.flags = "recover" -> [BeginRecovery(e) EXCEPT !.flags = "none"]
      [] OTHER -> [(IF e.drops /\ ~e.fails THEN BeginRecovery(e) ELSE e) EXCEPT !.flags = "none"]

\* The statistics of the interval are cleared with it.
Reported(e) == e.tile # 0 \/ e.id # 0 \/ e.drops \/ e.fails

ControllerStep ==
    /\ Reported(enc) \/ (UsesVideo(enc.mode) /\ enc.flags # "none")
    /\ enc' = [HealthStep(enc, FALSE) EXCEPT !.tile = 0, !.id = 0, !.drops = FALSE, !.fails = FALSE]
    /\ UNCHANGED <<left, mail, vtx, vwire, vup, dec, hand, draw>>

\* The policy enters video from tiles.
EnterVideo ==
    /\ enc.mode = "tiles" /\ left.entries > 0
    /\ left' = [left EXCEPT !.entries = @ - 1]
    /\ enc' = [enc EXCEPT !.mode = "ready"]
    /\ UNCHANGED <<mail, vtx, vwire, vup, dec, hand, draw>>

-----------------------------------------------------------------------------
(* Client: the TCP reader. *)

Feedback(epoch, seq, flags) ==
    [kind |-> "feedback", epoch |-> epoch, seq |-> seq, flags |-> flags]

\* wd_client_video_decode_queue_plan_compute
QueuePlan(depth, waiting, key, control) ==
    [action |-> IF control \/ key THEN "enqueue"
                ELSE IF waiting THEN "drop"
                ELSE IF depth >= DecodeCapacity THEN "overflow" ELSE "enqueue",
     clear |-> control \/ key \/ (~waiting /\ depth >= DecodeCapacity),
     wait |-> ~key /\ (control \/ waiting \/ depth >= DecodeCapacity),
     reset |-> key /\ ~control /\ waiting]

\* enqueue_video_message, under media_queue_mutex.
Enqueued(d, packet, plan) ==
    LET kept == IF plan.clear THEN <<>> ELSE d.queue
    IN  [d EXCEPT !.wait = plan.wait,
                  !.drops = @ \/ plan.action # "enqueue",
                  !.queue = IF plan.action = "enqueue"
                              THEN Append(kept, [packet |-> packet, reset |-> plan.reset])
                              ELSE kept]

\* wd_client_video_keyframe_validate may refuse a keyframe that is to start the
\* decoder.
KeyframeRefused(packet) == packet.key /\ Fault

ReadVideo ==
    /\ vwire # <<>> /\ vwire' = Tail(vwire)
    /\ LET packet == Head(vwire)
           plan == QueuePlan(Len(dec.queue), dec.wait, packet.key, packet.eos)
       IN  \/ /\ dec' = IF plan.action = "overflow"
                          THEN [Enqueued(dec, packet, plan) EXCEPT !.seq = @ + 1]
                          ELSE Enqueued(dec, packet, plan)
              /\ vup' = IF plan.action = "overflow"
                         THEN Append(vup, Feedback(dec.epoch, dec.seq + 1, "recover")) ELSE vup
              /\ left' = left
           \/ /\ dec.wait /\ KeyframeRefused(packet)
              /\ dec' = [dec EXCEPT !.seq = @ + 1, !.drops = TRUE]
              /\ vup' = Append(vup, Feedback(dec.epoch, dec.seq + 1, "recover"))
    /\ UNCHANGED <<enc, mail, vtx, hand, draw>>

-----------------------------------------------------------------------------
(* Client: the decode worker.  video_decoder_needs_keyframe holds exactly    *)
(* when the phase is not "video".                                            *)

ResetDecoder(d, phase) == [d EXCEPT !.ref = 0, !.phase = phase]

\* pop_media_packet, and the reset an overflow left for its keyframe.
PopVideo ==
    /\ hand.stage = "idle" /\ dec.queue # <<>>
    /\ LET m == Head(dec.queue)
           d == [dec EXCEPT !.queue = Tail(@)]
       IN  /\ hand' = [IdleHand EXCEPT !.stage = "popped", !.packet = m.packet]
           /\ dec' = IF m.reset THEN ResetDecoder(d, "awaiting") ELSE d
    /\ UNCHANGED <<left, enc, mail, vtx, vwire, vup, draw>>

\* client_accept_content_epoch: "stale", "current" or "advanced".
EpochDecision(d, epoch, owner) ==
    IF epoch < d.epoch \/ (epoch = d.epoch /\ owner # d.owner) THEN "stale"
    ELSE IF epoch = d.epoch THEN "current" ELSE "advanced"

\* An advance empties the present queue; a video epoch restarts the frame ids.
AcceptEpoch(d, epoch, owner) ==
    IF EpochDecision(d, epoch, owner) # "advanced" THEN d
    ELSE [d EXCEPT !.epoch = epoch, !.owner = owner, !.present = <<>>,
                   !.last = IF owner = "video" THEN 0 ELSE @]

\* wd_client_video_transition_decide; every end of stream is a resize here.
Transition(phase, advanced, packet) ==
    LET now == IF advanced THEN "awaiting" ELSE phase
    IN  IF packet.eos
          THEN [phase |-> "awaiting", reset |-> phase = "video", accept |-> FALSE]
        ELSE IF now # "video" /\ ~packet.key
          THEN [phase |-> "awaiting", reset |-> advanced /\ phase # "awaiting", accept |-> FALSE]
        ELSE [phase |-> "video", reset |-> advanced /\ phase # "awaiting", accept |-> TRUE]

AcceptVideo ==
    /\ hand.stage = "popped"
    /\ LET packet == hand.packet
           owner == IF packet.eos THEN "tiles" ELSE "video"
           decision == EpochDecision(dec, packet.epoch, owner)
           t == Transition(dec.phase, decision = "advanced" /\ owner = "video", packet)
           d == AcceptEpoch(dec, packet.epoch, owner)
       IN  IF decision = "stale" THEN hand' = IdleHand /\ dec' = dec
           ELSE /\ dec' = [d EXCEPT !.phase = t.phase, !.ref = IF t.reset THEN 0 ELSE @,
                                    !.drops = @ \/ (~t.accept /\ ~packet.eos)]
                /\ hand' = IF ~t.accept THEN IdleHand
                           ELSE [hand EXCEPT !.stage = "accepted",
                                             !.fresh = dec.phase # "video" \/ t.reset]
    /\ UNCHANGED <<left, enc, mail, vtx, vwire, vup, draw>>

\* The frame id against the last one presented: a keyframe restarts the
\* decoder, another frame is stale.
CheckFrameId ==
    /\ hand.stage = "accepted"
    /\ LET old == dec.last # 0 /\ hand.packet.id <= dec.last
       IN  /\ hand' = IF old /\ ~hand.packet.key THEN IdleHand
                      ELSE [hand EXCEPT !.stage = "decode"]
           /\ dec' = IF old /\ hand.packet.key THEN ResetDecoder(dec, "awaiting") ELSE dec
    /\ UNCHANGED <<left, enc, mail, vtx, vwire, vup, draw>>

\* ClientVideoPresentQueue: a full queue gives up its newest frame.
PushDecoded(q, frame) ==
    Append(IF Len(q) >= PresentCapacity THEN Front(q) ELSE q, frame)

\* publish_decoded_video_frame, under remote_content_mutex.
Publishable(d, packet) == packet.epoch = d.epoch /\ d.owner = "video"

\* client_video_decoder_decode: the picture becomes the reference of the next
\* and waits to be presented.
Decoded(d, packet) ==
    [d EXCEPT !.ref = packet.pic, !.phase = "video",
              !.present = PushDecoded(@, [epoch |-> packet.epoch, id |-> packet.id,
                                          pic |-> packet.pic])]

\* client_video_decoder_configure or the decoder fails, a hardware decoder's
\* keyframe having been tried again in software.
DecoderFails == Fault

DecodeVideo ==
    /\ hand.stage = "decode"
    /\ LET packet == hand.packet
           failed(flags) == [hand EXCEPT !.stage = "failed", !.flags = flags]
           broken == [ResetDecoder(dec, "awaiting") EXCEPT !.fails = TRUE]
       IN  \/ /\ Publishable(dec, packet)
              /\ dec' = Decoded(dec, packet)
              /\ hand' = IdleHand /\ left' = left
           \/ /\ ~Publishable(dec, packet)
              /\ dec' = broken /\ hand' = failed("fallback") /\ left' = left
           \/ /\ hand.fresh /\ KeyframeRefused(packet)
              /\ dec' = ResetDecoder(dec, "awaiting") /\ hand' = failed("recover")
           \/ /\ DecoderFails /\ dec' = broken /\ hand' = failed("fallback")
    /\ UNCHANGED <<enc, mail, vtx, vwire, vup, draw>>

\* ~DeferredVideoFeedback: the epoch and the sequence number are taken before
\* the message is queued.
NumberFeedback ==
    /\ hand.stage = "failed"
    /\ hand' = [hand EXCEPT !.stage = "numbered", !.seq = dec.seq + 1, !.epoch = dec.epoch]
    /\ dec' = [dec EXCEPT !.seq = @ + 1]
    /\ UNCHANGED <<left, enc, mail, vtx, vwire, vup, draw>>

SendFeedback ==
    /\ hand.stage = "numbered"
    /\ vup' = Append(vup, Feedback(hand.epoch, hand.seq, hand.flags))
    /\ hand' = IdleHand
    /\ UNCHANGED <<left, enc, mail, vtx, vwire, dec, draw>>

-----------------------------------------------------------------------------
(* Client: tiles, the render thread and the periodic statistics. *)

\* A tile of the server's epoch arrives over UDP and moves the client to it.
ReceiveTiles ==
    /\ ~VideoOwns(enc.mode) /\ EpochDecision(dec, enc.epoch, "tiles") = "advanced"
    /\ dec' = AcceptEpoch(dec, enc.epoch, "tiles")
    /\ UNCHANGED <<left, enc, mail, vtx, vwire, vup, hand, draw>>

\* The frame taken from the present queue is uploaded and found current; the
\* frames before it are skipped when audio is ahead of them.
DrawVideo ==
    /\ draw = NoDraw /\ dec.present # <<>>
    /\ \E n \in 1..Len(dec.present) :
          /\ draw' = dec.present[n]
          /\ dec' = [dec EXCEPT !.present = SubSeq(@, n + 1, Len(@))]
    /\ UNCHANGED <<left, enc, mail, vtx, vwire, vup, hand>>

\* SDL_RenderPresent returns: the frame id is stored whatever epoch is current.
PresentVideo ==
    /\ draw # NoDraw
    /\ dec' = [dec EXCEPT !.last = draw.id, !.shown = draw.pic]
    /\ draw' = NoDraw
    /\ UNCHANGED <<left, enc, mail, vtx, vwire, vup, hand>>

\* Complete tiles of the client's tile epoch are presented.
PresentTiles ==
    /\ draw = NoDraw /\ dec.owner = "tiles" /\ dec.tiles < dec.epoch
    /\ dec' = [dec EXCEPT !.tiles = dec.epoch]
    /\ UNCHANGED <<left, enc, mail, vtx, vwire, vup, hand, draw>>

\* Reports the controller is waiting for; others are charged to the scenario.
ReportAwaited ==
    \/ dec.drops \/ dec.fails
    \/ enc.mode = "repair" /\ enc.tile < enc.epoch /\ dec.tiles >= enc.epoch
    \/ enc.mode = "recovering" /\ enc.queued /\ enc.id < enc.keyid /\ dec.last >= enc.keyid

ReportStats ==
    /\ vup = <<>>
    /\ IF ReportAwaited THEN left' = left ELSE Fault
    /\ vup' = Append(vup, [kind |-> "stats", tile |-> dec.tiles, id |-> dec.last,
                         drops |-> dec.drops, fails |-> dec.fails])
    /\ dec' = [dec EXCEPT !.drops = FALSE, !.fails = FALSE]
    /\ UNCHANGED <<enc, mail, vtx, vwire, hand, draw>>

-----------------------------------------------------------------------------
(* Time passing, rest and the specification. *)

\* Nothing is in flight and no thread has anything to do.
VideoQuiet ==
    /\ mail.stage = "idle" /\ mail.job = NoVideoJob
    /\ vtx = <<>> /\ vwire = <<>> /\ vup = <<>>
    /\ dec.queue = <<>> /\ hand = IdleHand /\ draw = NoDraw /\ dec.present = <<>>
    /\ ~(dec.owner = "tiles" /\ dec.tiles < dec.epoch)
    /\ ~(~VideoOwns(enc.mode) /\ dec.epoch < enc.epoch)
    /\ ~Reported(enc) /\ ~(UsesVideo(enc.mode) /\ enc.flags # "none") /\ ~ReportAwaited
    /\ ~(UsesVideo(enc.mode) /\ (KeyframeWanted \/ enc.keyreq \/ ClientStarved \/ left.frames > 0))

\* The recovery keyframe has not been presented for the timeout.
RecoveryExpires ==
    /\ enc.mode = "recovering"
    /\ IF VideoQuiet THEN left' = left ELSE Fault
    /\ enc' = [HealthStep(enc, TRUE) EXCEPT !.tile = 0, !.id = 0, !.drops = FALSE, !.fails = FALSE]
    /\ UNCHANGED <<mail, vtx, vwire, vup, dec, hand, draw>>

\* Nothing is left to do, not even for the passing of time.
VideoSettled == VideoQuiet /\ HealthStep(enc, TRUE) = enc
VideoRest == VideoSettled /\ UNCHANGED vvars

VideoServerNext == \/ PublishVideo \/ TakeVideoJob \/ EncodeVideo \/ FinishVideo \/ SendVideo
                   \/ RateChanges \/ ResizeVideo \/ ReceiveReport \/ ControllerStep \/ EnterVideo
                   \/ RecoveryExpires
VideoClientNext == \/ ReadVideo \/ PopVideo \/ AcceptVideo \/ CheckFrameId \/ DecodeVideo
                   \/ NumberFeedback \/ SendFeedback \/ ReceiveTiles \/ DrawVideo
                   \/ PresentVideo \/ PresentTiles \/ ReportStats
VideoNext == VideoServerNext \/ VideoClientNext \/ VideoRest

VideoSpec == VideoInit /\ [][VideoNext]_vvars

\* No thread stops while it has something to do.
VideoFairSpec == VideoSpec /\ ([]<>VideoSettled \/ []<><<TRUE>>_vvars)

-----------------------------------------------------------------------------
(* Properties. *)

\* Every dependent frame the decoder is given follows the picture it was
\* predicted from: whatever was dropped on the way (handle_video_frame,
\* wd_stream_video_worker_process, the decode queue's policy), a keyframe came
\* in between.
ReferencesIntact ==
    hand.stage = "decode" /\ ~hand.packet.key => hand.packet.ref = dec.ref

\* The client shows the last picture coded while video owns the display, and
\* the server's tile epoch otherwise.
Shown == IF VideoOwns(enc.mode) THEN dec.shown = enc.pic
         ELSE dec.owner = "tiles" /\ dec.tiles = enc.epoch

\* The display recovers: when the faults are over, the client comes to show the
\* last picture coded while video owns the display, and the server's tile epoch
\* otherwise.  An overflow, a refused keyframe or a failure is always answered
\* by a keyframe that is presented or by the fallback to tiles, although
\* feedback may be ignored as stale (wd_video_recovery_decide, the reports of
\* enqueue_video_message and handle_video_frame).
VideoShown == <>[]Shown
=============================================================================
