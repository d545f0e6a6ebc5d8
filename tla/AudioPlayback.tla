---------------------------- MODULE AudioPlayback ----------------------------
(***************************************************************************)
(* Sound on the client: audio_playback.cpp, its clock and its startup      *)
(* gate, and the audio decode queue of client_net.cpp.  The receive thread *)
(* queues packets, the decode worker handles them one at a time, SDL's     *)
(* device thread mixes a period of the output queue and then runs the      *)
(* postmix callback, and the render thread asks whether sound holds the    *)
(* video back and how far it has played.                                   *)
(*                                                                         *)
(* The server is taken at AudioStream!AudioUnbroken: packets are numbered  *)
(* without holes unless marked, and an unmarked one continues the one      *)
(* before it.  No packet ends the stream: wd_audio_packetizer_make_eos has *)
(* no caller.  A decoded sample is named by its place in the source, 0 for *)
(* the decoder's padding; source places begin at 1.                        *)
(***************************************************************************)
EXTENDS Integers, Sequences, FiniteSetsExt

CONSTANTS
    PacketSamples,    \* samples in a packet (config.frame_samples)
    CodecDelay,       \* config.codec_delay_samples
    Period,           \* samples the device mixes at once
    TargetSamples,    \* queued samples at which the output starts
    MaxQueuedSamples, \* client_audio_max_queued_samples
    LateSamples,      \* WD_CLIENT_AUDIO_LATE_PACKET_MS
    HoldMax,          \* WD_CLIENT_AUDIO_VIDEO_STARTUP_HOLD_MAX_MS
    InboxCapacity,    \* CLIENT_AUDIO_DECODE_QUEUE_CAPACITY
    PlayScenarios     \* bounds, chosen together: packets, marked ones among them after
                      \* the first, failures of SDL or the decoder, ticks of the clock

VARIABLES
    play,    \* ClientAudioPlayback, with the SDL stream and the decoder behind it
    inbox,   \* audio_decode_queue
    feed,    \* the server's next packet and what is left to happen
    now      \* wd_now_ns

play_vars == <<play, inbox, feed, now>>

\* No time yet (the ghosts of the properties).
Never == -1

Unconfigured ==
    [configured |-> FALSE, playing |-> FALSE, gate |-> "idle", since |-> 0,
     sequence |-> 0, pts |-> 0, havePts |-> FALSE,
     start |-> 0, haveStart |-> FALSE, submitted |-> 0,
     skip |-> 0, segment |-> 0, haveSegment |-> FALSE,
     mixed |-> 0, limit |-> 0, starved |-> FALSE,
     queue |-> <<>>, taken |-> 0, mixing |-> FALSE, history |-> 0,
     epoch |-> Never]

\* client_audio_playback_configure
Configured == [Unconfigured EXCEPT !.configured = TRUE, !.skip = CodecDelay]

PlayInit ==
    /\ play = Configured
    /\ inbox = <<>>
    /\ feed \in {[sequence |-> 1, pts |-> CodecDelay + 1, open |-> TRUE, packets |-> s.packets,
                  marks |-> s.marks, faults |-> s.faults, ticks |-> s.ticks] : s \in PlayScenarios}
    /\ now = 1
-----------------------------------------------------------------------------
(* Parts of the playback state.                                            *)

\* reset_device_clock_locked: SDL waits for a running callback, and what it
\* counted is then wiped.
ResetClock(p) ==
    [p EXCEPT !.mixing = FALSE, !.mixed = 0, !.limit = 0, !.starved = FALSE]

\* pause_and_clear_output_locked, when SDL does both.
ClearOutput(p) == [p EXCEPT !.queue = <<>>, !.playing = FALSE]

NoAnchor(p) == [p EXCEPT !.start = 0, !.haveStart = FALSE, !.taken = 0]

\* client_audio_startup_gate_reset, _release, _begin_buffering
GateReset(p) == [p EXCEPT !.gate = "idle", !.since = 0]
GateRelease(p) == [p EXCEPT !.gate = "released", !.since = 0]
GateBegin(p) ==
    IF p.gate = "idle" THEN [p EXCEPT !.gate = "waiting", !.since = now] ELSE p

\* clear_for_output_gap_locked
ClearForGap(p) ==
    [NoAnchor(ResetClock(GateRelease(ClearOutput(p)))) EXCEPT !.submitted = 0]

\* clear_for_discontinuity_locked: the decoder and the time line begin again.
ClearForDiscontinuity(p) ==
    [NoAnchor(ResetClock(GateReset(ClearOutput(p)))) EXCEPT
        !.submitted = 0, !.pts = 0, !.havePts = FALSE, !.skip = CodecDelay,
        !.segment = 0, !.haveSegment = FALSE, !.history = 0]

Beyond(a, b) == IF a > b THEN a - b ELSE 0

SubmittedSamples(p) == Beyond(p.submitted, p.start)

\* client_audio_device_consumed
Consumed(p) == p.submitted > p.start /\ Beyond(p.mixed, Period) >= p.submitted - p.start

\* handle_device_starvation_locked: the flag is taken; it counts when all that
\* was submitted has been consumed and nothing is queued.
Starve(p) ==
    IF ~p.playing \/ ~p.haveStart \/ ~p.starved THEN p
    ELSE IF Consumed(p) /\ p.queue = <<>>
         THEN NoAnchor(ResetClock(GateReset(ClearOutput(p))))
         ELSE [p EXCEPT !.starved = FALSE]

\* Mutant of Playhead: the callback's estimate alone.
PlayheadOfCallbacks(p) == p.start + Min({Beyond(p.mixed, Period), SubmittedSamples(p)})

\* client_audio_device_playhead_queued: the callback's estimate, bounded by
\* what this stream no longer has queued.
Playhead(p) ==
    LET mixed == Beyond(SubmittedSamples(p), Min({SubmittedSamples(p), Len(p.queue)}))
    IN  p.start + Min({Beyond(p.mixed, Period), SubmittedSamples(p), Beyond(mixed, Period)})

\* device_playhead_locked
DevicePlayhead(p) == IF p.haveStart THEN Playhead(p) ELSE 0
-----------------------------------------------------------------------------
(* client_audio_playback_handle_packet.                                    *)

Gap(p, k) ==
    \/ k.marked
    \/ p.sequence # 0 /\ k.sequence # p.sequence
    \/ p.havePts /\ k.pts # p.pts

\* The decoder's output lags its input by the codec delay: what it still holds
\* of the packet before (padding after a reset), then the packet's beginning.
Decode(p, k) ==
    [n \in 1..PacketSamples |->
        IF n > CodecDelay THEN k.pts + n - 1 - CodecDelay
        ELSE IF p.history = 0 THEN 0 ELSE p.history + n - 1 - CodecDelay]

\* The packet is decoded: where its segment began, what is still to be skipped,
\* and what the decoder now holds.
Decoded(p, k, skip) ==
    [p EXCEPT !.segment = IF p.haveSegment THEN p.segment ELSE k.pts, !.haveSegment = TRUE,
              !.skip = p.skip - skip, !.history = k.pts + PacketSamples]

\* The wire cursor after a packet whose PCM was used or dropped.
Followed(p, k) ==
    [p EXCEPT !.sequence = k.sequence + 1, !.pts = k.pts + PacketSamples, !.havePts = TRUE]

\* SDL takes the PCM: anchor the output if it has no start, begin the wait, and
\* publish the limit of the device clock.
PcmQueued(p, pcm, end) ==
    LET a == IF p.haveStart THEN p
             ELSE [p EXCEPT !.start = end - Len(pcm), !.haveStart = TRUE]
        q == [a EXCEPT !.queue = @ \o pcm, !.submitted = end,
                       !.limit = Beyond(end, a.start),
                       !.epoch = IF @ = Never /\ ~p.playing THEN now ELSE @]
    IN  IF p.playing THEN q ELSE GateBegin(q)

\* start_output_locked, when the target is reached: SDL may refuse the callback
\* or the resume, and the next packet tries again.
Started(p, fault) ==
    IF p.playing \/ Len(p.queue) < TargetSamples THEN p
    ELSE IF fault = "start" THEN ResetClock(p)
    ELSE [GateRelease(p) EXCEPT !.playing = TRUE, !.mixed = 0, !.epoch = Never]

\* client_audio_output_rebase_needed
RebaseNeeded(p, n) == Len(p.queue) + n > MaxQueuedSamples

\* The rest of the handler, from the decoded packet on.
Output(p, k, pcm, fault) ==
    LET end  == k.pts + PacketSamples - CodecDelay
        late == p.playing /\ end + LateSamples < DevicePlayhead(p)
        room == IF RebaseNeeded(p, Len(pcm)) THEN ClearForGap(p) ELSE p
    IN  CASE late -> [play |-> Followed(ClearForGap(p), k), ok |-> TRUE]
          [] ~late /\ pcm = <<>> ->
                [play |-> Followed([p EXCEPT !.submitted = end], k), ok |-> TRUE]
          [] ~late /\ pcm # <<>> /\ fault = "put" ->
                [play |-> ClearForDiscontinuity(room), ok |-> FALSE]
          [] OTHER ->
                [play |-> Started(Followed(PcmQueued(room, pcm, end), k), fault), ok |-> TRUE]

\* fault = "clear": SDL refuses to pause or clear where the handler asks for it,
\* after a decoding error at the latest, and the stream is destroyed.
Handled(p, k, fault) ==
    LET gap  == Gap(p, k)
        p1   == IF gap THEN ClearForDiscontinuity(p) ELSE p
        skip == Min({PacketSamples, p1.skip})
        p2   == Starve(Decoded(p1, k, skip))
        pcm  == SubSeq(Decode(p1, k), skip + 1, PacketSamples)
        end  == k.pts + PacketSamples - CodecDelay
        seg  == Decoded(p1, k, skip).segment
    IN  CASE ~p.configured -> [play |-> p, ok |-> FALSE]
          [] p.configured /\ fault = "clear" -> [play |-> Unconfigured, ok |-> FALSE]
          [] p.configured /\ (fault = "decode" \/ end - seg < Len(pcm)) ->
                [play |-> ClearForDiscontinuity(p1), ok |-> FALSE]
          [] OTHER -> Output(p2, k, pcm, fault)

Faults == {"none"} \cup (IF feed.faults = 0 THEN {} ELSE {"clear", "decode", "put", "start"})
-----------------------------------------------------------------------------
(* Steps.                                                                  *)

\* The server sends its next packet, marked or not, in the source's order or,
\* when marked, after a hole; the receive thread queues it or, when the queue
\* is full, drops it.
PacketArrives(marked, hole) ==
    /\ feed.open /\ feed.packets > 0
    /\ marked /\ feed.sequence > 1 => feed.marks > 0
    /\ feed.sequence = 1 => marked
    /\ hole > 0 => marked
    /\ LET k == [sequence |-> feed.sequence + hole, pts |-> feed.pts + hole, marked |-> marked]
       IN  /\ feed' = [feed EXCEPT !.sequence = k.sequence + 1, !.pts = k.pts + PacketSamples,
                                   !.packets = @ - 1,
                                   !.marks = IF marked /\ feed.sequence > 1 THEN @ - 1 ELSE @]
           /\ inbox' = IF Len(inbox) >= InboxCapacity THEN inbox ELSE Append(inbox, k)
    /\ UNCHANGED <<play, now>>

\* client_audio_decode_worker_main: a failed packet shuts the socket down, and
\* nothing more arrives.
HandlePacket(fault) ==
    /\ inbox # <<>>
    /\ fault \in Faults
    /\ LET h == Handled(play, Head(inbox), fault)
       IN  /\ play' = h.play
           /\ feed' = [feed EXCEPT !.open = @ /\ h.ok,
                                   !.faults = IF fault = "none" THEN @ ELSE @ - 1]
    /\ inbox' = Tail(inbox)
    /\ UNCHANGED now

\* close_audio_receive_channel
ChannelCloses ==
    /\ play.configured \/ inbox # <<>>
    /\ ~feed.open \/ feed.faults > 0
    /\ play' = Unconfigured
    /\ inbox' = <<>>
    /\ feed' = [feed EXCEPT !.open = FALSE, !.faults = 0]
    /\ UNCHANGED now

\* The device mixes a period: what the stream has of it, or silence.
DeviceMixes(n) ==
    /\ play.playing /\ ~play.mixing
    /\ play.mixed < play.limit + 2 * Period
    /\ n \in {0, Min({Period, Len(play.queue)})}
    /\ play' = [play EXCEPT !.queue = SubSeq(@, n + 1, Len(@)), !.taken = @ + n, !.mixing = TRUE]
    /\ UNCHANGED <<inbox, feed, now>>

\* audio_postmix_callback
Postmix ==
    /\ play.mixing
    /\ LET mixed == play.mixed + Period
       IN  play' = [play EXCEPT !.mixing = FALSE, !.mixed = mixed,
                                !.starved = @ \/ (play.limit # 0 /\ mixed >= play.limit + Period)]
    /\ UNCHANGED <<inbox, feed, now>>

\* wd_client_audio_startup_gate_decide
Waits(p) == p.configured /\ ~p.playing /\ p.gate = "waiting"
Holds(p) == Waits(p) /\ now - p.since < HoldMax
TimesOut(p) == Waits(p) /\ now - p.since >= HoldMax

\* client_audio_playback_video_gate.  The render thread's other questions, for
\* the playhead and for the state, look for starvation in the same way.
AskGate ==
    /\ LET p == Starve(play)
       IN  play' = IF TimesOut(p) THEN GateRelease(p) ELSE p
    /\ UNCHANGED <<inbox, feed, now>>

\* A question finds the output starved and SDL refuses to clear it.
AskFails ==
    /\ feed.faults > 0 /\ play.playing /\ ~Starve(play).playing
    /\ play' = Unconfigured
    /\ feed' = [feed EXCEPT !.faults = @ - 1]
    /\ UNCHANGED <<inbox, now>>

TimePasses ==
    /\ feed.ticks > 0
    /\ now' = now + 1
    /\ feed' = [feed EXCEPT !.ticks = @ - 1]
    /\ UNCHANGED <<play, inbox>>

PlayNext ==
    \/ \E marked \in BOOLEAN, hole \in 0..1 : PacketArrives(marked, hole)
    \/ \E fault \in {"none", "clear", "decode", "put", "start"} : HandlePacket(fault)
    \/ ChannelCloses
    \/ \E n \in 0..Period : DeviceMixes(n)
    \/ Postmix
    \/ AskGate
    \/ AskFails
    \/ TimePasses

PlaySpec == PlayInit /\ [][PlayNext]_play_vars
-----------------------------------------------------------------------------
(* Properties.                                                             *)

\* client_audio_device_playhead_queued, client_audio_decoded_range: the clock
\* video follows never runs past the sound the device has really taken, less
\* the period still in its buffer, whatever silence, gaps, rebases, underflows
\* and failures came between; and every sample still queued is the one the
\* time line says it is, so that the clock names what is heard.
ClockHonest ==
    play.haveStart =>
        /\ play.playing => Playhead(play) <= play.start + Beyond(play.taken, Period)
        /\ play.start + play.taken + Len(play.queue) = play.submitted
        /\ \A i \in DOMAIN play.queue : play.queue[i] = play.start + play.taken + i - 1

\* architecture.md: "A buffering audio epoch may delay initial video for one
\* bounded startup window; if no audio clock is established, the client
\* relinquishes the gate."  The epoch, counted from its first queued PCM.
OneStartupWindow == Holds(Starve(play)) => now - play.epoch < HoldMax
=============================================================================
