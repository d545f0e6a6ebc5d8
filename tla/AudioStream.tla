----------------------------- MODULE AudioStream -----------------------------
(***************************************************************************)
(* Sound on the server: wd_audio_capture.c, wd_audio_stream.c, the PCM     *)
(* ring and the packetizer.  Four threads meet here.  PipeWire's data      *)
(* thread runs the capture callback (cb), which stamps a chunk of samples  *)
(* and writes it to the ring; PipeWire's loop thread reports the state of  *)
(* the sink (sink); the audio worker (work) turns the ring into packets;   *)
(* the network thread (ctl) starts and stops the stream.  They share       *)
(* atomics and no lock, so every shared load and store that another thread *)
(* can tell apart is a step of its own.                                    *)
(*                                                                         *)
(* A sample is named by the time stamp the callback gives it; rates are    *)
(* one to one and the graph keeps one clock.                               *)
(***************************************************************************)
EXTENDS Integers, Sequences

CONSTANTS
    FrameSamples,    \* samples in a packet (WD_AUDIO_FRAME_SAMPLES_DEFAULT)
    Quantum,         \* samples in a chunk of the graph
    RingFrames,      \* capacity of the PCM ring
    Tolerance,       \* WD_AUDIO_CAPTURE_TIMESTAMP_TOLERANCE_CYCLES
    MaxTx,           \* packets the sender holds before it is behind
    AudioScenarios   \* bounds, chosen together: chunks the graph produces, odd ones
                     \* among them (not the next one on time), failures of sink,
                     \* encoder and sender, starts of the stream

VARIABLES
    cap,     \* struct wd_audio_capture
    cb,      \* the capture callback: where it is, what it has read
    sink,    \* the loop thread between the stores of a state change
    aud,     \* struct wd_audio_stream
    work,    \* the audio worker
    ctl,     \* the network thread inside wd_audio_stream_start and _stop
    graph,   \* PipeWire: position of the graph clock and what is left to happen
    wire     \* the last two packets that reached the socket

audio_vars == <<cap, cb, sink, aud, work, ctl, graph, wire>>

NewCapture == [ready |-> TRUE, failed |-> FALSE, enabled |-> FALSE, generation |-> 0,
               active |-> 0, discontinuity |-> FALSE]

NoClock == [valid |-> FALSE, next |-> 0, clock |-> FALSE, position |-> 0, pts |-> 0]

NewRing == [live |-> TRUE, read |-> 0, write |-> 0,
            slots |-> [s \in 0..(RingFrames - 1) |-> 0]]

\* wd_audio_packetizer_begin
NewPacketizer == [sequence |-> 0, force |-> TRUE, have |-> FALSE, expected |-> 0]

StreamOff == [stop |-> TRUE, delivery |-> FALSE, active |-> 0,
              force |-> FALSE, capturing |-> FALSE, shut |-> FALSE, clock |-> NoClock,
              ring |-> [NewRing EXCEPT !.live = FALSE],
              packetizer |-> NewPacketizer, tx |-> <<>>]

NoTiming == [position |-> 0, observed |-> 0, reliable |-> TRUE, corrupted |-> FALSE,
             discontinuity |-> FALSE]

IdleCallback == [at |-> "idle", generation |-> 0, stopped |-> FALSE, timing |-> NoTiming]

Healthy == cap.ready /\ ~cap.failed

AudioInit ==
    /\ cap = NewCapture
    /\ cb = IdleCallback
    /\ sink = "quiet"
    /\ aud = StreamOff
    /\ work = [at |-> "none", data |-> <<>>]
    /\ ctl = "off"
    /\ graph \in {[position |-> 0, chunks |-> s.chunks, odd |-> s.odd, faults |-> s.faults,
                   starts |-> s.starts] : s \in AudioScenarios}
    /\ wire = <<>>

Fault == graph.faults > 0 /\ graph' = [graph EXCEPT !.faults = @ - 1]
NoFault == UNCHANGED graph

-----------------------------------------------------------------------------
(* The capture callback, first half: wd_audio_capture_process.             *)

\* The kinds of chunk: on time, after lost chunks, with a vague clock (the
\* position cannot be relied on and the time stamp is a little late), marked
\* corrupted.
OnTime == [lost |-> 0, late |-> 0, reliable |-> TRUE, corrupted |-> FALSE]
Chunks ==
    {OnTime, [OnTime EXCEPT !.lost = 3], [OnTime EXCEPT !.late = 1, !.reliable = FALSE],
     [OnTime EXCEPT !.lost = 3, !.reliable = FALSE], [OnTime EXCEPT !.corrupted = TRUE]}

\* A buffer is dequeued and the delivery generation read.
BufferArrives(c) ==
    /\ cb.at = "idle" /\ graph.chunks > 0
    /\ c = OnTime \/ graph.odd > 0
    /\ graph' = [graph EXCEPT !.chunks = @ - 1, !.position = @ + c.lost * Quantum + Quantum,
                              !.odd = IF c = OnTime THEN @ ELSE @ - 1]
    /\ cb' = [at |-> "loaded", generation |-> cap.generation, stopped |-> ~cap.enabled,
              timing |-> [position |-> graph.position + c.lost * Quantum,
                          observed |-> graph.position + c.lost * Quantum + c.late,
                          reliable |-> c.reliable, corrupted |-> c.corrupted,
                          discontinuity |-> FALSE]]
    /\ UNCHANGED <<cap, sink, aud, work, ctl, wire>>

CountCallback ==
    /\ cb.at = "loaded"
    /\ cap' = [cap EXCEPT !.active = @ + 1,
                          !.discontinuity = @ \/ cb.timing.corrupted]
    /\ cb' = [cb EXCEPT !.at = IF cb.timing.corrupted THEN "out" ELSE "counted"]
    /\ UNCHANGED <<sink, aud, work, ctl, graph, wire>>

CheckGeneration ==
    /\ cb.at = "counted"
    /\ cb' = [cb EXCEPT !.at = IF cb.generation = cap.generation THEN "current" ELSE "out"]
    /\ UNCHANGED <<cap, sink, aud, work, ctl, graph, wire>>

\* The second half of the condition.  The chunk is handed over with the
\* pending discontinuity.
CheckEnabled ==
    /\ cb.at = "current"
    /\ IF cap.enabled
       THEN /\ cb' = [cb EXCEPT !.at = "handed", !.timing.discontinuity = cap.discontinuity]
            /\ cap' = [cap EXCEPT !.discontinuity = FALSE]
       ELSE cb' = [cb EXCEPT !.at = "out"] /\ UNCHANGED cap
    /\ UNCHANGED <<sink, aud, work, ctl, graph, wire>>

ReturnBuffer ==
    /\ cb.at = "out"
    /\ cap' = [cap EXCEPT !.active = @ - 1]
    /\ cb' = IdleCallback
    /\ UNCHANGED <<sink, aud, work, ctl, graph, wire>>
-----------------------------------------------------------------------------
(* Second half: wd_audio_stream_capture.                                   *)

EnterStream ==
    /\ cb.at = "handed"
    /\ cb' = [cb EXCEPT !.at = IF aud.delivery THEN "entered" ELSE "out"]
    /\ UNCHANGED <<cap, sink, aud, work, ctl, graph, wire>>

RegisterInStream ==
    /\ cb.at = "entered"
    /\ aud' = [aud EXCEPT !.active = @ + 1]
    /\ cb' = [cb EXCEPT !.at = "registered"]
    /\ UNCHANGED <<cap, sink, work, ctl, graph, wire>>

RecheckDelivery ==
    /\ cb.at = "registered"
    /\ cb' = [cb EXCEPT !.at = IF aud.delivery THEN "inside" ELSE "leaving"]
    /\ UNCHANGED <<cap, sink, aud, work, ctl, graph, wire>>

Apart(a, b) == IF a >= b THEN a - b ELSE b - a

\* The time stamp of a chunk's first sample and the clock afterwards.  With a
\* position it follows the graph clock from its origin; a discontinuity, or a
\* position far from the expected one, moves the origin to the observed time.
\* Without one it continues the last chunk while the observed time is near.
StampChunk(c, t) ==
    LET near(pts) == Apart(pts, c.next) <= Tolerance * Quantum
        follows == c.pts + (t.position - c.position)
        onClock == t.reliable /\ c.clock /\ ~t.discontinuity /\ t.position >= c.position
                   /\ (c.valid => near(follows))
        continues == ~t.reliable /\ c.valid /\ ~t.discontinuity /\ near(t.observed)
        first == CASE onClock -> follows
                   [] continues -> c.next
                   [] OTHER -> t.observed
        anchored == t.reliable /\ ~onClock
    IN  [first |-> first,
         force |-> c.valid /\ ~onClock /\ ~continues,
         clock |-> [valid |-> TRUE, next |-> first + Quantum, clock |-> t.reliable,
                    position |-> IF anchored THEN t.position ELSE c.position,
                    pts |-> IF anchored THEN t.observed ELSE c.pts]]

Room(r) == r.write - r.read <= RingFrames /\ Quantum <= RingFrames - (r.write - r.read)

FillSlots(r, first) ==
    [r EXCEPT !.slots = [s \in DOMAIN @ |->
        IF \E k \in 0..(Quantum - 1) : s = (r.write + k) % RingFrames
        THEN first + (CHOOSE k \in 0..(Quantum - 1) : s = (r.write + k) % RingFrames)
        ELSE @[s]]]

\* The chunk is stamped, the flag raised, the samples copied into free slots;
\* a full ring loses the chunk and raises the flag.
WriteRing ==
    /\ cb.at = "inside"
    /\ LET stamp == StampChunk(aud.clock, cb.timing)
           room == Room(aud.ring)
       IN  /\ aud' = [aud EXCEPT !.clock = stamp.clock,
                                 !.force = @ \/ stamp.force \/ ~room,
                                 !.ring = IF room THEN FillSlots(@, stamp.first) ELSE @]
           /\ cb' = [cb EXCEPT !.at = IF room THEN "filled" ELSE "leaving"]
    /\ UNCHANGED <<cap, sink, work, ctl, graph, wire>>

PublishRing ==
    /\ cb.at = "filled"
    /\ aud' = [aud EXCEPT !.ring.write = @ + Quantum]
    /\ cb' = [cb EXCEPT !.at = "leaving"]
    /\ UNCHANGED <<cap, sink, work, ctl, graph, wire>>

LeaveStream ==
    /\ cb.at = "leaving"
    /\ aud' = [aud EXCEPT !.active = @ - 1]
    /\ cb' = [cb EXCEPT !.at = "out"]
    /\ UNCHANGED <<cap, sink, work, ctl, graph, wire>>

CallbackStep ==
    \/ \E c \in Chunks : BufferArrives(c)
    \/ CountCallback \/ CheckGeneration \/ CheckEnabled \/ ReturnBuffer
    \/ EnterStream \/ RegisterInStream \/ RecheckDelivery
    \/ WriteRing \/ PublishRing \/ LeaveStream
-----------------------------------------------------------------------------
(* The loop thread: wd_audio_capture_state_changed.                        *)

SinkFails ==
    /\ sink = "quiet" /\ ~cap.failed /\ Fault
    /\ cap' = [cap EXCEPT !.ready = FALSE, !.failed = TRUE]
    /\ sink' = "failing"
    /\ UNCHANGED <<cb, aud, work, ctl, wire>>

SinkDisables ==
    /\ sink = "failing"
    /\ cap' = [cap EXCEPT !.enabled = FALSE]
    /\ sink' = "disabled"
    /\ UNCHANGED <<cb, aud, work, ctl, graph, wire>>

SinkAdvances ==
    /\ sink = "disabled"
    /\ cap' = [cap EXCEPT !.generation = @ + 1]
    /\ sink' = "quiet"
    /\ UNCHANGED <<cb, aud, work, ctl, graph, wire>>

SinkReturns ==
    /\ sink = "quiet" /\ cap.failed
    /\ cap' = [cap EXCEPT !.ready = TRUE, !.failed = FALSE]
    /\ UNCHANGED <<cb, sink, aud, work, ctl, graph, wire>>
-----------------------------------------------------------------------------
(* The worker: wd_audio_stream_worker.                                     *)

\* wd_audio_stream_drop_stale_queue: queued packets go, except one the kernel
\* is sending; so does everything in the ring; the next packet is marked.
DropStale(a) ==
    {[a EXCEPT !.tx = kept, !.ring.read = a.ring.write, !.force = TRUE] :
        kept \in {SubSeq(a.tx, 1, n) : n \in 0..Len(a.tx) \cap {0, 1}}}

WorkerExits ==
    /\ work.at = "top" /\ aud.stop
    /\ work' = [at |-> "done", data |-> <<>>]
    /\ UNCHANGED <<cap, cb, sink, aud, ctl, graph, wire>>

\* The capture backend failed: the channel is shut, the network thread will
\* find it closed.
WorkerGivesUp ==
    /\ work.at = "top" /\ ~aud.stop /\ ~Healthy
    /\ aud' = [aud EXCEPT !.stop = TRUE, !.shut = TRUE]
    /\ work' = [at |-> "done", data |-> <<>>]
    /\ UNCHANGED <<cap, cb, sink, ctl, graph, wire>>

WorkerFallsBehind ==
    /\ work.at = "top" /\ ~aud.stop /\ Healthy
    /\ Len(aud.tx) >= MaxTx
    /\ aud' \in DropStale(aud)
    /\ UNCHANGED <<cap, cb, sink, work, ctl, graph, wire>>

\* wd_audio_pcm_ring_read
ReadRing(r) ==
    [k \in 1..FrameSamples |-> r.slots[(r.read + k - 1) % RingFrames]]

WorkerReads ==
    /\ work.at = "top" /\ ~aud.stop /\ Healthy
    /\ Len(aud.tx) < MaxTx
    /\ aud.ring.write - aud.ring.read >= FrameSamples
    /\ work' = [at |-> "frame", data |-> ReadRing(aud.ring)]
    /\ aud' = [aud EXCEPT !.ring.read = @ + FrameSamples]
    /\ UNCHANGED <<cap, cb, sink, ctl, graph, wire>>

Contiguous(data) == \A k \in 2..Len(data) : data[k] = data[k - 1] + 1

\* Mutant: the packet is marked only when its place is not the expected one.
MakeByPlace(p, data) ==
    [sequence |-> p.sequence + 1, pts |-> data[1], data |-> data,
     marked |-> p.have /\ data[1] # p.expected]

\* wd_audio_packetizer_make_packet
MakePacket(p, data) ==
    [sequence |-> p.sequence + 1, pts |-> data[1], data |-> data,
     marked |-> p.force \/ (p.have /\ data[1] # p.expected)]

AfterPacket(p, data) ==
    [sequence |-> p.sequence + 1, force |-> FALSE, have |-> TRUE,
     expected |-> data[1] + FrameSamples]

\* Whether the encoder restarts: the frame has a gap, or the flag was raised.
\* The flag is taken down only when the frame has no gap.
Restarts == ~Contiguous(work.data) \/ aud.force
FlagTaken == [aud EXCEPT !.force = ~Contiguous(work.data) /\ @]

\* wd_audio_packetizer_mark_discontinuity
Marked(p) == IF Restarts THEN [p EXCEPT !.force = TRUE, !.have = FALSE] ELSE p

WorkerSends ==
    /\ work.at = "frame"
    /\ LET p == Marked(aud.packetizer)
       IN  aud' = [FlagTaken EXCEPT !.packetizer = AfterPacket(p, work.data),
                                    !.tx = Append(@, MakePacket(p, work.data))]
    /\ work' = [at |-> "top", data |-> <<>>]
    /\ UNCHANGED <<cap, cb, sink, ctl, graph, wire>>

\* The encoder cannot be reset, or cannot encode: the frame is lost and the
\* flag raised.
EncoderFails ==
    /\ work.at = "frame" /\ Fault
    /\ \/ Restarts /\ aud' = [aud EXCEPT !.force = TRUE]
       \/ aud' = [aud EXCEPT !.force = TRUE, !.packetizer = Marked(@)]
    /\ work' = [at |-> "top", data |-> <<>>]
    /\ UNCHANGED <<cap, cb, sink, ctl, wire>>

\* The sender refuses the packet: its number is used up, the queue dropped.
SendFails ==
    /\ work.at = "frame" /\ Fault
    /\ aud' \in DropStale([FlagTaken EXCEPT
                    !.packetizer = AfterPacket(Marked(@), work.data)])
    /\ work' = [at |-> "top", data |-> <<>>]
    /\ UNCHANGED <<cap, cb, sink, ctl, wire>>

\* The kernel takes the head of the sender's queue (see AsyncTcp).
PacketLeaves ==
    /\ aud.tx # <<>> /\ ~aud.shut
    /\ aud' = [aud EXCEPT !.tx = Tail(@)]
    /\ wire' = IF Len(wire) < 2 THEN Append(wire, Head(aud.tx)) ELSE <<wire[2], Head(aud.tx)>>
    /\ UNCHANGED <<cap, cb, sink, work, ctl, graph>>

WorkerStep ==
    \/ WorkerExits \/ WorkerGivesUp \/ WorkerFallsBehind \/ WorkerReads
    \/ WorkerSends \/ EncoderFails \/ SendFails \/ PacketLeaves
-----------------------------------------------------------------------------
(* The network thread: wd_audio_stream_start, wd_audio_stream_stop.        *)

\* wd_audio_stream_ensure_capture_locked replaces a capture that is not
\* healthy.  Destroying it waits for its callbacks.
RecreateCapture ==
    /\ ctl = "off" /\ graph.starts > 0 /\ ~Healthy /\ sink = "quiet"
    /\ cb.at = "idle"
    /\ cap' = NewCapture
    /\ UNCHANGED <<cb, sink, aud, work, ctl, graph, wire>>

\* Everything up to the worker's creation; a failure on the way undoes it
\* before any other thread can see it.
StartStream ==
    /\ ctl = "off" /\ graph.starts > 0 /\ Healthy
    /\ graph' = [graph EXCEPT !.starts = @ - 1]
    /\ \/ UNCHANGED <<aud, work, ctl, wire>>
       \/ /\ aud' = [StreamOff EXCEPT !.stop = FALSE, !.force = TRUE,
                                       !.ring = NewRing, !.active = aud.active]
          /\ work' = [at |-> "top", data |-> <<>>]
          /\ ctl' = "deliver"
          /\ wire' = <<>>
    /\ UNCHANGED <<cap, cb, sink>>

EnableDelivery ==
    /\ ctl = "deliver"
    /\ aud' = [aud EXCEPT !.delivery = TRUE]
    /\ ctl' = "begin"
    /\ UNCHANGED <<cap, cb, sink, work, graph, wire>>

\* wd_audio_capture_start: a new generation, then delivery; the health is
\* looked at before and after.
BeginCapture ==
    /\ ctl = "begin"
    /\ IF Healthy
       THEN cap' = [cap EXCEPT !.generation = @ + 1] /\ ctl' = "enable"
       ELSE ctl' = "undo" /\ UNCHANGED cap
    /\ UNCHANGED <<cb, sink, aud, work, graph, wire>>

EnableCapture ==
    /\ ctl = "enable"
    /\ cap' = [cap EXCEPT !.enabled = TRUE]
    /\ ctl' = "confirm"
    /\ UNCHANGED <<cb, sink, aud, work, graph, wire>>

ConfirmCapture ==
    /\ ctl = "confirm"
    /\ IF Healthy
       THEN aud' = [aud EXCEPT !.capturing = TRUE] /\ ctl' = "on" /\ UNCHANGED cap
       ELSE cap' = [cap EXCEPT !.enabled = FALSE, !.generation = @ + 1] /\ ctl' = "undo"
            /\ UNCHANGED aud
    /\ UNCHANGED <<cb, sink, work, graph, wire>>

\* The stream is told to stop, or its start has failed.
StopStream ==
    /\ ctl \in {"on", "undo"}
    /\ aud' = [aud EXCEPT !.stop = TRUE, !.delivery = FALSE]
    /\ ctl' = IF aud.capturing THEN "disable" ELSE "drain"
    /\ UNCHANGED <<cap, cb, sink, work, graph, wire>>

\* wd_audio_capture_stop: disable, advance the generation, wait.
DisableCapture ==
    /\ ctl = "disable"
    /\ cap' = [cap EXCEPT !.enabled = FALSE]
    /\ ctl' = "advance"
    /\ UNCHANGED <<cb, sink, aud, work, graph, wire>>

AdvanceGeneration ==
    /\ ctl = "advance"
    /\ cap' = [cap EXCEPT !.generation = @ + 1]
    /\ ctl' = "wait"
    /\ UNCHANGED <<cb, sink, aud, work, graph, wire>>

CaptureStopped ==
    /\ ctl = "wait" /\ cap.active = 0
    /\ aud' = [aud EXCEPT !.capturing = FALSE]
    /\ ctl' = "drain"
    /\ UNCHANGED <<cap, cb, sink, work, graph, wire>>

\* Mutant: the callbacks inside the stream are not waited for.
CallbacksIgnored ==
    /\ ctl = "drain"
    /\ ctl' = "join"
    /\ UNCHANGED <<cap, cb, sink, aud, work, graph, wire>>

\* No callback is left in the stream.
CallbacksDrained ==
    /\ ctl = "drain" /\ aud.active = 0
    /\ ctl' = "join"
    /\ UNCHANGED <<cap, cb, sink, aud, work, graph, wire>>

\* The worker is joined; sender, encoder, ring and buffers are freed.
StreamStopped ==
    /\ ctl = "join" /\ work.at = "done"
    /\ aud' = [StreamOff EXCEPT !.active = aud.active]
    /\ work' = [at |-> "none", data |-> <<>>]
    /\ ctl' = "off"
    /\ wire' = <<>>
    /\ UNCHANGED <<cap, cb, sink, graph>>

ControlStep ==
    \/ RecreateCapture \/ StartStream \/ EnableDelivery \/ BeginCapture \/ EnableCapture
    \/ ConfirmCapture \/ StopStream \/ DisableCapture \/ AdvanceGeneration
    \/ CaptureStopped \/ CallbacksDrained \/ StreamStopped

AudioNext ==
    \/ CallbackStep
    \/ SinkFails \/ SinkDisables \/ SinkAdvances \/ SinkReturns
    \/ WorkerStep
    \/ ControlStep

AudioSpec == AudioInit /\ [][AudioNext]_audio_vars
-----------------------------------------------------------------------------
(* Properties.                                                             *)

\* No thread touches what wd_audio_stream_stop has freed: a callback that is
\* writing, and a worker that runs, have a ring, whichever of them was
\* delayed and however the stop, the failed start and the failing sink
\* overlap.  And a sink that has failed is not left delivering.
AudioContained ==
    /\ cb.at \in {"inside", "filled"} => aud.ring.live
    /\ work.at \in {"top", "frame"} => aud.ring.live
    /\ cap.failed /\ sink = "quiet" /\ ctl \in {"on", "off"} => ~cap.enabled

\* Sound is never joined across a gap without saying so: a packet that
\* reaches the client unmarked holds samples without a hole, and they follow
\* the last sample of the packet before it; so lost chunks, a full ring,
\* dropped queues and failed encodes all show as a marked packet.
AudioUnbroken ==
    /\ \A k \in DOMAIN wire :
          wire[k].pts = wire[k].data[1] /\ (wire[k].marked \/ Contiguous(wire[k].data))
    /\ Len(wire) = 1 => wire[1].marked
    /\ Len(wire) = 2 /\ ~wire[2].marked =>
          /\ wire[2].sequence = wire[1].sequence + 1
          /\ wire[2].data[1] = wire[1].data[FrameSamples] + 1

\* The comment in wd_audio_capture_start: a callback that began while the
\* capture was stopped returns without delivering, even when it resumes after
\* the next start.
StaleCallbackReturns ==
    cb.at \in {"handed", "entered", "registered", "inside", "filled", "leaving"} => ~cb.stopped
=============================================================================
