---------------------------- MODULE ClientContent ----------------------------
(***************************************************************************)
(* The client's display: what the receive thread, the decode worker and    *)
(* the render thread do with the content the server sends.                 *)
(*                                                                         *)
(* Content arrives labelled with an epoch: tiles over UDP (lost, repeated, *)
(* reordered at will), video and end-of-stream frames over TCP, in order.  *)
(* remote is the newest epoch accepted and its owner; local is the packed  *)
(* stream_ownership that fences uploads in progress.  An action is one     *)
(* critical section, so every interleaving of the threads between two      *)
(* locks is explored; the receive thread holds remote_content_mutex from   *)
(* the push of a tile to the end of its bookkeeping.                       *)
(*                                                                         *)
(* Pixels are abstracted to where they come from: the content epoch and    *)
(* the tile generation.  A rectangle is the set of base tiles it covers.   *)
(***************************************************************************)
EXTENDS Integers, Sequences, FiniteSets

CONSTANTS
    Tiles,               \* base tiles
    FrameCapacity,       \* capacity of the video present queue
    ContentScenarios     \* bounds: what the server does, one scenario per initial state

\* A scenario names the rectangles sent, the events besides tiles ("late": datagrams of an
\* old configuration still arrive), the capacity of the tile present queue (max_items_),
\* and where epochs, generations and frame ids stop.
ASSUME ClientContentAssumption ==
    /\ FrameCapacity \in Nat \ {0}
    /\ \A s \in ContentScenarios :
          /\ DOMAIN s = {"rects", "events", "capacity", "epochs", "gens", "frames"}
          /\ s.rects \subseteq (SUBSET Tiles) \ {{}}
          /\ s.events \subseteq {"video", "resize", "channel", "late"}
          /\ s.capacity \in Nat \ {0}
          /\ s.epochs \in Nat /\ s.gens \in Nat /\ s.frames \in Nat

VARIABLES
    server,     \* the server: epoch, owner, generations, configuration
    udp,        \* every tile packet sent: any of them may arrive, any number of times
    stream,     \* video messages on the wire
    last_frame, \* history: the last data frame sent
    config,     \* client configuration: applied and pending
    remote,     \* remote_content_epoch and remote_content_owner
    local,      \* stream_ownership: local epoch and owner
    gens,       \* received, pending_present and presented generations, telemetry
    uploads,    \* tile_present_queue
    dirty,      \* pending_dirty_tiles and pending_dirty_epoch
    framebuffer,
    frames,     \* video_present_queue
    net,        \* the receive thread and the tile it completes
    decode,     \* the decode worker and the frame it holds
    render,     \* the render thread and its locals
    surface,    \* the SDL textures and which of them is active
    acks,       \* tile_ and video_content_epoch_presented
    newest      \* history: the newest content epoch presented

server_vars  == <<server, udp, stream, last_frame>>
queue_vars   == <<uploads, dirty, framebuffer, frames>>
content_vars == <<remote, local, gens, dirty, frames>>
screen_vars  == <<surface, acks, newest>>
client_content_vars == <<server_vars, config, remote, local, gens, queue_vars, net, decode,
                         render, screen_vars>>

Blank == [epoch |-> 0, gen |-> 0]
NoConfig == [id |-> 0, epoch |-> 0]
NoPacket == [epoch |-> 0, rect |-> {}, gen |-> 0]
NoFrame == [epoch |-> 0, frame_id |-> 0, config |-> 0, own |-> 0]
Zero == [t \in Tiles |-> 0]

\* The larger of two numbers (record_atomic_max and the generation tables).
Later(a, b) == IF a >= b THEN a ELSE b

IdleRender == [pc |-> "top", needs_full |-> FALSE, frame_dirty |-> FALSE, local_dirty |-> FALSE,
               remote_dirty |-> FALSE, video_epoch |-> 0, frame |-> NoFrame, stale |-> FALSE,
               own |-> [epoch |-> 0, owner |-> "TILES"], allow |-> FALSE, drained |-> <<>>,
               drawn |-> {}, taken |-> {}, full |-> FALSE, updates |-> {},
               uploaded |-> [epoch |-> 0, owner |-> "TILES"], content |-> FALSE,
               remote_updated |-> FALSE, video_valid |-> FALSE, batch |-> 0, before |-> "tile"]

\* A connection that has just been made: the first configuration is applied, the
\* tiles own the display and the textures are empty.
ContentInit ==
    /\ \E s \in ContentScenarios :
          server = [epoch |-> 1, owner |-> "TILES", gen |-> Zero, config |-> 1,
                    config_pending |-> FALSE, control |-> <<>>, scenario |-> s,
                    channel |-> IF "video" \in s.events THEN "open" ELSE "closed"]
    /\ udp = {} /\ stream = <<>> /\ last_frame = [epoch |-> 0, frame_id |-> 0]
    /\ config = [applied |-> [id |-> 1, epoch |-> 1], pending |-> NoConfig]
    /\ remote = [epoch |-> 1, owner |-> "TILES"]
    /\ local = [epoch |-> 1, owner |-> "TILES"]
    /\ gens = [received |-> Zero, pending |-> Zero, presented |-> Zero,
               telemetry |-> [t \in Tiles |-> Blank], rx_epoch |-> Zero]
    /\ uploads = <<>>
    /\ dirty = [tiles |-> {}, epoch |-> 1]
    /\ framebuffer = [t \in Tiles |-> Blank]
    /\ frames = <<>>
    /\ net = [pc |-> "idle", tile |-> NoPacket]
    /\ decode = [pc |-> "idle", frame |-> NoFrame]
    /\ render = [IdleRender EXCEPT !.needs_full = TRUE, !.frame_dirty = TRUE]
    /\ surface = [tile |-> [t \in Tiles |-> Blank], video |-> NoFrame, active |-> "tile",
                  fallback |-> FALSE]
    /\ acks = [tile |-> 0, video |-> 0]
    /\ newest = 0

-----------------------------------------------------------------------------
(* Content epochs and the local ownership fence. *)

\* wd_client_stream_ownership_advance
Advance(o, owner) == [epoch |-> o.epoch + 1, owner |-> owner]

\* wd_client_stream_ownership_transition_to
TransitionTo(o, owner) == IF o.owner = owner THEN o ELSE Advance(o, owner)

\* remote_content_mutex is held by the receive thread.
ContentLocked == net.pc \in {"blit", "dirty", "mark", "telemetry"}

\* reset_pending_content_locked and reset_present_telemetry: what is queued for
\* presentation goes, the generations received stay; uploads already queued are
\* left to the fence.
ResetPendingContent(owner) ==
    /\ local' = Advance(local, owner)
    /\ dirty' = [tiles |-> {}, epoch |-> local.epoch + 1]
    /\ frames' = <<>>
    /\ gens' = [gens EXCEPT !.pending = Zero, !.telemetry = [t \in Tiles |-> Blank]]

\* Mutant of Stale: a video frame of an older epoch is accepted as if it were new.
StaleTilesOnly(epoch, owner) ==
    \/ epoch = 0
    \/ epoch < remote.epoch /\ owner = "TILES"
    \/ epoch = remote.epoch /\ owner # remote.owner

\* A message of an older epoch, or of the current one under another owner.
Stale(epoch, owner) ==
    \/ epoch = 0
    \/ epoch < remote.epoch
    \/ epoch = remote.epoch /\ owner # remote.owner

\* client_accept_content_epoch, for an epoch that is not stale: a new epoch resets
\* the content.
AcceptContentEpoch(epoch, owner) ==
    IF epoch = remote.epoch
      THEN UNCHANGED content_vars
      ELSE /\ ResetPendingContent(owner)
           /\ remote' = [epoch |-> epoch, owner |-> owner]

-----------------------------------------------------------------------------
(* The server, as DisplayOwnership promises it. *)

\* wd_stream_next_generation_for_result_locked: one more than the tiles covered have.
NextGeneration(rect) ==
    CHOOSE g \in 1..server.scenario.gens + 1 :
        /\ \A t \in rect : server.gen[t] < g
        /\ g = 1 \/ \E t \in rect : server.gen[t] = g - 1

\* A tile is encoded and sent with a new generation.
SendTile(rect) ==
    LET g == NextGeneration(rect) IN
    /\ server.owner = "TILES" /\ ~server.config_pending
    /\ g <= server.scenario.gens
    /\ server' = [server EXCEPT !.gen = [t \in Tiles |-> IF t \in rect THEN g ELSE @[t]]]
    /\ udp' = udp \cup {[epoch |-> server.epoch, rect |-> rect, gen |-> g]}
    /\ UNCHANGED <<stream, last_frame, config, remote, local, gens, queue_vars, net, decode, render,
                   screen_vars>>

\* The tiles hand over to the video once the client reports their epoch presented.
BeginVideo ==
    /\ "video" \in server.scenario.events /\ server.epoch < server.scenario.epochs
    /\ server.owner = "TILES" /\ ~server.config_pending /\ server.channel = "open"
    /\ acks.tile = server.epoch
    /\ server' = [server EXCEPT !.epoch = @ + 1, !.owner = "VIDEO"]
    /\ UNCHANGED <<udp, stream, last_frame, config, remote, local, gens, queue_vars, net, decode,
                   render, screen_vars>>

SendFrame ==
    LET id == IF last_frame.epoch = server.epoch THEN last_frame.frame_id + 1 ELSE 1 IN
    /\ server.owner = "VIDEO" /\ server.channel = "open"
    /\ id <= server.scenario.frames
    /\ stream' = Append(stream, [epoch |-> server.epoch, frame_id |-> id, config |-> server.config])
    /\ last_frame' = [epoch |-> server.epoch, frame_id |-> id]
    /\ UNCHANGED <<server, udp, config, remote, local, gens, queue_vars, net, decode, render,
                   screen_vars>>

\* An end-of-stream frame of epoch is queued behind what a reset leaves of the
\* stream, or refused.
EndOfStream(epoch, cfg) ==
    \E kept \in {stream, <<>>} :
       stream' \in {kept} \cup
           (IF server.channel = "open"
              THEN {Append(kept, [epoch |-> epoch, frame_id |-> 0, config |-> cfg])} ELSE {})

\* Mutant of EndVideo: the tiles take over the epoch of the video.
EndVideoSameEpoch ==
    /\ server.owner = "VIDEO"
    /\ server' = [server EXCEPT !.owner = "TILES"]
    /\ EndOfStream(server.epoch, server.config)
    /\ UNCHANGED <<udp, last_frame, config, remote, local, gens, queue_vars, net, decode, render,
                   screen_vars>>

\* The video gives the display back: a new epoch, announced on the video channel.
EndVideo ==
    /\ server.owner = "VIDEO" /\ server.epoch < server.scenario.epochs
    /\ server' = [server EXCEPT !.epoch = @ + 1, !.owner = "TILES"]
    /\ EndOfStream(server.epoch + 1, server.config)
    /\ UNCHANGED <<udp, last_frame, config, remote, local, gens, queue_vars, net, decode, render,
                   screen_vars>>

\* A planned resize: a new configuration and a new tile epoch, whose tile states start
\* again from generation zero.  No tile of it is sent before the client acknowledges the
\* configuration.  Datagrams of the old configuration may still be under way ("late").
Resize ==
    /\ "resize" \in server.scenario.events /\ server.epoch < server.scenario.epochs
    /\ ~server.config_pending
    /\ server' = [server EXCEPT !.epoch = @ + 1, !.owner = "TILES", !.config = @ + 1,
                               !.config_pending = TRUE, !.gen = Zero,
                               !.control = Append(@, [id |-> server.config + 1,
                                                      epoch |-> server.epoch + 1])]
    /\ EndOfStream(server.epoch + 1, server.config + 1)
    /\ udp' = IF "late" \in server.scenario.events THEN udp ELSE {}
    /\ UNCHANGED <<last_frame, config, remote, local, gens, queue_vars, net, decode, render,
                   screen_vars>>

\* The server drops the video channel and gives the display back to the tiles.
CloseVideoChannel ==
    /\ "channel" \in server.scenario.events /\ server.channel = "open"
    /\ server' = [server EXCEPT !.channel = "closing"]
    /\ stream' \in {stream, <<>>}
    /\ UNCHANGED <<udp, last_frame, config, remote, local, gens, queue_vars, net, decode, render,
                   screen_vars>>

ServerNext ==
    \/ \E rect \in server.scenario.rects : SendTile(rect)
    \/ BeginVideo \/ SendFrame \/ EndVideo \/ Resize \/ CloseVideoChannel

-----------------------------------------------------------------------------
(* The receive thread. *)

\* A tile is worth completing when it is not older than what any of its base tiles
\* has and newer than what one of them has.
Wanted(p) ==
    /\ \A t \in p.rect : gens.received[t] <= p.gen
    /\ \E t \in p.rect : gens.received[t] < p.gen

\* process_udp_datagram up to the reassembler: the epoch of a fragment is accepted
\* and, when it is the last fragment of a tile still wanted, the tile completes.
\* Datagrams are dropped while a configuration is pending.
ReceiveTile(p) ==
    /\ net.pc = "idle" /\ config.pending = NoConfig
    /\ ~Stale(p.epoch, "TILES")
    /\ AcceptContentEpoch(p.epoch, "TILES")
    /\ net' \in {net} \cup (IF Wanted(p) THEN {[pc |-> "push", tile |-> p]} ELSE {})
    /\ UNCHANGED <<server_vars, config, uploads, framebuffer, decode, render, screen_vars>>

\* The queue without item i.
Without(q, i) == SubSeq(q, 1, i - 1) \o SubSeq(q, i + 1, Len(q))

\* The queued uploads of the same rectangle and ownership epoch: at most one.
SameRect(u) == {i \in 1..Len(uploads) : uploads[i].rect = u.rect /\ uploads[i].own = u.own}

\* ClientTilePresentQueue::push: superseded, replaced at the tail, appended or rejected.
PushUpload(u) ==
    LET same == SameRect(u) IN
    \/ \E i \in same : /\ u.gen < uploads[i].gen
                      /\ uploads' = uploads /\ net' = [net EXCEPT !.pc = "mark"]
    \/ \E i \in same : /\ u.gen >= uploads[i].gen
                      /\ uploads' = Append(Without(uploads, i), u)
                      /\ net' = [net EXCEPT !.pc = "mark"]
    \/ /\ same = {} /\ Len(uploads) < server.scenario.capacity
       /\ uploads' = Append(uploads, u) /\ net' = [net EXCEPT !.pc = "mark"]
    \/ /\ same = {} /\ Len(uploads) >= server.scenario.capacity
       /\ uploads' = uploads /\ net' = [net EXCEPT !.pc = "blit"]

\* Under remote_content_mutex the epoch is checked again, then the tile is queued.
PushTile ==
    /\ net.pc = "push"
    /\ IF net.tile.epoch = remote.epoch /\ remote.owner = "TILES"
         THEN PushUpload([rect |-> net.tile.rect, own |-> local.epoch, gen |-> net.tile.gen,
                          epoch |-> net.tile.epoch])
         ELSE net' = [net EXCEPT !.pc = "idle", !.tile = NoPacket] /\ UNCHANGED uploads
    /\ UNCHANGED <<server_vars, config, content_vars, framebuffer, decode, render, screen_vars>>

\* A rejected tile goes to the framebuffer ...
BlitTile ==
    /\ net.pc = "blit"
    /\ framebuffer' = [t \in Tiles |-> IF t \in net.tile.rect
                                       THEN [epoch |-> net.tile.epoch, gen |-> net.tile.gen]
                                       ELSE framebuffer[t]]
    /\ net' = [net EXCEPT !.pc = "dirty"]
    /\ UNCHANGED <<server_vars, config, content_vars, uploads, decode, render, screen_vars>>

\* ... and its rectangle is marked dirty.
MarkDirty ==
    /\ net.pc = "dirty"
    /\ dirty' = [tiles |-> dirty.tiles \cup net.tile.rect, epoch |-> local.epoch]
    /\ net' = [net EXCEPT !.pc = "mark"]
    /\ UNCHANGED <<server_vars, config, remote, local, gens, uploads, framebuffer, frames, decode,
                   render, screen_vars>>

\* f with the tiles of rect raised to gen.
Raised(f, rect, gen) == [t \in Tiles |-> IF t \in rect THEN Later(f[t], gen) ELSE f[t]]

\* mark_completed_base_generations; rx_epoch is history: the epoch of the newest
\* generation received.
MarkGenerations ==
    /\ net.pc = "mark"
    /\ gens' = [gens EXCEPT !.received = Raised(@, net.tile.rect, net.tile.gen),
                           !.pending = Raised(@, net.tile.rect, net.tile.gen),
                           !.rx_epoch = [t \in Tiles |->
                               IF t \in net.tile.rect /\ net.tile.gen >= gens.received[t]
                                 THEN net.tile.epoch ELSE @[t]]]
    /\ net' = [net EXCEPT !.pc = "telemetry"]
    /\ UNCHANGED <<server_vars, config, remote, local, queue_vars, decode, render, screen_vars>>

MarkTelemetry ==
    /\ net.pc = "telemetry"
    /\ gens' = [gens EXCEPT !.telemetry = [t \in Tiles |->
                   IF t \in net.tile.rect /\ net.tile.gen >= @[t].gen
                     THEN [epoch |-> net.tile.epoch, gen |-> net.tile.gen] ELSE @[t]]]
    /\ net' = [pc |-> "idle", tile |-> NoPacket]
    /\ UNCHANGED <<server_vars, config, remote, local, queue_vars, decode, render, screen_vars>>

\* store_server_config_update: the newest configuration waits for the render thread.
ReceiveConfig ==
    /\ net.pc = "idle" /\ server.control # <<>>
    /\ config' = [config EXCEPT !.pending = Head(server.control)]
    /\ server' = [server EXCEPT !.control = Tail(@)]
    /\ UNCHANGED <<udp, stream, last_frame, content_vars, uploads, framebuffer, net, decode, render,
                   screen_vars>>

\* close_video_receive_channel and discard_pending_video_frame: the peer closed the
\* channel; its queue is dropped and the tiles own the local fence.
CloseVideoReceive ==
    /\ net.pc = "idle" /\ server.channel = "closing"
    /\ server' = [server EXCEPT !.channel = "closed"]
    /\ stream' = <<>>
    /\ local' = TransitionTo(local, "TILES")
    /\ frames' = <<>>
    /\ dirty' = [dirty EXCEPT !.epoch = IF dirty.tiles = {} THEN @
                                       ELSE TransitionTo(local, "TILES").epoch]
    /\ UNCHANGED <<udp, last_frame, config, remote, gens, uploads, framebuffer, net, decode, render,
                   screen_vars>>

NetNext ==
    \/ \E p \in udp : ReceiveTile(p)
    \/ PushTile \/ BlitTile \/ MarkDirty \/ MarkGenerations \/ MarkTelemetry
    \/ ReceiveConfig \/ CloseVideoReceive

-----------------------------------------------------------------------------
(* The decode worker. *)

\* handle_video_frame: a data frame of another geometry is dropped, as is a message whose
\* epoch is stale; an end-of-stream frame gives the display to the tiles, a data frame is
\* decoded or (no keyframe yet, a decoder error) dropped.
TakeVideoMessage ==
    LET m == Head(stream)
        owner == IF m.frame_id = 0 THEN "TILES" ELSE "VIDEO" IN
    /\ decode.pc = "idle" /\ stream # <<>> /\ ~ContentLocked
    /\ stream' = Tail(stream)
    /\ IF Stale(m.epoch, owner) \/ (owner = "VIDEO" /\ m.config # config.applied.id)
         THEN UNCHANGED <<content_vars, decode>>
         ELSE /\ AcceptContentEpoch(m.epoch, owner)
              /\ decode' \in {decode} \cup
                     (IF owner = "VIDEO"
                        THEN {[pc |-> "decoded", frame |-> [epoch |-> m.epoch, config |-> m.config,
                                                          frame_id |-> m.frame_id, own |-> 0]]}
                        ELSE {})
    /\ UNCHANGED <<server, udp, last_frame, config, uploads, framebuffer, net, render, screen_vars>>

\* publish_decoded_video_frame: the frame must fit the configuration ...
CheckFrameSize ==
    /\ decode.pc = "decoded"
    /\ decode' = IF decode.frame.config = config.applied.id
                   THEN [decode EXCEPT !.pc = "publish"]
                   ELSE [pc |-> "idle", frame |-> NoFrame]
    /\ UNCHANGED <<server_vars, config, remote, local, gens, queue_vars, net, render, screen_vars>>

\* A full queue gives up its newest frame.
Queued(f) ==
    Append(IF Len(frames) >= FrameCapacity THEN SubSeq(frames, 1, Len(frames) - 1) ELSE frames, f)

\* Mutant of PublishFrame: the epoch and the owner are not looked at again.
PublishUnchecked ==
    /\ decode.pc = "publish" /\ ~ContentLocked
    /\ frames' = Queued([decode.frame EXCEPT !.own = local.epoch])
    /\ dirty' = [tiles |-> {}, epoch |-> local.epoch]
    /\ gens' = [gens EXCEPT !.pending = Zero]
    /\ decode' = [pc |-> "idle", frame |-> NoFrame]
    /\ UNCHANGED <<server_vars, config, remote, local, uploads, framebuffer, net, render, screen_vars>>

\* ... and, under remote_content_mutex, its epoch must be the current video epoch; it
\* replaces the tile damage that was waiting.
PublishFrame ==
    /\ decode.pc = "publish" /\ ~ContentLocked
    /\ IF /\ decode.frame.epoch = remote.epoch /\ remote.owner = "VIDEO"
          /\ local.owner = "VIDEO"
         THEN /\ frames' = Queued([decode.frame EXCEPT !.own = local.epoch])
              /\ dirty' = [tiles |-> {}, epoch |-> local.epoch]
              /\ gens' = [gens EXCEPT !.pending = Zero]
         ELSE UNCHANGED <<frames, dirty, gens>>
    /\ decode' = [pc |-> "idle", frame |-> NoFrame]
    /\ UNCHANGED <<server_vars, config, remote, local, uploads, framebuffer, net, render, screen_vars>>

DecodeNext == TakeVideoMessage \/ CheckFrameSize \/ PublishFrame

-----------------------------------------------------------------------------
(* The render thread: one pass of the loop of run_sdl_viewer. *)

\* apply_pending_server_config, under udp_processing_mutex and the state locks.
SwapConfig ==
    /\ render.pc = "top" /\ config.pending # NoConfig /\ net.pc = "idle"
    /\ config' = [applied |-> config.pending, pending |-> NoConfig]
    /\ framebuffer' = [t \in Tiles |-> Blank]
    /\ dirty' = [tiles |-> {}, epoch |-> 0]
    /\ uploads' = <<>>
    /\ gens' = [received |-> Zero, pending |-> Zero, presented |-> Zero,
                telemetry |-> [t \in Tiles |-> Blank], rx_epoch |-> Zero]
    /\ render' = [render EXCEPT !.pc = "reset"]
    /\ UNCHANGED <<server_vars, remote, local, frames, net, decode, screen_vars>>

\* Mutant of ResetForConfig: the acknowledgements are kept.
ResetKeepingAcks ==
    /\ render.pc = "reset" /\ ~ContentLocked
    /\ ResetPendingContent("TILES")
    /\ remote' = [epoch |-> config.applied.epoch, owner |-> "TILES"]
    /\ surface' = [tile |-> [t \in Tiles |-> Blank], video |-> NoFrame, active |-> "fallback",
                   fallback |-> TRUE]
    /\ server' = [server EXCEPT !.config_pending = IF config.applied.id = server.config THEN FALSE ELSE @]
    /\ render' = [IdleRender EXCEPT !.needs_full = TRUE, !.frame_dirty = TRUE]
    /\ UNCHANGED <<udp, stream, last_frame, config, uploads, framebuffer, net, decode, acks, newest>>

\* client_reset_content_epoch after the locks are released, then the textures: what
\* is visible becomes the fallback; the configuration is acknowledged.
ResetForConfig ==
    /\ render.pc = "reset" /\ ~ContentLocked
    /\ ResetPendingContent("TILES")
    /\ remote' = [epoch |-> config.applied.epoch, owner |-> "TILES"]
    /\ acks' = [tile |-> 0, video |-> 0]
    /\ surface' = [tile |-> [t \in Tiles |-> Blank], video |-> NoFrame, active |-> "fallback",
                   fallback |-> TRUE]
    /\ server' = [server EXCEPT !.config_pending = IF config.applied.id = server.config THEN FALSE ELSE @]
    /\ render' = [IdleRender EXCEPT !.needs_full = TRUE, !.frame_dirty = TRUE]
    /\ UNCHANGED <<udp, stream, last_frame, config, uploads, framebuffer, net, decode, newest>>

RemotePending == frames # <<>> \/ dirty.tiles # {} \/ uploads # <<>>
LocalDirty == render.frame_dirty \/ (render.needs_full /\ ~surface.fallback)

Render(next) == render' = next
RenderOnly == UNCHANGED <<server_vars, config, remote, local, gens, queue_vars, net, decode, screen_vars>>

\* A pass starts when something local or remote is to be drawn.
BeginPass ==
    /\ render.pc = "top" /\ config.pending = NoConfig
    /\ LocalDirty \/ RemotePending
    /\ Render([IdleRender EXCEPT !.needs_full = render.needs_full, !.frame_dirty = render.frame_dirty,
                  !.local_dirty = LocalDirty, !.remote_dirty = RemotePending,
                  !.before = surface.active,
                  !.pc = IF ~(render.needs_full \/ RemotePending) THEN "check"
                         ELSE IF frames # <<>> THEN "video" ELSE "tiles"])
    /\ RenderOnly

\* upload_pending_video_texture: the remote epoch is read before the queue is locked.
SnapshotVideoEpoch ==
    /\ render.pc = "video" /\ ~ContentLocked
    /\ Render([render EXCEPT !.pc = "pop",
                  !.video_epoch = IF remote.owner = "VIDEO" THEN remote.epoch ELSE 0])
    /\ RenderOnly

\* The head is shown, or held for the audio clock after late frames were dropped, but
\* the last frame queued is never dropped.
PopFrame ==
    /\ render.pc = "pop"
    /\ \/ /\ frames = <<>>
          /\ Render([render EXCEPT !.pc = "tiles"]) /\ UNCHANGED frames
       \/ \E late \in 0..Len(frames) - 1 :
             \/ /\ frames' = SubSeq(frames, late + 1, Len(frames))
                /\ Render([render EXCEPT !.pc = "check", !.remote_dirty = FALSE])
             \/ /\ frames' = SubSeq(frames, late + 2, Len(frames))
                /\ Render([render EXCEPT !.pc = "current", !.frame = frames[late + 1]])
    /\ UNCHANGED <<server_vars, config, remote, local, gens, uploads, dirty, framebuffer, net, decode,
                   screen_vars>>

FrameCurrent == local = [epoch |-> render.frame.own, owner |-> "VIDEO"]

CheckFrame ==
    /\ render.pc = "current"
    /\ Render(IF FrameCurrent THEN [render EXCEPT !.pc = "upload"]
              ELSE [render EXCEPT !.pc = "tiles", !.stale = TRUE])
    /\ RenderOnly

\* The texture is written before the ownership is looked at again.
UploadFrame ==
    LET owned == [render EXCEPT !.uploaded = [epoch |-> render.frame.own, owner |-> "VIDEO"],
                                !.content = TRUE] IN
    /\ render.pc = "upload"
    /\ surface' = [surface EXCEPT !.video = render.frame,
                                  !.active = IF FrameCurrent THEN "video" ELSE @]
    /\ Render(IF FrameCurrent
                THEN [owned EXCEPT !.pc = "check", !.remote_updated = TRUE, !.video_valid = TRUE]
                ELSE [owned EXCEPT !.pc = "tiles", !.stale = TRUE])
    /\ UNCHANGED <<server_vars, config, remote, local, gens, queue_vars, net, decode, acks, newest>>

\* The tile branch of the pass starts with a look at who owns the display.
SnapshotOwnership ==
    /\ render.pc = "tiles"
    /\ Render([render EXCEPT !.pc = "ready", !.own = local])
    /\ RenderOnly

\* A stale video frame leaves the tiles to be restored.
Restore == render.stale /\ render.own.owner = "TILES"

\* Mutant of CheckComplete: tiles are uploaded as they come.
CheckAnyTiles ==
    /\ render.pc = "ready"
    /\ Render([render EXCEPT !.pc = "drain", !.allow = TRUE])
    /\ RenderOnly

\* While a fallback is visible, tiles are uploaded only once every base tile of the
\* new configuration has arrived (client_tile_frame_complete).
CheckComplete ==
    LET ready == surface.fallback /\ render.own.owner = "TILES" =>
                     \A t \in Tiles : gens.received[t] # 0
        allow == ready /\ (render.stale => render.own.owner = "TILES") IN
    /\ render.pc = "ready"
    /\ Render([render EXCEPT !.pc = IF allow THEN "drain" ELSE "plan", !.allow = allow])
    /\ RenderOnly

DrainUploads ==
    /\ render.pc = "drain"
    /\ uploads' = <<>>
    /\ Render([render EXCEPT !.pc = IF uploads = <<>> THEN "take" ELSE "direct", !.drained = uploads])
    /\ UNCHANGED <<server_vars, config, remote, local, gens, dirty, framebuffer, frames, net, decode,
                   screen_vars>>

\* upload_completed_tiles_direct reads the ownership once ...
SnapshotDirect ==
    /\ render.pc = "direct"
    /\ Render([render EXCEPT !.pc = "apply", !.own = local])
    /\ RenderOnly

\* Mutant of ApplyUpload: the texture is written, the framebuffer is not.
ApplyToTexture ==
    LET u == Head(render.drained)
        rest == Tail(render.drained)
        matches == u.own = render.own.epoch /\ render.own.owner = "TILES"
        drawn == IF matches THEN render.drawn \cup u.rect ELSE render.drawn IN
    /\ render.pc = "apply"
    /\ surface' = [surface EXCEPT !.tile = [t \in Tiles |->
                      IF matches /\ t \in u.rect THEN [epoch |-> u.epoch, gen |-> u.gen] ELSE @[t]]]
    /\ Render([render EXCEPT !.drained = rest, !.drawn = drawn,
                  !.pc = IF rest # <<>> THEN "apply" ELSE IF drawn # {} THEN "own" ELSE "take"])
    /\ UNCHANGED <<server_vars, config, remote, local, gens, queue_vars, net, decode, acks, newest>>

\* ... and writes every upload that matches it to the texture and the framebuffer.
ApplyUpload ==
    LET u == Head(render.drained)
        rest == Tail(render.drained)
        matches == u.own = render.own.epoch /\ render.own.owner = "TILES"
        Drawn(f) == [t \in Tiles |-> IF matches /\ t \in u.rect
                                       THEN [epoch |-> u.epoch, gen |-> u.gen] ELSE f[t]]
        drawn == IF matches THEN render.drawn \cup u.rect ELSE render.drawn IN
    /\ render.pc = "apply"
    /\ surface' = [surface EXCEPT !.tile = Drawn(@)]
    /\ framebuffer' = Drawn(framebuffer)
    /\ Render([render EXCEPT !.drained = rest, !.drawn = drawn,
                  !.pc = IF rest # <<>> THEN "apply" ELSE IF drawn # {} THEN "own" ELSE "take"])
    /\ UNCHANGED <<server_vars, config, remote, local, gens, uploads, dirty, frames, net, decode, acks,
                   newest>>

\* The ownership the direct uploads are held to is read after they were made.
SnapshotDrawn ==
    /\ render.pc = "own"
    /\ Render([render EXCEPT !.pc = "claim_drawn", !.uploaded = local])
    /\ RenderOnly

\* claim_pending_tile_generations: the updates of the tiles in ts replace those
\* claimed before.
Claim(ts, next) ==
    /\ gens' = [gens EXCEPT !.pending = [t \in Tiles |-> IF t \in ts THEN 0 ELSE @[t]]]
    /\ Render([next EXCEPT !.updates =
                 {<<t, gens.pending[t]>> : t \in {s \in ts : gens.pending[s] > gens.presented[s]}}])

ClaimDrawn ==
    /\ render.pc = "claim_drawn"
    /\ Claim(render.drawn, [render EXCEPT !.pc = "take"])
    /\ UNCHANGED <<server_vars, config, remote, local, queue_vars, net, decode, screen_vars>>

\* The dirty rectangles are taken unless the whole texture is to be uploaded.
TakeDirty ==
    /\ render.pc = "take"
    /\ IF render.needs_full \/ Restore
         THEN Render([render EXCEPT !.pc = "plan"]) /\ UNCHANGED dirty
         ELSE /\ dirty' = [dirty EXCEPT !.tiles = {}]
              /\ Render([render EXCEPT !.pc = "plan", !.taken = dirty.tiles,
                            !.uploaded = [epoch |-> dirty.epoch, owner |-> local.owner]])
    /\ UNCHANGED <<server_vars, config, remote, local, gens, uploads, framebuffer, frames, net, decode,
                   screen_vars>>

\* The end of the tile branch: drawn says whether the tile texture was written.
TilesDrawn(r, drawn) ==
    [r EXCEPT !.pc = "check", !.content = @ \/ drawn,
              !.remote_updated = drawn /\ (r.remote_dirty \/ Restore)]

\* client_remote_tile_present_decide and plan_dirty_texture_upload: a full upload when
\* one is owed, or when the cost model prefers it for the dirty rectangles.
PlanUpload ==
    LET wakeup == render.drawn = {} /\ ~render.needs_full /\ ~Restore /\ render.taken = {}
        r == [render EXCEPT !.remote_dirty = @ /\ ~wakeup] IN
    /\ render.pc = "plan"
    /\ \E cost_full \in IF render.taken = {} THEN {FALSE} ELSE BOOLEAN :
          LET full == render.allow /\ (render.needs_full \/ Restore \/ cost_full) IN
          IF full \/ render.taken # {}
            THEN /\ Render([r EXCEPT !.pc = "claim", !.full = full,
                              !.uploaded = IF full THEN local ELSE @])
                 /\ UNCHANGED surface
            ELSE /\ Render(TilesDrawn(r, r.drawn # {}))
                 /\ surface' = [surface EXCEPT !.active = IF r.drawn # {} THEN "tile" ELSE @]
    /\ UNCHANGED <<server_vars, config, remote, local, gens, queue_vars, net, decode, acks, newest>>

ClaimUploaded ==
    /\ render.pc = "claim"
    /\ Claim(IF render.full THEN Tiles ELSE render.taken,
             [render EXCEPT !.pc = IF render.full THEN "clear" ELSE "copy"])
    /\ UNCHANGED <<server_vars, config, remote, local, queue_vars, net, decode, screen_vars>>

\* A full upload drops the dirty rectangles before it reads the framebuffer ...
ClearDirty ==
    /\ render.pc = "clear"
    /\ dirty' = [dirty EXCEPT !.tiles = {}]
    /\ Render([render EXCEPT !.pc = "copy"])
    /\ UNCHANGED <<server_vars, config, remote, local, gens, uploads, framebuffer, frames, net, decode,
                   screen_vars>>

\* ... upload_full_texture, or upload_dirty_texture_rects for the rectangles taken.
CopyFramebuffer ==
    /\ render.pc = "copy"
    /\ surface' = [surface EXCEPT !.active = "tile",
                      !.tile = [t \in Tiles |-> IF render.full \/ t \in render.taken
                                                  THEN framebuffer[t] ELSE @[t]]]
    /\ Render(TilesDrawn(render, TRUE))
    /\ UNCHANGED <<server_vars, config, remote, local, gens, queue_vars, net, decode, acks, newest>>

\* The upload is discarded when the ownership it was made under has passed; then the
\* tiles are owed a full upload, if they own the display now.
CheckUpload ==
    LET stale == render.content /\ render.uploaded # local
        tiles == local.owner = "TILES" IN
    /\ render.pc = "check"
    /\ IF stale
         THEN /\ surface' = [surface EXCEPT !.active = IF surface.fallback THEN "fallback"
                                                      ELSE render.before]
              /\ Render([IdleRender EXCEPT
                           !.pc = IF tiles /\ render.updates # {} THEN "requeue" ELSE "top",
                           !.updates = IF tiles THEN render.updates ELSE {},
                           !.needs_full = render.needs_full \/ tiles,
                           !.frame_dirty = render.frame_dirty \/ tiles])
         ELSE /\ UNCHANGED surface
              /\ Render(IF ~(render.local_dirty \/ render.remote_updated)
                          THEN [IdleRender EXCEPT !.needs_full = render.needs_full,
                                                  !.frame_dirty = render.frame_dirty]
                        ELSE [render EXCEPT
                                !.pc = IF render.remote_updated /\ render.updates # {}
                                         THEN "epoch" ELSE "present"])
    /\ UNCHANGED <<server_vars, config, remote, local, gens, queue_vars, net, decode, acks, newest>>

\* requeue_tile_generation_updates
RequeueUpdates ==
    /\ render.pc = "requeue"
    /\ gens' = [gens EXCEPT !.pending = [t \in Tiles |->
                   IF \E u \in render.updates : u[1] = t
                     THEN Later(@[t], (CHOOSE u \in render.updates : u[1] = t)[2]) ELSE @[t]]]
    /\ Render([render EXCEPT !.pc = "top", !.updates = {}])
    /\ UNCHANGED <<server_vars, config, remote, local, queue_vars, net, decode, screen_vars>>

\* The epoch that will be reported is read, then claim_tile_present_telemetry looks for
\* a completion of it among the updates.
SnapshotTelemetryEpoch ==
    /\ render.pc = "epoch" /\ ~ContentLocked
    /\ Render([render EXCEPT !.pc = "telemetry", !.batch = remote.epoch])
    /\ RenderOnly

ClaimTelemetry ==
    /\ render.pc = "telemetry"
    /\ Render([render EXCEPT !.pc = "present",
                  !.batch = IF \E u \in render.updates :
                                  gens.telemetry[u[1]] = [epoch |-> render.batch, gen |-> u[2]]
                              THEN render.batch ELSE 0])
    /\ RenderOnly

\* The largest of a set of epochs.
Latest(S) == CHOOSE x \in S : \A y \in S : x >= y

\* present_sdl_frame, then the handoff: the fallback goes once something else has been
\* uploaded and presented.
Present ==
    LET tiles == {surface.tile[t].epoch : t \in Tiles} IN
    /\ render.pc = "present"
    /\ newest' = CASE surface.active = "tile" -> Latest(tiles \cup {newest})
                   [] surface.active = "video" -> Later(newest, surface.video.epoch)
                   [] OTHER -> newest
    /\ acks' = [tile |-> IF render.remote_updated /\ ~render.video_valid
                           THEN Later(acks.tile, render.batch) ELSE acks.tile,
                video |-> IF render.video_valid THEN Later(acks.video, render.video_epoch)
                          ELSE acks.video]
    /\ surface' = [surface EXCEPT !.fallback = @ /\ ~(render.content /\ surface.active # "fallback")]
    /\ Render([render EXCEPT !.pc = "commit", !.frame_dirty = FALSE,
                             !.needs_full = @ /\ ~render.content])
    /\ UNCHANGED <<server_vars, config, remote, local, gens, queue_vars, net, decode>>

\* commit_tile_generation_updates and commit_tile_present_telemetry
CommitPresent ==
    LET Gen(t) == (CHOOSE u \in render.updates : u[1] = t)[2]
        updated == {u[1] : u \in render.updates} IN
    /\ render.pc = "commit"
    /\ gens' = [gens EXCEPT
          !.presented = [t \in Tiles |-> IF t \in updated THEN Later(@[t], Gen(t)) ELSE @[t]],
          !.telemetry = [t \in Tiles |->
              IF /\ t \in updated /\ render.batch # 0
                 /\ @[t] = [epoch |-> render.batch, gen |-> Gen(t)] THEN Blank ELSE @[t]]]
    /\ Render([IdleRender EXCEPT !.needs_full = render.needs_full, !.frame_dirty = render.frame_dirty])
    /\ UNCHANGED <<server_vars, config, remote, local, queue_vars, net, decode, screen_vars>>

RenderNext ==
    \/ SwapConfig \/ ResetForConfig \/ BeginPass
    \/ SnapshotVideoEpoch \/ PopFrame \/ CheckFrame \/ UploadFrame
    \/ SnapshotOwnership \/ CheckComplete \/ DrainUploads \/ SnapshotDirect \/ ApplyUpload
    \/ SnapshotDrawn \/ ClaimDrawn \/ TakeDirty \/ PlanUpload \/ ClaimUploaded \/ ClearDirty
    \/ CopyFramebuffer \/ CheckUpload \/ RequeueUpdates \/ SnapshotTelemetryEpoch
    \/ ClaimTelemetry \/ Present \/ CommitPresent

ContentNext == ServerNext \/ NetNext \/ DecodeNext \/ RenderNext
ContentSpec == ContentInit /\ [][ContentNext]_client_content_vars

\* The threads of the client keep running: a datagram being processed is finished, queued
\* messages are decoded, a pass of the render loop goes on and a woken render loop starts
\* one.  Nothing is assumed of the server or the network.
ContentFairness ==
    /\ WF_client_content_vars(PushTile \/ BlitTile \/ MarkDirty \/ MarkGenerations \/ MarkTelemetry)
    /\ WF_client_content_vars(ReceiveConfig \/ CloseVideoReceive)
    /\ WF_client_content_vars(DecodeNext)
    /\ WF_client_content_vars(RenderNext)
ContentFairSpec == ContentSpec /\ ContentFairness

-----------------------------------------------------------------------------
(* Properties. *)

\* The server as it is modelled here does no more than DisplayOwnership promises, which the
\* server's own model is shown to keep: what holds of this client holds of it beside that
\* server.
Promise == INSTANCE DisplayOwnership
    WITH epoch <- server.epoch, video_owns <- server.owner = "VIDEO",
         stream <- [i \in 1..Len(stream) |->
                       [epoch |-> stream[i].epoch, frame_id |-> stream[i].frame_id]],
         last_frame <- last_frame
ServerAsPromised == [][Promise!OwnershipNext]_(Promise!ownership_vars)

\* Backpressure, overlapping rectangles and the handovers between tiles and video lose no
\* pixels: the tiles received in the current tile epoch end up on the tile surface, newest
\* generation and all (process_udp_datagram, upload_completed_tiles_direct, the render loop).
TilesShown ==
    remote.owner = "TILES" /\ ~surface.fallback =>
        \A t \in Tiles : gens.rx_epoch[t] = remote.epoch =>
            surface.tile[t] = [epoch |-> remote.epoch, gen |-> gens.received[t]]
EventuallyShown == <>[]TilesShown

\* A video frame is never presented after content of a newer epoch: the fence of
\* client_accept_content_epoch holds across decoding, queueing and uploading.
VideoNeverLate ==
    [][render.pc = "present" /\ render'.pc = "commit" /\ render.video_valid
          => surface.video.epoch >= newest]_client_content_vars

\* What is acknowledged belongs to the configuration applied: a configuration reset clears
\* both acknowledgements and a delayed presentation does not bring an old epoch back.
AcksCurrent ==
    render.pc # "reset" => /\ acks.tile # 0 => acks.tile >= config.applied.epoch
                           /\ acks.video # 0 => acks.video >= config.applied.epoch

\* After a configuration is installed (SwapConfig, apply_pending_server_config) the packets
\* queued before the resize are stale: no tile of an older epoch is received.
StaleAfterInstall ==
    \A t \in Tiles : gens.received[t] # 0 => gens.rx_epoch[t] >= config.applied.epoch

\* The fallback surface is given up for tiles only when every base tile presented is of the
\* new configuration (client_tile_frame_complete, client_render_surface_handoff_decide).
CommitsWhole ==
    [][surface.fallback /\ ~surface'.fallback /\ surface.active = "tile" =>
          \A t \in Tiles : surface.tile[t].epoch >= config.applied.epoch]_client_content_vars

\* Once every tile of the current epoch has arrived and been presented, the epoch is reported
\* (tile_content_epoch_presented).
RecoveryReported ==
    <>[](remote.owner = "TILES" /\ (\A t \in Tiles : gens.rx_epoch[t] = remote.epoch)
           => acks.tile = remote.epoch)

\* No video frame waits for presentation that does not fit the surface: when it meets one
\* upload_pending_video_texture fails and the render thread ends the session.
FramesFit ==
    render.pc # "reset" => \A i \in 1..Len(frames) : frames[i].config = config.applied.id
=============================================================================
