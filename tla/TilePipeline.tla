--------------------------- MODULE TilePipeline ---------------------------
(***************************************************************************)
(* The server's tile pipeline while tiles own the display: damage becomes  *)
(* dirty base tiles and dirty regions, a send pass of the frame worker     *)
(* takes regions, encodes them in the worker pool with net.lock released,  *)
(* and sends the results as UDP packets whose completions arrive later;    *)
(* repair requests are queued and answered by the same pass.               *)
(*                                                                         *)
(* A wire tile is the set of base tiles it covers: a base tile, or a whole *)
(* region (the largest wire tile).  Pixels are frame numbers.  A payload   *)
(* is what it encodes and its form: how many packets, compressed or not.   *)
(*                                                                         *)
(* Loss, saturation, an exhausted byte budget, failing completions and     *)
(* timers that run out too early are charged to one budget of faults.      *)
(***************************************************************************)
EXTENDS Integers, Sequences, FiniteSets

CONSTANTS
    Tiles,           \* protocol tile ids
    Regions,         \* the top regions: a partition of the tiles
    TileScenarios    \* bounds, one scenario per initial state

\* A scenario bounds the frames rendered, the faults (and their kinds) and the resizes; it
\* fixes the sizes of the client's repair and reassembly queues, the forms a region's
\* payload may take, and whether the periodic full summary runs.
ASSUME TilePipelineAssumption ==
    /\ UNION Regions = Tiles
    /\ \A r, s \in Regions : r # s => r \cap s = {}
    /\ \A c \in TileScenarios :
          /\ DOMAIN c = {"frames", "faults", "resizes", "entries", "pressure", "forms", "kinds", "full"}
          /\ {c.frames, c.faults, c.resizes} \subseteq Nat
          /\ {c.entries, c.pressure} \subseteq Nat \ {0}
          /\ \A f \in c.forms : f.n \in Nat \ {0} /\ f.zip \in BOOLEAN

VARIABLES
    scenario,
    faults,      \* faults spent
    srv,         \* the tile state of struct wd_net_state
    pass,        \* the send pass of the frame worker
    udp,         \* deliveries in the asynchronous UDP sender
    wire,        \* packets on the network
    down,        \* control messages to the client: summaries and configurations
    up           \* control messages from the client: repair requests, CONFIG_APPLIED

Zero == [t \in Tiles |-> 0]
RegionOf(t) == CHOOSE r \in Regions : t \in r
Max0(S) == CHOOSE x \in S \cup {0} : \A y \in S : y <= x

NoPass == [pc |-> "idle", jobs |-> {}, batch |-> {}, stop |-> FALSE]

----------------------------------------------------------------------------
(* Dirty tiles, regions and the retransmit queue. *)

StillDirty(s, r) == r \cap s.dirty # {}

\* Mutant of MaybeClearRegion: one tile sent clears the region.
AlwaysClearRegion(s, r) == [s EXCEPT !.regions = @ \ {r}]

\* Forget a region whose last dirty tile has been sent.
MaybeClearRegion(s, r) == IF StillDirty(s, r) THEN s ELSE [s EXCEPT !.regions = @ \ {r}]

\* wd_dirty_queue_push_locked: fresh content supersedes a queued repair of the tile.
PushDirty(s, t) ==
    IF t \in s.dirty THEN s
    ELSE [s EXCEPT !.dirty = @ \cup {t}, !.retx = @ \ {t},
                   !.wanted[t] = IF t \in s.retx THEN 0 ELSE @]

MarkRegion(s, t) == [s EXCEPT !.regions = @ \cup {RegionOf(t)}]

DetectDirty(s, t) == MarkRegion(PushDirty([s EXCEPT !.dirty_epoch[t] = @ + 1], t), t)

\* The tiles of S change: set-wise, the order among different tiles is immaterial.
DetectAll(s, S) ==
    LET f[R \in SUBSET S] ==
            IF R = {} THEN s
            ELSE LET t == CHOOSE x \in R : TRUE IN DetectDirty(f[R \ {t}], t)
    IN f[S]

RequeueRegion(s, r) == IF StillDirty(s, r) THEN [s EXCEPT !.regions = @ \cup {r}] ELSE s

QueueRetransmit(s, t, g) ==
    IF t \in s.dirty THEN s
    ELSE IF t \in s.retx THEN [s EXCEPT !.wanted[t] = Max0({@, g})]
    ELSE IF Len(s.retx_queue) >= Cardinality(Tiles) THEN s
    ELSE [s EXCEPT !.retx_queue = Append(@, t), !.retx = @ \cup {t}, !.wanted[t] = g]

\* A request for an older generation asks for whatever is current.
AcceptRepair(s, t, g) == QueueRetransmit(s, t, IF s.gen[t] > g THEN 0 ELSE g)

\* A request names each tile at most once.
AcceptRepairs(s, asked) ==
    LET f[R \in SUBSET DOMAIN asked] ==
            IF R = {} THEN s
            ELSE LET t == CHOOSE x \in R : \A y \in R : x >= y
                 IN AcceptRepair(f[R \ {t}], t, asked[t])
    IN f[DOMAIN asked]

CompactRetransmits(s) ==
    [s EXCEPT !.retx_queue = SelectSeq(@, LAMBDA t : t \in s.retx)]

\* A tile turned dirty drops its repair before a retransmit batch is formed.
DropSuperseded(s) ==
    CompactRetransmits([s EXCEPT !.retx = @ \ s.dirty,
                                 !.wanted = [t \in Tiles |-> IF t \in s.retx \cap s.dirty
                                                             THEN 0 ELSE @[t]]])

RetransmitSelected(s, t) ==
    t \in s.retx /\ t \notin s.dirty /\ (s.wanted[t] = 0 \/ s.gen[t] >= s.wanted[t])

\* Tiles whose repair was requested and is not being held for a later generation.
RetransmitRegions(s) == {RegionOf(t) : t \in {u \in Tiles : RetransmitSelected(s, u)}}

----------------------------------------------------------------------------
(* Encoding.  A job is the snapshot of a region taken under net.lock. *)

Job(s, r, fresh) ==
    [region |-> r, epochs |-> s.dirty_epoch, resize |-> s.epoch,
     selected |-> {t \in r : IF fresh THEN t \in s.dirty ELSE RetransmitSelected(s, t)}]

OnePacket == [n |-> 1, zip |-> FALSE]

\* The worker encodes the region as one wire tile, or splits it down to the base tiles
\* that were selected.
Encodings(job, forms) ==
    {<<[w |-> job.region, form |-> f]>> : f \in forms}
        \cup {CHOOSE q \in [1..Cardinality(job.selected) -> [w : SUBSET job.region, form : {OnePacket}]] :
                 {q[i].w : i \in DOMAIN q} = {{t} : t \in job.selected}}

StaleResult(s, job, w) ==
    job.resize # s.epoch \/ \E t \in w : s.dirty_epoch[t] # job.epochs[t]

NextGeneration(s, w) == 1 + Max0({s.gen[t] : t \in w})

----------------------------------------------------------------------------
(* UDP delivery of one wire tile. *)

Packets(s, enc, g, k) ==
    {[w |-> enc.w, epoch |-> s.epoch, gen |-> g, frag |-> i, form |-> enc.form,
      content |-> [t \in enc.w |-> s.fb[t]]] : i \in 1..k}

\* All packets of a delivery are done: if one failed and nothing newer was sent, the tile
\* is dirty again.
FinishDelivery(s, d) ==
    IF d.failed /\ d.epoch = s.epoch
    THEN DetectAll(s, {t \in d.w : s.gen[t] <= d.gen})
    ELSE s

\* k of the packets are accepted before the sender saturates or fails.  The delivery is
\* sealed at once; with nothing outstanding it finishes here.
Deliver(s, u, enc, g, k) ==
    LET d == [w |-> enc.w, epoch |-> s.epoch, gen |-> g, todo |-> Packets(s, enc, g, k),
              failed |-> k < enc.form.n]
    IN IF k = 0 THEN [s |-> FinishDelivery(s, d), u |-> u]
       ELSE [s |-> s, u |-> Append(u, d)]

\* The whole tile was handed to the sender: metadata, dirty state and summary.  The result
\* was not stale, so the dirty epochs of the covered tiles are those of the job.
Published(s, w, g, fresh) ==
    [s EXCEPT !.gen = [t \in Tiles |-> IF t \in w THEN g ELSE @[t]],
              !.dirty = @ \ w,
              !.retx = IF fresh THEN @ ELSE @ \ w,
              !.wanted = IF fresh THEN @ ELSE [t \in Tiles |-> IF t \in w THEN 0 ELSE @[t]],
              !.summary = @ \cup w]

\* One result of a job, with the outcome of its send: "sent", "budget" (refused before
\* sending), "blocked" (saturated after k packets) or "failed" (the sender failed).
SendResult(st, job, enc, fresh, outcome, k) ==
    LET g == NextGeneration(st.s, enc.w)
        back(s) == IF fresh THEN RequeueRegion(s, job.region) ELSE s
        d == Deliver(st.s, st.u, enc, g, IF outcome = "sent" THEN enc.form.n ELSE k)
    IN CASE st.stop -> st
         [] ~st.stop /\ StaleResult(st.s, job, enc.w) -> [st EXCEPT !.s = back(@)]
         [] ~st.stop /\ ~StaleResult(st.s, job, enc.w) /\ outcome = "budget" ->
               [st EXCEPT !.s = back(@), !.stop = TRUE]
         [] ~st.stop /\ ~StaleResult(st.s, job, enc.w) /\ outcome \in {"blocked", "failed"} ->
               [s |-> back(d.s), u |-> d.u, stop |-> outcome = "blocked"]
         [] OTHER -> [s |-> MaybeClearRegion(Published(d.s, enc.w, g, fresh), job.region),
                      u |-> d.u, stop |-> FALSE]

\* The results of a job in order; the one at index bad meets the outcome named.
SendResults(s, u, job, encs, fresh, bad, outcome, k) ==
    LET f[i \in 0..Len(encs)] ==
            IF i = 0 THEN [s |-> s, u |-> u, stop |-> pass.stop]
            ELSE SendResult(f[i-1], job, encs[i], fresh, IF i = bad THEN outcome ELSE "sent", k)
    IN f[Len(encs)]

----------------------------------------------------------------------------
(* The send pass.  One step is what the frame worker does between taking  *)
(* net.lock and releasing it around the encoder pool.                      *)

Spend == faults < scenario.faults /\ faults' = faults + 1

\* wd_stream_send_retransmits_locked: form a batch of the requested tiles.  With nothing
\* to send, or no repair tokens, the pass goes on with what follows.
RepairBatch(s, stage, after) ==
    LET t == DropSuperseded(s)
        regions == RetransmitRegions(t)
        nothing == IF after = "idle" THEN NoPass ELSE [NoPass EXCEPT !.pc = after]
    IN \/ /\ regions # {}
          /\ srv' = t
          /\ pass' = [pc |-> stage, jobs |-> {Job(t, r, FALSE) : r \in regions},
                      batch |-> regions, stop |-> FALSE]
          /\ UNCHANGED faults
       \/ /\ regions = {}
          /\ srv' = IF s.retx_queue = <<>> THEN s ELSE t
          /\ pass' = nothing
          /\ UNCHANGED faults
       \/ /\ regions # {} /\ "budget" \in scenario.kinds /\ Spend
          /\ srv' = s
          /\ pass' = nothing

\* Take queued regions and start a batch; regions without dirty tiles are forgotten.  When
\* the byte budget does not cover one base tile, fresh work waits for a later pass.
FreshBatch(s) ==
    LET dirty == {r \in s.regions : StillDirty(s, r)}
    IN \/ /\ dirty # {}
          /\ \E batch \in (SUBSET dirty) \ {{}} :
                /\ srv' = [s EXCEPT !.regions = dirty \ batch]
                /\ pass' = [pc |-> "encoding", jobs |-> {Job(s, r, TRUE) : r \in batch},
                            batch |-> batch, stop |-> FALSE]
          /\ UNCHANGED faults
       \/ dirty = {} /\ RepairBatch([s EXCEPT !.regions = {}], "repairing", "idle")
       \/ /\ dirty # {} /\ "budget" \in scenario.kinds /\ Spend
          /\ srv' = s
          /\ pass' = [NoPass EXCEPT !.pc = "fresh_blocked"]

\* The start of a pass; a client that reports loss has its repairs sent first.
BeginPass(s) ==
    \/ FreshBatch(s)
    \/ faults > 0 /\ s.retx_queue # <<>> /\ RepairBatch(s, "repairing_first", "fresh")

\* A frame is rendered and submitted: only while the worker is idle.  The changed tiles
\* become dirty at the start of its pass; a requested refresh makes every tile dirty.
ProcessFrame(S) ==
    /\ pass.pc = "idle" /\ ~srv.config_pending
    /\ IF srv.refresh
       THEN S = Tiles /\ BeginPass(DetectAll([srv EXCEPT !.refresh = FALSE], Tiles))
       ELSE /\ srv.frame < scenario.frames
            /\ BeginPass(DetectAll([srv EXCEPT
                   !.frame = @ + 1,
                   !.fb = [t \in Tiles |-> IF t \in S THEN srv.frame + 1 ELSE @[t]]], S))
    /\ UNCHANGED <<scenario, udp, wire, down, up>>

\* Queued work a pass would do something about.
QueuedWork(s) ==
    \/ s.regions # {}
    \/ s.retx_queue # DropSuperseded(s).retx_queue
    \/ RetransmitRegions(DropSuperseded(s)) # {}

\* A pass for queued work only.
ProcessQueuedWork ==
    /\ pass.pc = "idle" /\ ~srv.config_pending /\ QueuedWork(srv)
    /\ BeginPass(srv)
    /\ UNCHANGED <<scenario, udp, wire, down, up>>

\* A job of the batch completes and its results are sent.
Complete(job, encs, bad, outcome, k) ==
    LET st == SendResults(srv, udp, job, encs, pass.pc = "encoding", bad, outcome, k)
    IN /\ srv' = st.s /\ udp' = st.u
       /\ pass' = [pass EXCEPT !.jobs = @ \ {job}, !.stop = st.stop]

CompleteJob ==
    /\ \E job \in pass.jobs : \E encs \in Encodings(job, scenario.forms) :
          \/ Complete(job, encs, 0, "sent", 0) /\ UNCHANGED faults
          \/ /\ ~pass.stop /\ Spend
             /\ \E bad \in DOMAIN encs, outcome \in scenario.kinds \cap {"budget", "blocked", "failed"} :
                \E k \in 0..(encs[bad].form.n - 1) :
                   /\ outcome = "budget" => k = 0
                   /\ Complete(job, encs, bad, outcome, k)
    /\ UNCHANGED <<scenario, wire, down, up>>

\* Every region of a finished fresh batch that still has dirty tiles is queued again.
Requeued(s) == [s EXCEPT !.regions = @ \cup {r \in pass.batch : StillDirty(s, r)}]

\* The batch is over: the next batch of the pass, or its next stage.
EndBatch ==
    /\ pass.pc # "idle" /\ pass.jobs = {}
    /\ CASE pass.pc = "encoding" /\ ~pass.stop -> FreshBatch(Requeued(srv))
         [] pass.pc = "encoding" /\ pass.stop -> RepairBatch(Requeued(srv), "repairing", "idle")
         [] pass.pc = "fresh_blocked" -> RepairBatch(srv, "repairing", "idle")
         [] pass.pc = "fresh" -> FreshBatch(srv)
         [] pass.pc = "repairing" /\ ~pass.stop ->
               RepairBatch(CompactRetransmits(srv), "repairing", "idle")
         [] pass.pc = "repairing_first" /\ ~pass.stop ->
               RepairBatch(CompactRetransmits(srv), "repairing_first", "fresh")
         [] pass.pc = "repairing" /\ pass.stop ->
               srv' = CompactRetransmits(srv) /\ pass' = NoPass /\ UNCHANGED faults
         [] OTHER ->
               /\ srv' = CompactRetransmits(srv)
               /\ pass' = [NoPass EXCEPT !.pc = "fresh"]
               /\ UNCHANGED faults
    /\ UNCHANGED <<scenario, udp, wire, down, up>>

----------------------------------------------------------------------------
(* The network thread: completions, repair requests, summaries, resizes. *)

WithoutIndex(q, i) == SubSeq(q, 1, i - 1) \o SubSeq(q, i + 1, Len(q))

\* A packet completes: it is on the network, or it failed.
PacketDone(i, p, ok) ==
    LET d == [udp[i] EXCEPT !.todo = @ \ {p}, !.failed = @ \/ ~ok]
    IN /\ wire' = IF ok THEN wire \cup {p} ELSE wire
       /\ IF d.todo = {}
          THEN udp' = WithoutIndex(udp, i) /\ srv' = FinishDelivery(srv, d)
          ELSE udp' = [udp EXCEPT ![i] = d] /\ UNCHANGED srv

PacketCompletes ==
    /\ \E i \in DOMAIN udp : \E p \in udp[i].todo :
          \/ PacketDone(i, p, TRUE) /\ UNCHANGED faults
          \/ "failed" \in scenario.kinds /\ Spend /\ PacketDone(i, p, FALSE)
    /\ UNCHANGED <<scenario, pass, down, up>>

\* WD_MSG_TILE_REPAIR_REQUEST: ignored when it is about another content epoch.
HandleRepairRequest ==
    /\ up # <<>> /\ Head(up).kind = "repair"
    /\ up' = Tail(up)
    /\ srv' = IF Head(up).epoch # srv.epoch THEN srv ELSE AcceptRepairs(srv, Head(up).asked)
    /\ UNCHANGED <<scenario, faults, pass, udp, wire, down>>

\* A summary lists the changed tiles, or all of them; one at a time is queued.
SendSummary(listed) ==
    /\ listed # {} /\ ~srv.config_pending /\ down = <<>>
    /\ down' = <<[kind |-> "summary", epoch |-> srv.epoch, gens |-> [t \in listed |-> srv.gen[t]]]>>
    /\ srv' = [srv EXCEPT !.summary = @ \ listed]
    /\ UNCHANGED <<scenario, faults, pass, udp, wire, up>>

SendDirtySummary == SendSummary(srv.summary)
SendFullSummary == scenario.full /\ SendSummary(Tiles)

\* A resize waits for the encoder, replaces all tile state and starts a new epoch; tiles
\* wait until the client has applied the configuration.
Resize ==
    /\ srv.epoch <= scenario.resizes /\ pass.pc = "idle"
    /\ srv' = [srv EXCEPT !.epoch = @ + 1, !.gen = Zero, !.dirty_epoch = Zero, !.dirty = {},
                          !.regions = {}, !.retx_queue = <<>>, !.retx = {}, !.wanted = Zero,
                          !.summary = {}, !.config_pending = TRUE, !.refresh = FALSE]
    /\ down' = Append(down, [kind |-> "config", epoch |-> srv.epoch + 1])
    /\ UNCHANGED <<scenario, faults, pass, udp, wire, up>>

\* CONFIG_APPLIED releases the tiles and requests a full refresh.
ConfigApplied ==
    /\ up # <<>> /\ Head(up).kind = "applied"
    /\ up' = Tail(up)
    /\ srv' = IF Head(up).epoch # srv.epoch THEN srv
              ELSE [srv EXCEPT !.config_pending = FALSE, !.refresh = TRUE]
    /\ UNCHANGED <<scenario, faults, pass, udp, wire, down>>

\* A session whose first configuration was applied: a full refresh is due.
TileServerInit ==
    /\ faults = 0
    /\ srv = [epoch |-> 1, frame |-> 1, fb |-> [t \in Tiles |-> 1], gen |-> Zero,
              dirty |-> {}, dirty_epoch |-> Zero, regions |-> {}, refresh |-> TRUE,
              retx_queue |-> <<>>, retx |-> {}, wanted |-> Zero, summary |-> {},
              config_pending |-> FALSE]
    /\ pass = NoPass /\ udp = <<>> /\ wire = {} /\ down = <<>> /\ up = <<>>

TileServerNext ==
    \/ \E S \in (SUBSET Tiles) \ {{}} : ProcessFrame(S)
    \/ ProcessQueuedWork \/ CompleteJob \/ EndBatch
    \/ PacketCompletes \/ HandleRepairRequest \/ SendDirtySummary
    \/ Resize \/ ConfigApplied
============================================================================
