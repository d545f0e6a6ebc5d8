---------------------------- MODULE TileRepair ----------------------------
(***************************************************************************)
(* The client's side of the tile pipeline: reassembly of UDP tiles, the    *)
(* generations it has received, and the repair machinery that notices a    *)
(* missing generation from a summary or from a partial tile that timed     *)
(* out, and asks for it.  Composed with TilePipeline through the network.  *)
(*                                                                         *)
(* A timer is a flag: fresh until its interval has elapsed.                *)
(***************************************************************************)
EXTENDS TilePipeline

CONSTANT LargePercent   \* WD_LINK_LARGE_SUMMARY_REPAIR_PERCENT

ASSUME LargePercentAssumption == LargePercent \in Nat

VARIABLE cl             \* the repair part of ClientState and the reassembler

tile_vars == <<scenario, faults, srv, pass, udp, wire, down, up, cl>>

NoTimer == [t \in Tiles |-> [gen |-> 0, fresh |-> FALSE]]
NoPending == [t \in Tiles |-> [gen |-> 0, age |-> 0]]

Client(epoch) ==
    [epoch |-> epoch, config |-> 0, recv |-> Zero, image |-> Zero, entries |-> <<>>,
     queue |-> <<>>, queued |-> Zero, inflight |-> NoTimer, asked |-> NoTimer,
     pending |-> NoPending, due |-> <<>>, loss |-> FALSE, cooldown |-> FALSE]

\* The last state of a fold over the tiles of S in ascending order.
Each(op(_, _), c, S) ==
    LET f[R \in SUBSET S] ==
            IF R = {} THEN c
            ELSE LET t == CHOOSE x \in R : \A y \in R : y <= x IN op(f[R \ {t}], t)
    IN f[S]

----------------------------------------------------------------------------
(* Reassembly.  Entries are in the order of their first packets. *)

ClearInflight(c, w, g) ==
    [c EXCEPT !.inflight = [t \in Tiles |-> IF t \in w /\ @[t].gen = g
                                            THEN NoTimer[t] ELSE @[t]]]

\* enqueue_retx_for_partial_timeout
EnqueuePartial(c, t, g) ==
    IF c.recv[t] >= g THEN c
    ELSE [c EXCEPT !.queue = IF c.queued[t] = 0 THEN Append(@, t) ELSE @,
                   !.queued[t] = Max0({@, g})]

\* queue_entry_repair: concrete evidence of loss; ask for what the entry covers.
QueueEntryRepair(c, e) ==
    Each(LAMBDA d, t : EnqueuePartial(d, t, e.gen),
         ClearInflight([c EXCEPT !.loss = TRUE], e.w, e.gen), e.w)

RemoveEntry(c, i) == [c EXCEPT !.entries = WithoutIndex(@, i)]

ExpireEntry(c, i) == RemoveEntry(QueueEntryRepair(c, c.entries[i]), i)

\* ensure_budget: evict the oldest entries until one more fits.
EnsureBudget(c) ==
    IF Len(c.entries) < scenario.entries THEN c
    ELSE RemoveEntry(QueueEntryRepair(c, Head(c.entries)), 1)

IndexOf(c, w) == {i \in DOMAIN c.entries : c.entries[i].w = w}

\* A packet of an older generation than what is held, or of one held everywhere.
OldGeneration(c, p) ==
    \/ \E t \in p.w : c.recv[t] > p.gen
    \/ \A t \in p.w : c.recv[t] >= p.gen
    \/ \E i \in IndexOf(c, p.w) : p.gen < c.entries[i].gen

\* The entry a packet goes to: the active one of its generation, unless it has timed
\* out, or a new one.
PrepareEntry(c, p) ==
    LET same == {i \in IndexOf(c, p.w) : c.entries[i].gen = p.gen}
        live == {i \in same : ~c.entries[i].expired}
        c1 == IF IndexOf(c, p.w) = {} THEN c
              ELSE LET i == CHOOSE j \in IndexOf(c, p.w) : TRUE
                   IN IF same # {} THEN ExpireEntry(c, i)
                      ELSE RemoveEntry(ClearInflight(c, p.w, c.entries[i].gen), i)
        new == [w |-> p.w, gen |-> p.gen, form |-> p.form, expired |-> FALSE,
                got |-> [i \in 1..p.form.n |-> Zero]]
    IN IF live # {} THEN c
       ELSE [EnsureBudget(c1) EXCEPT
               !.entries = Append(@, new),
               !.inflight = [t \in Tiles |-> IF t \in p.w THEN [gen |-> p.gen, fresh |-> TRUE]
                                             ELSE @[t]]]

\* What a fragment carries: the pixels of the tiles it covers.
Content(p) == [t \in Tiles |-> IF t \in p.w THEN p.content[t] ELSE 0]

\* clear_completed_repair_tracking_locked
ClearCompleted(c, t) ==
    LET done(x) == x.gen <= c.recv[t]
    IN [c EXCEPT !.queued[t] = IF @ <= c.recv[t] THEN 0 ELSE @,
                 !.inflight[t] = IF done(@) THEN NoTimer[t] ELSE @,
                 !.asked[t] = IF done(@) THEN NoTimer[t] ELSE @,
                 !.pending[t] = IF done(@) THEN NoPending[t] ELSE @]

\* A complete tile: generations, repair tracking, pixels.  Fragments of different
\* encodings leave a mixture, written 0.
CompleteTile(c, i) ==
    LET e == c.entries[i]
        whole == \A j \in DOMAIN e.got : e.got[j] = e.got[1]
        c1 == RemoveEntry(ClearInflight(c, e.w, e.gen), i)
        c2 == [c1 EXCEPT !.recv = [t \in Tiles |-> IF t \in e.w THEN Max0({@[t], e.gen}) ELSE @[t]],
                         !.image = [t \in Tiles |-> IF t \in e.w
                                                    THEN IF whole THEN e.got[1][t] ELSE 0
                                                    ELSE @[t]]]
    IN IF e.form.zip /\ ~whole THEN RemoveEntry(QueueEntryRepair(c, e), i)
       ELSE Each(ClearCompleted, c2, e.w)

\* A fragment is stored, ignored as a duplicate, or conflicts with what was stored.
StoreFragment(c, p) ==
    LET i == CHOOSE j \in IndexOf(c, p.w) : TRUE
        e == c.entries[i]
        c1 == [c EXCEPT !.entries[i].got[p.frag] = Content(p)]
    IN CASE e.form # p.form -> c
         [] e.form = p.form /\ e.got[p.frag] # Zero ->
               IF e.got[p.frag] = Content(p) THEN c ELSE RemoveEntry(QueueEntryRepair(c, e), i)
         [] OTHER -> IF \E j \in DOMAIN e.got : c1.entries[i].got[j] = Zero THEN c1
                     ELSE CompleteTile(c1, i)

\* process_udp_datagram: packets wait out a pending configuration; a newer content epoch
\* resets the reassembler, an older one is ignored.
ProcessDatagram(c, p) ==
    LET c1 == IF p.epoch > c.epoch THEN [c EXCEPT !.epoch = p.epoch, !.entries = <<>>] ELSE c
    IN CASE c.config # 0 \/ p.epoch < c.epoch -> c
         [] c.config = 0 /\ p.epoch >= c.epoch /\ OldGeneration(c1, p) -> c1
         [] OTHER -> StoreFragment(PrepareEntry(c1, p), p)

----------------------------------------------------------------------------
(* Summaries and repair requests. *)

SetPending(c, t, g) ==
    IF c.pending[t].gen >= g THEN c
    ELSE [c EXCEPT !.pending[t] = [gen |-> g, age |-> 0],
                   !.due = Append(@, [t |-> t, gen |-> g, retry |-> FALSE, ripe |-> FALSE])]

\* A repair of generation g is on its way: a tile arrives, or a request was just sent.
Underway(c, t, g) ==
    \/ c.inflight[t].gen >= g /\ c.inflight[t].fresh
    \/ c.asked[t].gen >= g /\ c.asked[t].fresh

Fresher(c, t, u) == c.pending[t].age > c.pending[u].age \/ (c.pending[t].age = c.pending[u].age /\ t <= u)

\* Under pressure only the oldest candidates are queued.
Limited(c, S) ==
    LET high == \/ Len(c.queue) >= scenario.pressure
                \/ Cardinality({t \in Tiles : c.pending[t].gen # 0}) >= scenario.pressure
    IN IF ~high \/ Cardinality(S) <= scenario.pressure THEN S
       ELSE {t \in S : Cardinality({u \in S : Fresher(c, u, t)}) <= scenario.pressure}

\* large_summary_repair_batch_locked: a large batch waits for its own grace period and
\* cooldown, unless loss has been seen.
Large(c, S) == Cardinality(S) * 100 >= Cardinality(Tiles) * LargePercent /\ ~c.loss
Blocked(c, S, ages) == Large(c, S) /\ (c.cooldown \/ \E t \in ages : c.pending[t].age < 2)

\* queue_retransmit_tile_locked, for the candidates of S, each with its pending generation.
QueueRepairs(c, S, gens) ==
    Each(LAMBDA d, t : [d EXCEPT !.queue = IF d.queued[t] = 0 THEN Append(@, t) ELSE @,
                                 !.queued[t] = Max0({@, gens[t]}),
                                 !.pending[t] = NoPending[t]],
         [c EXCEPT !.cooldown = @ \/ Large(c, S)], S)

\* queue_retransmits_from_summary
SummaryEntry(c, t, g) ==
    IF g <= c.recv[t] THEN [c EXCEPT !.pending[t] = NoPending[t]] ELSE SetPending(c, t, g)

ProcessSummary(c, m) ==
    LET gens == m.gens
        cands == {t \in DOMAIN gens : /\ gens[t] > c.recv[t] /\ ~Underway(c, t, gens[t])
                                      /\ c.pending[t].gen >= gens[t] /\ c.pending[t].age > 0}
        c1 == Each(LAMBDA d, t : SummaryEntry(d, t, gens[t]),
                   IF m.epoch > c.epoch THEN [c EXCEPT !.epoch = m.epoch] ELSE c, DOMAIN gens)
    IN IF m.epoch < c.epoch THEN c
       ELSE IF cands = {} \/ Blocked(c1, Limited(c1, cands), cands) THEN c1
       ELSE QueueRepairs(c1, Limited(c1, cands), gens)

\* Mutant of Promote: blocked candidates leave the due queue.
PromoteOnce(c) ==
    LET ripe == {i \in DOMAIN c.due : c.due[i].ripe}
        match == {c.due[i].t : i \in {j \in ripe : c.pending[c.due[j].t].gen = c.due[j].gen}}
        done == {t \in match : c.recv[t] >= c.pending[t].gen}
        cands == {t \in match \ done : ~Underway(c, t, c.pending[t].gen)}
        kept == Limited(c, cands)
        gens == [t \in cands |-> c.pending[t].gen]
        c1 == [c EXCEPT !.due = SelectSeq(@, LAMBDA d : ~d.ripe),
                        !.pending = [t \in Tiles |-> IF t \in done THEN NoPending[t] ELSE @[t]]]
    IN IF \A t \in Tiles : c.pending[t].gen = 0 THEN c
       ELSE IF cands = {} \/ Blocked(c1, kept, cands) THEN c1
       ELSE QueueRepairs(c1, kept, gens)

\* promote_deferred_summary_retransmits_locked: pending tiles that are due are queued, or
\* scheduled again while a repair is underway, under pressure, or in a blocked batch.
Promote(c) ==
    LET ripe == {i \in DOMAIN c.due : c.due[i].ripe}
        match == {c.due[i].t : i \in {j \in ripe : c.pending[c.due[j].t].gen = c.due[j].gen}}
        done == {t \in match : c.recv[t] >= c.pending[t].gen}
        later == {t \in match \ done : Underway(c, t, c.pending[t].gen)}
        cands == match \ (done \cup later)
        kept == Limited(c, cands)
        gens == [t \in cands |-> c.pending[t].gen]
        reschedule(d, t) ==
            [d EXCEPT !.due = Append(@, [t |-> t, gen |-> d.pending[t].gen,
                                         retry |-> t \in later, ripe |-> FALSE])]
        c1 == Each(reschedule,
                   [c EXCEPT !.due = SelectSeq(@, LAMBDA d : ~d.ripe),
                             !.pending = [t \in Tiles |-> IF t \in done THEN NoPending[t] ELSE @[t]]],
                   later \cup (cands \ kept))
    IN IF \A t \in Tiles : c.pending[t].gen = 0 THEN c
       ELSE IF cands = {} THEN c1
       ELSE IF Blocked(c1, kept, cands) THEN Each(reschedule, c1, kept)
       ELSE QueueRepairs(c1, kept, gens)

\* client_flush_retransmit_requests: one scan of the queue.
FlushOne(st, t) ==
    LET g == st.c.queued[t]
        c1 == [st.c EXCEPT !.queued[t] = 0]
    IN CASE g = 0 \/ st.c.recv[t] >= g -> [st EXCEPT !.c = c1]
         [] g > st.c.recv[t] /\ Underway(st.c, t, g) ->
               [st EXCEPT !.c = [st.c EXCEPT !.queue = Append(@, t)]]
         [] OTHER -> [c |-> [c1 EXCEPT !.asked[t] = [gen |-> g, fresh |-> TRUE]],
                      asked |-> [u \in DOMAIN st.asked \cup {t} |-> IF u = t THEN g ELSE st.asked[u]]]

Flush(c) ==
    LET f[i \in 0..Len(c.queue)] ==
            IF i = 0 THEN [c |-> [c EXCEPT !.queue = <<>>], asked |-> [t \in {} |-> 0]]
            ELSE FlushOne(f[i-1], c.queue[i])
    IN f[Len(c.queue)]

ExpireAll(c) ==
    LET expired == {i \in DOMAIN c.entries : c.entries[i].expired}
        f[n \in 0..Len(c.entries)] ==
            IF n = 0 THEN c
            ELSE IF n \in expired THEN QueueEntryRepair(f[n-1], c.entries[n]) ELSE f[n-1]
    IN [f[Len(c.entries)] EXCEPT !.entries = SelectSeq(@, LAMBDA e : ~e.expired)]

----------------------------------------------------------------------------
(* Steps of the client and of the network. *)

ReceivePacket ==
    /\ \E p \in wire :
          /\ cl' = ProcessDatagram(cl, p)
          /\ \/ wire' = wire \ {p} /\ UNCHANGED faults
             \/ "dup" \in scenario.kinds /\ Spend /\ UNCHANGED wire
    /\ UNCHANGED <<scenario, srv, pass, udp, down, up>>

LosePacket ==
    /\ "loss" \in scenario.kinds /\ Spend
    /\ \E p \in wire : wire' = wire \ {p}
    /\ UNCHANGED <<scenario, srv, pass, udp, down, up, cl>>

ReceiveSummary ==
    /\ down # <<>> /\ Head(down).kind = "summary"
    /\ down' = Tail(down)
    /\ cl' = ProcessSummary(cl, Head(down))
    /\ UNCHANGED <<scenario, faults, srv, pass, udp, wire, up>>

\* SERVER_CONFIG: datagrams wait until the viewer has applied it.
ReceiveConfig ==
    /\ down # <<>> /\ Head(down).kind = "config"
    /\ down' = Tail(down)
    /\ cl' = [cl EXCEPT !.config = Head(down).epoch]
    /\ UNCHANGED <<scenario, faults, srv, pass, udp, wire, up>>

\* The viewer applies the configuration: everything but the due queue is new.
ApplyConfig ==
    /\ cl.config # 0
    /\ cl' = [Client(cl.config) EXCEPT !.due = cl.due, !.loss = cl.loss, !.cooldown = cl.cooldown]
    /\ up' = Append(up, [kind |-> "applied", epoch |-> cl.config])
    /\ UNCHANGED <<scenario, faults, srv, pass, udp, wire, down>>

\* client_receive_udp_service, after draining: expire, promote, flush.
ServiceUdp ==
    LET st == Flush(Promote(ExpireAll(cl)))
    IN /\ cl.config = 0
       /\ st.c # cl
       /\ cl' = st.c
       /\ up' = IF st.asked = [t \in {} |-> 0] THEN up
                ELSE Append(up, [kind |-> "repair", epoch |-> cl.epoch, asked |-> st.asked])
       /\ UNCHANGED <<scenario, faults, srv, pass, udp, wire, down>>

\* Nothing moves but time.
Quiet == /\ wire = {} /\ udp = <<>> /\ down = <<>> /\ up = <<>> /\ pass.pc = "idle"
         /\ ~QueuedWork(srv) /\ ~srv.refresh /\ cl.config = 0

ElapsePartial(c) == [c EXCEPT !.entries = [i \in DOMAIN @ |-> [@[i] EXCEPT !.expired = TRUE]]]
ElapseRepair(c) ==
    [c EXCEPT !.inflight = [t \in Tiles |-> [@[t] EXCEPT !.fresh = FALSE]],
              !.asked = [t \in Tiles |-> [@[t] EXCEPT !.fresh = FALSE]]]
\* A retry is due when the repair it waits for is overdue, the others after a grace period.
Ripens(c, d) == ~d.retry \/ ~Underway(c, d.t, d.gen)

ElapseGrace(c) ==
    [c EXCEPT !.pending = [t \in Tiles |-> [@[t] EXCEPT !.age = IF c.pending[t].gen = 0 \/ @ = 2
                                                                THEN @ ELSE @ + 1]],
              !.due = [i \in DOMAIN @ |-> [@[i] EXCEPT !.ripe = @ \/ Ripens(c, c.due[i])]],
              !.loss = FALSE, !.cooldown = FALSE]

\* A group of timers runs out: at any time when the network is quiet, and as a fault
\* while something is still on its way.
Elapse(after) ==
    /\ cl' = after /\ cl' # cl
    /\ \/ Quiet /\ UNCHANGED faults
       \/ ~Quiet /\ "early" \in scenario.kinds /\ Spend
    /\ UNCHANGED <<scenario, srv, pass, udp, wire, down, up>>

ElapsePartialTimers == Elapse(ElapsePartial(cl))
ElapseRepairTimers == Elapse(ElapseRepair(cl))
ElapseGraceTimers == Elapse(ElapseGrace(cl))

\* The client has nothing to do and no timer is running.
ClientIdle ==
    /\ Flush(Promote(ExpireAll(cl))).c = cl
    /\ ElapseGrace(ElapseRepair(ElapsePartial(cl))) = cl

\* The periodic full summary: its interval (60 s) is longer than every timer of the client.
FullSummary == Quiet /\ ClientIdle /\ SendFullSummary /\ UNCHANGED cl

\* Nobody has anything left to do.
Settled == Quiet /\ ClientIdle /\ srv.summary = {} /\ ~scenario.full
Rest == Settled /\ UNCHANGED tile_vars

TilesInit == scenario \in TileScenarios /\ TileServerInit /\ cl = Client(1)

TilesNext ==
    \/ TileServerNext /\ UNCHANGED cl
    \/ ReceivePacket \/ LosePacket \/ ReceiveSummary \/ ReceiveConfig \/ ApplyConfig
    \/ ServiceUdp \/ ElapsePartialTimers \/ ElapseRepairTimers \/ ElapseGraceTimers
    \/ FullSummary \/ Rest

TilesSpec == TilesInit /\ [][TilesNext]_tile_vars

\* The system does not stop while anyone has something to do: the frame worker, the network
\* threads, the reader loop and the clock keep running, and packets not lost arrive.
TilesFairness == []<>Settled \/ []<><<TRUE>>_tile_vars

TilesFairSpec == TilesSpec /\ TilesFairness

----------------------------------------------------------------------------
\* Every dirty tile is in a queued region or in a batch being encoded, every queue holds
\* what it may hold, and a tile's repair record never outlives its need: what the client
\* still wants, waits for or has asked for is newer than what it has received.
TilesAccounted ==
    /\ faults \in 0..scenario.faults
    /\ \A t \in srv.dirty : RegionOf(t) \in srv.regions \cup pass.batch
    /\ Len(srv.retx_queue) <= Cardinality(Tiles)
    /\ \A t \in srv.retx : \E i \in DOMAIN srv.retx_queue : srv.retx_queue[i] = t
    /\ Len(cl.entries) <= scenario.entries
    /\ \A t \in Tiles :
          /\ cl.queued[t] # 0 => cl.queued[t] > cl.recv[t]
          /\ cl.pending[t].gen # 0 => cl.pending[t].gen > cl.recv[t]

\* Every pixel arrives: whatever was lost, blocked or answered late, the client ends up with
\* the server's frame in every tile.
Repaired == cl.image = srv.fb
EventuallyRepaired == <>[]Repaired

\* A completed tile is one encoding of the tile, never fragments of two.
TilesWhole == \A t \in Tiles : cl.recv[t] # 0 => cl.image[t] # 0
============================================================================
