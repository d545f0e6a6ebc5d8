------------------------------ MODULE AsyncUdp ------------------------------
(***************************************************************************)
(* The asynchronous UDP sender (src/src/server/wd_async_udp.c): packets    *)
(* are prepared on an io_uring submission queue, submitted in batches by a *)
(* flush, and completed in any order; a fatal submit retires the ring in   *)
(* favour of nonblocking system calls.  Each packet carries the completion *)
(* callback of the tile delivery it belongs to.                            *)
(*                                                                         *)
(* Every entry point runs under net.lock and is one action; the kernel is  *)
(* the other actor.  As in AsyncTcp the sender and the kernel objects it   *)
(* uses are one record, and a helper maps it to the set of records the     *)
(* kernel's answers may leave.                                             *)
(***************************************************************************)
EXTENDS Integers, Sequences, FiniteSets
LOCAL INSTANCE SequencesExt

CONSTANTS
    MaxPackets,       \* bound: packets offered in a behaviour
    PacketSizes,      \* sizes of packets
    RingEntries,      \* capacity of the submission queue
    MaxQueuedPackets, \* max_pending_packets
    MaxQueuedBytes,   \* max_pending_bytes
    UdpBurst,         \* sends of one fallback pass (16 in the code)
    UdpDrainLimit     \* bound: passes of one teardown

Packets == 1 .. MaxPackets

VARIABLES
    udp,       \* the sender, the kernel's side of its ring, and the callbacks
    offered,   \* packets offered so far
    stage,     \* "open", "ring" or "syscall" (inside drain), "closed"
    passes     \* passes of the current drain

udpVars == <<udp, offered, stage, passes>>

-----------------------------------------------------------------------------
(* The list of pending packets and its accounting. *)

Less(n, d) == IF n >= d THEN n - d ELSE 0

Where(u, flag) == {u.list[i].id : i \in {j \in DOMAIN u.list : u.list[j][flag]}}
IdsOf(list) == [i \in DOMAIN list |-> list[i].id]

\* The packet leaves the list after its callback has run with this result.
Report(u, p, ok) ==
    [u EXCEPT !.list = SelectSeq(@, LAMBDA x : x.id # p),
              !.packets = Less(@, 1), !.bytes = Less(@, u.size[p]),
              !.reports[p] = Append(@, ok)]

\* Mutant of AccountComplete: a failed send is not counted down.
AccountSuccess(u, ok) == IF ok THEN [u EXCEPT !.submitted = Less(@, 1)] ELSE u

AccountComplete(u, ok) == [u EXCEPT !.submitted = Less(@, 1)]

\* At most as many as were prepared move on.
AccountSubmit(u, n) ==
    LET k == IF n > u.prepared THEN u.prepared ELSE n
    IN  [u EXCEPT !.prepared = @ - k, !.submitted = @ + k]

CancelPrepared(u) == [u EXCEPT !.prepared = 0]

WithinLimits(u, size) ==
    /\ u.packets < MaxQueuedPackets
    /\ size <= MaxQueuedBytes
    /\ u.bytes <= MaxQueuedBytes - size

\* The first n prepared packets of the list are the kernel's now.
MarkSubmitted(u, n) ==
    LET due == {i \in DOMAIN u.list : /\ u.list[i].prepared
                                      /\ Cardinality({j \in 1 .. i : u.list[j].prepared}) <= n}
    IN  [u EXCEPT !.list = [i \in DOMAIN @ |-> IF i \in due
                              THEN [@[i] EXCEPT !.prepared = FALSE, !.submitted = TRUE] ELSE @[i]]]

-----------------------------------------------------------------------------
(* The kernel: datagrams go out whole or not at all (external). *)

KernelRuns(u) ==
    {[u EXCEPT !.kernel = @ \ done,
               !.cqes = @ \cup {[id |-> p, ok |-> p \in good] : p \in done},
               !.wire = [p \in Packets |-> IF p \in good THEN @[p] + 1 ELSE @[p]]] :
        <<done, good>> \in {d \in (SUBSET u.kernel) \X (SUBSET u.kernel) : d[2] \subseteq d[1]}}

\* io_uring_queue_exit: what was submitted may have gone out, its completion
\* is lost; what was only prepared never goes out.
QueueExit(u) ==
    {[v EXCEPT !.ring_ready = FALSE, !.kernel = {}, !.cqes = {}, !.sqes = <<>>] : v \in KernelRuns(u)}

-----------------------------------------------------------------------------
(* Fallback, flush and reap. *)

ReportAll(u, ids, ok) == FoldLeft(LAMBDA v, p : Report(v, p, ok), u, ids)

\* Nonblocking sends from the head until the burst is used up or one would
\* block.
ProgressFallback(u) ==
    {LET sent == SubSeq(IdsOf(u.list), 1, k)
         v == FoldLeft(LAMBDA w, p : Report(w, p, p \in good), u, sent)
     IN  [v EXCEPT !.wire = [p \in Packets |-> IF p \in good /\ p \in ToSet(sent) THEN @[p] + 1 ELSE @[p]]] :
        k \in 0 .. (IF Len(u.list) < UdpBurst THEN Len(u.list) ELSE UdpBurst),
        good \in SUBSET ToSet(IdsOf(u.list))}

\* Mutant of FailSubmitted: the submitted packets are kept for the fallback.
ResendSubmitted(u) ==
    CancelPrepared([u EXCEPT !.submitted = 0,
                             !.list = [i \in DOMAIN @ |-> [@[i] EXCEPT !.prepared = FALSE, !.submitted = FALSE]]])

\* After the ring is gone: submitted packets fail, the others are the
\* fallback's.
FailSubmitted(u) ==
    LET v == FoldLeft(LAMBDA w, p : Report(AccountComplete(w, FALSE), p, FALSE), u,
                      IdsOf(SelectSeq(u.list, LAMBDA x : x.submitted)))
    IN  CancelPrepared([v EXCEPT !.list = [i \in DOMAIN @ |-> [@[i] EXCEPT !.prepared = FALSE]]])

RetireUdpRing(u) ==
    {[FailSubmitted(v) EXCEPT !.syscall_fallback = TRUE] : v \in QueueExit(u)}

\* io_uring_submit takes from the front of the submission queue: nothing, to
\* be retried; some of it; or it fails for good.
Flush(u) ==
    IF u.syscall_fallback THEN ProgressFallback(u)
    ELSE IF ~u.ring_ready \/ u.prepared = 0 THEN {u}
    ELSE {u}
         \cup {MarkSubmitted(AccountSubmit([u EXCEPT !.sqes = SubSeq(@, n + 1, Len(@)),
                                                     !.kernel = @ \cup ToSet(SubSeq(u.sqes, 1, n))], n),
                             IF n > u.prepared THEN u.prepared ELSE n) : n \in 1 .. Len(u.sqes)}
         \cup UNION {ProgressFallback(v) : v \in RetireUdpRing(u)}

TakeCompletions(u) ==
    FoldLeft(LAMBDA v, c : Report(AccountComplete(v, c.ok), c.id, c.ok), [u EXCEPT !.cqes = {}], SetToSeq(u.cqes))

ReapUdp(u) ==
    IF u.syscall_fallback THEN ProgressFallback(u)
    ELSE IF ~u.ring_ready THEN {u}
    ELSE UNION {IF v.ring_ready THEN {TakeCompletions(w) : w \in KernelRuns(v)} ELSE {v} :
                   v \in IF u.prepared # 0 THEN Flush(u) ELSE {u}}

-----------------------------------------------------------------------------
(* The entry points. *)

UdpCreate(u) ==
    [u EXCEPT !.ring_ready = TRUE, !.syscall_fallback = FALSE, !.list = <<>>, !.prepared = 0, !.submitted = 0,
              !.packets = 0, !.bytes = 0, !.sqes = <<>>, !.kernel = {}, !.cqes = {}]

UdpInit ==
    /\ udp = [ring_ready |-> TRUE, syscall_fallback |-> FALSE, list |-> <<>>, prepared |-> 0, submitted |-> 0,
              packets |-> 0, bytes |-> 0, sqes |-> <<>>, kernel |-> {}, cqes |-> {},
              size |-> [p \in Packets |-> 0], accepted |-> {},
              reports |-> [p \in Packets |-> <<>>], wire |-> [p \in Packets |-> 0]]
    /\ offered = 0 /\ stage = "open" /\ passes = 0

\* The packet joins the list, prepared on the ring or for the fallback.
AddPacket(u, p, size) ==
    LET v == [u EXCEPT !.size[p] = size, !.accepted = @ \cup {p}, !.packets = @ + 1, !.bytes = @ + size,
                       !.list = Append(@, [id |-> p, prepared |-> u.ring_ready, submitted |-> FALSE])]
    IN  IF u.ring_ready
        THEN {[v EXCEPT !.sqes = Append(@, p), !.prepared = @ + 1]}
        ELSE ProgressFallback(v)

\* A full submission queue is flushed and reaped once.
MakeRoom(u) ==
    IF u.ring_ready /\ Len(u.sqes) = RingEntries THEN UNION {ReapUdp(v) : v \in Flush(u)} ELSE {u}

\* What a send of p may leave: a list that stays over its limits after one
\* reap (SATURATED), a queue that stays full (FAILED), or the packet queued.
SendPacket(u, p, size) ==
    LET reaped == IF WithinLimits(u, size) THEN {u} ELSE ReapUdp(u)
    IN  UNION {IF ~WithinLimits(v, size) THEN {v}
               ELSE UNION {IF w.ring_ready /\ Len(w.sqes) = RingEntries THEN {w} ELSE AddPacket(w, p, size) :
                              w \in MakeRoom(v)} : v \in reaped}

UdpSend ==
    /\ stage = "open" /\ offered < MaxPackets
    /\ offered' = offered + 1
    /\ \E size \in PacketSizes : udp' \in SendPacket(udp, offered + 1, size)
    /\ UNCHANGED <<stage, passes>>

\* The end of a tile pass.
UdpFlush == stage = "open" /\ udp' \in Flush(udp) /\ UNCHANGED <<offered, stage, passes>>

\* The frame timer.
UdpReap == stage = "open" /\ udp' \in ReapUdp(udp) /\ UNCHANGED <<offered, stage, passes>>

UdpKernel == udp' \in KernelRuns(udp) /\ UNCHANGED <<offered, stage, passes>>

UdpBeginDestroy ==
    /\ stage = "open"
    /\ stage' = IF udp.syscall_fallback THEN "syscall" ELSE "ring"
    /\ UNCHANGED <<udp, offered, passes>>

Idle(u) == u.submitted = 0 /\ u.prepared = 0

\* The loop of a drain that found the ring ends when its accounting is empty,
\* be the list empty or left to the fallback.
MorePasses ==
    /\ udp.list # <<>> /\ passes < UdpDrainLimit
    /\ stage = "ring" /\ passes > 0 => ~Idle(udp)

UdpDrainPass ==
    /\ stage \in {"ring", "syscall"} /\ MorePasses
    /\ udp' \in IF stage = "ring" THEN UNION {ReapUdp(v) : v \in Flush(udp)} ELSE ProgressFallback(udp)
    /\ passes' = passes + 1
    /\ UNCHANGED <<offered, stage>>

\* Once the ring is gone the list is walked and every packet's callback runs;
\* a drain with nothing submitted has done so already for what was prepared.
FailAll(u) == ReportAll([CancelPrepared(u) EXCEPT !.submitted = 0], IdsOf(u.list), FALSE)

UdpFinishDestroy ==
    /\ stage \in {"ring", "syscall"} /\ ~MorePasses
    /\ udp' \in {FailAll(v) : v \in IF udp.ring_ready THEN QueueExit(udp) ELSE {udp}}
    /\ stage' = "closed" /\ passes' = 0
    /\ UNCHANGED offered

\* The sender of the next run of the network.
UdpRecreate ==
    /\ stage = "closed" /\ stage' = "open"
    /\ udp' = UdpCreate(udp)
    /\ UNCHANGED <<offered, passes>>

UdpNext ==
    \/ UdpSend \/ UdpFlush \/ UdpReap \/ UdpKernel
    \/ UdpBeginDestroy \/ UdpDrainPass \/ UdpFinishDestroy \/ UdpRecreate

UdpSpec == UdpInit /\ [][UdpNext]_udpVars

-----------------------------------------------------------------------------
(* Properties. *)

\* The accounting, the flags on the list and the ring move in lockstep: what
\* is counted prepared is what waits on the submission queue, in its order;
\* what is counted submitted is what the kernel holds or has completed; the
\* pending counters are the list's.  So a completion never finds its packet
\* released or marked for another one, whatever partial submits, retries,
\* failed completions and ring failures came before.
UdpLockstep ==
    /\ IdsOf(SelectSeq(udp.list, LAMBDA x : x.prepared)) = udp.sqes
    /\ udp.prepared = Len(udp.sqes)
    /\ Where(udp, "submitted") = udp.kernel \cup {c.id : c \in udp.cqes}
    /\ udp.submitted = Cardinality(Where(udp, "submitted"))
    /\ udp.packets = Len(udp.list)
    /\ udp.bytes = FoldLeft(LAMBDA n, x : n + udp.size[x.id], 0, udp.list)

\* Every packet that was accepted is either in the list or its callback has
\* run, once; a packet that was refused never reports.  None goes out twice,
\* and one reported as sent went out: the change from ring to system calls
\* neither repeats nor forgets a datagram.
UdpReportedOnce ==
    \A p \in Packets :
        /\ Cardinality({i \in DOMAIN udp.list : udp.list[i].id = p}) + Len(udp.reports[p])
             = IF p \in udp.accepted THEN 1 ELSE 0
        /\ udp.wire[p] <= 1
        /\ udp.reports[p] = <<TRUE>> => udp.wire[p] = 1
=============================================================================
