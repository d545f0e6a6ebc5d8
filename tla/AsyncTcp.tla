------------------------------ MODULE AsyncTcp ------------------------------
(***************************************************************************)
(* The asynchronous TCP sender (src/src/server/wd_async_tcp.c): a FIFO of  *)
(* framed messages, of which at most the head is handed to io_uring, with  *)
(* a nonblocking-syscall fallback once the ring misbehaves.                *)
(*                                                                         *)
(* All sender entry points run under the owner's lock, so an entry point   *)
(* is one action; the kernel runs on its own and is the other actor.  The  *)
(* sender, its messages and the kernel's side of the ring and the socket   *)
(* are one record tx, so that the helpers the entry points call in turn    *)
(* compose: each helper maps a sender to the set of senders it may leave,  *)
(* one for every answer the kernel may give to the system calls it makes.  *)
(*                                                                         *)
(* Messages are numbered as they are queued (pending_add appends at the    *)
(* tail), so the list order is the order of the numbers and the list is    *)
(* the set tx.pending.  Byte counts are in abstract units.                 *)
(***************************************************************************)
EXTENDS Integers, FiniteSets, FiniteSetsExt

CONSTANTS
    MaxMessages,      \* bound: messages queued in a behaviour
    Sizes,            \* wire sizes of messages
    Types,            \* message types
    Sockets,          \* socket identities (kernel socket cookies)
    NoSocket,         \* an unbound pin
    MaxPendingBytes,  \* max_pending_bytes; 0 is unlimited
    SyscallBurst,     \* sends of one fallback pass (16 in the code)
    DrainLimit        \* bound: reaps of one teardown

Messages == 1 .. MaxMessages

ASSUME AsyncTcpAssumption ==
    /\ MaxMessages \in Nat
    /\ Sizes \subseteq Nat \ {0}
    /\ NoSocket \notin Sockets
    /\ MaxPendingBytes \in Nat
    /\ SyscallBurst \in Nat \ {0}
    /\ DrainLimit \in Nat \ {0}

\* Results of a send other than a byte count (cqe->res, or -errno).
NoResult    == 0    \* no completion posted
AGAIN       == -1   \* -EINTR, -EAGAIN
UNSUPPORTED == -2   \* -EOPNOTSUPP, -EBADF
ERROR       == -3   \* every other error, and a zero-length send

VARIABLES
    tx,       \* the sender, its messages and the kernel objects it uses
    next_id,  \* number of the next message queued
    phase,    \* "open", "draining" (inside destroy) or "closed"
    drains    \* reaps of the current teardown

vars == <<tx, next_id, phase, drains>>

-----------------------------------------------------------------------------
(* The sender and its list of pending messages. *)

\* A sender just created: its own fields; the messages keep their history.
SenderCreate(s) ==
    [s EXCEPT !.ring_ready = TRUE, !.syscall_fallback = FALSE,
              !.submit_retry_pending = FALSE, !.inflight = 0,
              !.pending = {}, !.pending_bytes = 0, !.transport_failures = 0,
              !.socket_pin = NoSocket, !.shut = FALSE, !.taken = FALSE,
              !.cqe = NoResult]

Available(s) == s.ring_ready \/ s.syscall_fallback

\* Mutant of PendingHead: the newest message first.
NewestPending(s) == CHOOSE m \in s.pending : \A k \in s.pending : m >= k

PendingHead(s) == CHOOSE m \in s.pending : \A k \in s.pending : m <= k

PendingAdd(s, m, type, fd, size) ==
    [s EXCEPT !.pending = @ \cup {m}, !.pending_bytes = @ + size,
              !.type[m] = type, !.fd[m] = fd, !.total_size[m] = size]

\* What the messages of D weigh.
TotalSize(s, D) == MapThenSumSet(LAMBDA m : s.total_size[m], D)

\* Mutant of PendingRemove: only the bytes still unsent leave the count.
PendingRemoveUnsent(s, D, outcome) ==
    LET bytes == MapThenSumSet(LAMBDA m : s.total_size[m] - s.bytes_sent[m], D)
    IN  [s EXCEPT !.pending = @ \ D,
                  !.pending_bytes = IF @ >= bytes THEN @ - bytes ELSE 0,
                  !.outcome = [m \in Messages |->
                                 IF m \in D THEN outcome ELSE @[m]]]

\* pending_remove of every message of D, each followed by its completion
\* callback with the given outcome.
PendingRemove(s, D, outcome) ==
    LET bytes == TotalSize(s, D)
    IN  [s EXCEPT !.pending = @ \ D,
                  !.pending_bytes = IF @ >= bytes THEN @ - bytes ELSE 0,
                  !.outcome = [m \in Messages |->
                                 IF m \in D THEN outcome ELSE @[m]]]

CanEnqueue(pending, next, limit) == limit = 0 \/ pending + next <= limit

\* Mutants of IsReplaceable: forget the kernel's hold, or the bytes already sent.
IsUnsent(s, m) == s.bytes_sent[m] = 0
IsUnsubmitted(s, m) == ~s.submitted[m]

IsReplaceable(s, m) == ~s.submitted[m] /\ s.bytes_sent[m] = 0

Remaining(s, m) == s.total_size[m] - s.bytes_sent[m]

\* Mutant of RecordTransportFailure: the failed message stays on the list.
FailureReportedEarly(s, m) ==
    [s EXCEPT !.transport_failures = @ + 1, !.outcome[m] = "failed"]

RecordTransportFailure(s, m) ==
    PendingRemove([s EXCEPT !.transport_failures = @ + 1], {m}, "failed")

-----------------------------------------------------------------------------
(* The syscall fallback: up to SyscallBurst nonblocking sends.  A pass     *)
(* sends the messages of D whole, oldest first, and then meets a full      *)
(* socket buffer, a short send or an error at the next one, unless the     *)
(* list or the burst ends there.  A socket that was shut down only fails.  *)

SentWhole(s, D) ==
    PendingRemove([s EXCEPT !.bytes_sent = [m \in Messages |-> IF m \in D THEN s.total_size[m] ELSE @[m]],
                            !.wire = [m \in Messages |-> IF m \in D THEN s.total_size[m] ELSE @[m]]],
                  D, "sent")

ShortSend(s, m, n) == [s EXCEPT !.bytes_sent[m] = @ + n, !.wire[m] = @ + n]

Prefixes(s) ==
    {D \in SUBSET s.pending :
        /\ Cardinality(D) <= SyscallBurst
        /\ \A d \in D : \A k \in s.pending \ D : d < k
        /\ s.shut => D = {}}

\* What becomes of a sender s after k whole sends of a pass.
AfterWholeSends(s, k) ==
    IF s.pending = {} \/ k = SyscallBurst
    THEN {s}
    ELSE LET m == PendingHead(s)
         IN  {RecordTransportFailure(s, m)}
             \cup (IF s.shut THEN {}
                   ELSE {s} \cup {ShortSend(s, m, n) : n \in 1 .. (Remaining(s, m) - 1)})

ProgressSyscallFallback(s) ==
    IF ~s.syscall_fallback \/ s.inflight # 0
    THEN {s}
    ELSE UNION {AfterWholeSends(SentWhole(s, D), Cardinality(D)) : D \in Prefixes(s)}

-----------------------------------------------------------------------------
(* The ring. *)

RetireRing(s) ==
    [s EXCEPT !.ring_ready = FALSE, !.submit_retry_pending = FALSE,
              !.syscall_fallback = TRUE]

\* No SQE, or a fatal io_uring_submit, retires the ring and leaves m queued
\* for the fallback; a transient submit result leaves the SQE for the next
\* reap; otherwise the kernel owns m until its completion is reaped.
SubmitMessage(s, m) ==
    LET prepared == [s EXCEPT !.submitted[m] = TRUE, !.inflight = @ + 1]
    IN  {RetireRing(s),
         [prepared EXCEPT !.submit_retry_pending = TRUE],
         [prepared EXCEPT !.taken = TRUE]}

TryStartHead(s) ==
    IF s.inflight # 0 \/ s.pending = {} THEN {s}
    ELSE IF s.syscall_fallback THEN ProgressSyscallFallback(s)
    ELSE SubmitMessage(s, PendingHead(s))

\* One completion of the reap loop.  The loop goes on only if the kernel has
\* by then posted another, which is a later Reap here.
ReapCompletion(s) ==
    LET m  == CHOOSE k \in s.pending : s.submitted[k]
        r  == s.cqe
        s1 == [s EXCEPT !.cqe = NoResult, !.taken = FALSE,
                         !.submitted[m] = FALSE, !.inflight = @ - 1]
        s2 == [s1 EXCEPT !.bytes_sent[m] = @ + r]
    IN  CASE r = UNSUPPORTED -> ProgressSyscallFallback([s1 EXCEPT !.syscall_fallback = TRUE])
          [] r = ERROR       -> TryStartHead(RecordTransportFailure(s1, m))
          [] r = AGAIN       -> SubmitMessage(s1, m)
          [] r > 0 /\ r = Remaining(s, m) -> TryStartHead(PendingRemove(s2, {m}, "sent"))
          [] r > 0 /\ r < Remaining(s, m) -> SubmitMessage(s2, m)

\* The pending resubmission of the head: still refused, accepted, or fatal.
\* With the entry already taken io_uring_submit has nothing to submit and
\* returns 0, which reads as another refusal.
FlushRetry(s) ==
    IF s.taken THEN {s}
    ELSE {s, [s EXCEPT !.submit_retry_pending = FALSE, !.taken = TRUE]}
         \cup ProgressSyscallFallback([RetireRing(s) EXCEPT !.submitted[PendingHead(s)] = FALSE,
                                                            !.inflight = 0])

\* Mutant of ReapResults: the fallback is only driven by sends.
ReapRingOnly(s) ==
    IF ~s.ring_ready THEN {s}
    ELSE IF s.submit_retry_pending THEN FlushRetry(s)
    ELSE IF s.cqe = NoResult THEN {s}
    ELSE ReapCompletion(s)

ReapResults(s) ==
    IF s.syscall_fallback /\ s.inflight = 0 THEN ProgressSyscallFallback(s)
    ELSE IF ~s.ring_ready THEN {s}
    ELSE IF s.submit_retry_pending THEN FlushRetry(s)
    ELSE IF s.cqe = NoResult THEN {s}
    ELSE ReapCompletion(s)

-----------------------------------------------------------------------------
(* The entry points. *)

Init ==
    /\ tx = [ring_ready |-> TRUE, syscall_fallback |-> FALSE,
             submit_retry_pending |-> FALSE, inflight |-> 0, pending |-> {},
             pending_bytes |-> 0, transport_failures |-> 0,
             socket_pin |-> NoSocket, shut |-> FALSE, taken |-> FALSE, cqe |-> NoResult,
             type |-> [m \in Messages |-> "none"],
             fd |-> [m \in Messages |-> NoSocket],
             total_size |-> [m \in Messages |-> 0],
             bytes_sent |-> [m \in Messages |-> 0],
             submitted |-> [m \in Messages |-> FALSE],
             outcome |-> [m \in Messages |-> "none"],
             wire |-> [m \in Messages |-> 0]]
    /\ next_id = 1
    /\ phase = "open"
    /\ drains = 0

Bindable(s, fd) == s.socket_pin = fd \/ (s.pending = {} /\ s.inflight = 0)

Reap ==
    /\ phase = "open"
    /\ tx' \in ReapResults(tx)
    /\ UNCHANGED <<next_id, phase, drains>>

\* The senders a send leaves when it queues message m and returns true.
Queued(s0, m, type, size, fd) ==
    UNION {TryStartHead(PendingAdd([s EXCEPT !.socket_pin = fd], m, type, fd, size)) :
              s \in {r \in ReapResults(s0) :
                        Bindable(r, fd) /\ CanEnqueue(r.pending_bytes, size, MaxPendingBytes)}}

\* The senders a send leaves when it returns false, after its reap: the socket
\* is not the pinned one and cannot be pinned, or the queue is full, the
\* payload is not a valid one of its type, or there is no memory.
Rejected(s0, fd) ==
    {s \in ReapResults(s0) : s.socket_pin # fd}
    \cup {[s EXCEPT !.socket_pin = fd] : s \in {r \in ReapResults(s0) : Bindable(r, fd)}}

\* The senders drop_message_type leaves.
Dropped(s, type) ==
    LET D == {m \in s.pending : s.type[m] = type /\ IsReplaceable(s, m)}
    IN  IF D = {} THEN {s} ELSE TryStartHead(PendingRemove(s, D, "dropped"))

SendMessage(type, size, fd) ==
    /\ phase = "open"
    /\ next_id \in Messages
    /\ Available(tx)
    /\ tx' \in Queued(tx, next_id, type, size, fd)
    /\ next_id' = next_id + 1
    /\ UNCHANGED <<phase, drains>>

RejectMessage(fd) ==
    /\ phase = "open"
    /\ tx' \in Rejected(tx, fd)
    /\ UNCHANGED <<next_id, phase, drains>>

DropMessageType(type) ==
    /\ phase = "open"
    /\ tx' \in Dropped(tx, type)
    /\ UNCHANGED <<next_id, phase, drains>>

\* Cancel requests go out with a submit of their own, which may also take
\* the entry of a head whose submission was refused.
RequestCancels(s) == {s, [s EXCEPT !.taken = s.inflight # 0]}

\* Destroy: shut the socket down when anything is pending, cancel the
\* submitted head, then reap and fail what is not submitted until nothing is.
BeginDestroy ==
    /\ phase = "open"
    /\ phase' = "draining"
    /\ tx' \in RequestCancels([tx EXCEPT !.shut = tx.pending # {}])
    /\ UNCHANGED <<next_id, drains>>

Drained(s) == ~s.ring_ready \/ \A m \in s.pending : ~s.submitted[m]

DrainPass ==
    /\ phase = "draining"
    /\ drains < DrainLimit
    /\ tx.pending # {}
    /\ drains = 0 \/ ~Drained(tx)
    /\ \E s \in ReapResults(tx) :
          LET left == PendingRemove(s, {m \in s.pending : ~s.submitted[m]}, "failed")
          IN  tx' \in IF Drained(left) THEN {left} ELSE RequestCancels(left)
    /\ drains' = drains + 1
    /\ UNCHANGED <<next_id, phase>>

\* The ring is closed, which ends the kernel's use of the buffers, before
\* what is still pending is failed and released.
FinishDestroy ==
    /\ phase = "draining"
    /\ \/ tx.pending = {}
       \/ drains > 0 /\ Drained(tx)
       \/ drains = DrainLimit
    /\ phase' = "closed"
    /\ tx' = PendingRemove([tx EXCEPT !.ring_ready = FALSE, !.inflight = 0,
                                      !.submit_retry_pending = FALSE,
                                      !.submitted = [m \in Messages |-> FALSE],
                                      !.taken = FALSE, !.cqe = NoResult,
                                      !.socket_pin = NoSocket],
                           tx.pending, "failed")
    /\ drains' = 0
    /\ UNCHANGED next_id

\* The next session's sender.
Create ==
    /\ phase = "closed"
    /\ phase' = "open"
    /\ tx' = SenderCreate(tx)
    /\ UNCHANGED <<next_id, drains>>

\* The kernel performs the submitted send, wholly, in part or not at all,
\* and posts its completion (external).
KernelCompletes ==
    /\ tx.taken /\ tx.cqe = NoResult
    /\ LET m == CHOOSE k \in tx.pending : tx.submitted[k]
       IN  \/ \E r \in {AGAIN, UNSUPPORTED, ERROR} : tx' = [tx EXCEPT !.cqe = r]
           \/ \E n \in 1 .. Remaining(tx, m) :
                 tx' = [tx EXCEPT !.cqe = n, !.wire[m] = @ + n]
    /\ UNCHANGED <<next_id, phase, drains>>

Next ==
    \/ Reap
    \/ \E type \in Types, size \in Sizes, fd \in Sockets : SendMessage(type, size, fd)
    \/ \E fd \in Sockets : RejectMessage(fd)
    \/ \E type \in Types : DropMessageType(type)
    \/ BeginDestroy \/ DrainPass \/ FinishDestroy \/ Create
    \/ KernelCompletes

Spec == Init /\ [][Next]_vars

\* The frame timer reaps every sender, teardown runs to its end, and a send
\* that the kernel keeps putting off is eventually performed or refused.
KernelProgress == KernelCompletes /\ tx'.cqe # AGAIN

FairSpec ==
    /\ Spec
    /\ WF_vars(Reap) /\ WF_vars(DrainPass) /\ WF_vars(FinishDestroy)
    /\ SF_vars(KernelProgress)

-----------------------------------------------------------------------------
(* Properties. *)

\* Only the head of the list is ever with the kernel, inflight counts it, and
\* its buffer stays queued until its completion is reaped or the ring is
\* closed: no buffer is released under the kernel (submit_message, reap,
\* fail_all_after_ring_exit).
InFlightIsHead ==
    /\ tx.inflight = Cardinality({m \in Messages : tx.submitted[m]})
    /\ \A m \in Messages : tx.submitted[m] =>
          m \in tx.pending /\ \A k \in tx.pending : m <= k
    /\ tx.taken \/ tx.cqe # NoResult => tx.ring_ready /\ \E m \in Messages : tx.submitted[m]

\* The queue's books are true whichever of the ring, the fallback, a drop or
\* a teardown ends a message: it is on the list exactly until its callback has
\* run, pending_bytes is the size of what is listed and within the limit, and
\* all of it was queued for the socket the pin holds, so that a reused
\* descriptor number never redirects it (pending_add, pending_remove,
\* complete_message, wd_async_tcp_can_enqueue, bind_socket).
QueueExact ==
    /\ \A m \in Messages : m \in tx.pending <=> m < next_id /\ tx.outcome[m] = "none"
    /\ tx.pending_bytes = TotalSize(tx, tx.pending)
    /\ MaxPendingBytes # 0 => tx.pending_bytes <= MaxPendingBytes
    /\ \A m \in tx.pending : tx.fd[m] = tx.socket_pin

\* A callback runs once, and never changes its mind: no path of reap, drop or
\* destroy reports a message that another has reported (complete_message).
CompletedOnce ==
    [][\A m \in Messages : tx.outcome[m] # "none" => tx'.outcome[m] = tx.outcome[m]]_vars

\* A message reported sent is wholly on the stream, and one discarded to be
\* replaced (message_is_replaceable) never put a byte there.
OutcomeMatchesWire ==
    \A m \in Messages :
        /\ tx.outcome[m] = "sent" => tx.wire[m] = tx.total_size[m]
        /\ tx.outcome[m] = "dropped" => tx.wire[m] = 0

\* The byte stream is a sequence of whole frames: no byte of a message follows
\* an incomplete earlier one, unless that one was reported failed, after which
\* the owner shuts the socket down (wd_server_reap_and_sample_async_locked).
Framing ==
    \A m, k \in Messages :
        m < k /\ tx.wire[k] > 0 /\ tx.wire[m] \in 1 .. (tx.total_size[m] - 1)
            => tx.outcome[m] = "failed"

\* Every queued message is eventually reported: the reaps of the frame timer
\* drive the ring and the fallback, or destroy fails what they leave.
EventuallyReported ==
    \A m \in Messages : m < next_id ~> tx.outcome[m] # "none"

============================================================================
