------------------------------ MODULE Summary -------------------------------
(***************************************************************************)
(* Tile-generation summaries (src/src/server/wd_stream.c) over the control *)
(* channel's AsyncTcp sender.  A summary tells the client the generation   *)
(* of every tile, or of the tiles marked dirty since they were last told,  *)
(* so that it can ask for what it is missing.  At most one is to be queued *)
(* at a time: the server counts the sends that are outstanding and, while  *)
(* there are some, drops a queued summary before it builds another.        *)
(*                                                                         *)
(* The epoch identity of a completion (connection, configuration, content  *)
(* and framebuffer, and the summary_epoch) is one number: a completion     *)
(* only ever asks whether all of them are still the current ones.          *)
(***************************************************************************)
EXTENDS AsyncTcp

CONSTANTS
    Tiles,          \* base tiles
    SummaryType,    \* WD_MSG_TILE_GENERATION_SUMMARY
    SummarySize,    \* wire size of a summary
    MaxGeneration,  \* bound: generations of a tile
    MaxEpoch        \* bound: epochs of a behaviour

ASSUME SummaryAssumption ==
    /\ SummaryType \in Types
    /\ SummarySize \in Sizes
    /\ {MaxGeneration, MaxEpoch} \subseteq Nat

VARIABLES
    epoch,                        \* the identity completions are compared with
    generation,                   \* generation last sent of each tile
    summary_dirty_tiles,          \* tiles whose generation is still to be told
    summary_async_pending_count,  \* summaries counted as outstanding
    summary_async_pending_full,   \* ... one of them a full summary
    completion,                   \* completion record of each queued summary
    stamped,                      \* history: tiles sent in this epoch
    told                          \* history: generations the client was sent

tile_vars == <<epoch, generation, stamped>>
count_vars == <<summary_async_pending_count, summary_async_pending_full>>
summary_vars == <<vars, tile_vars, summary_dirty_tiles, count_vars, completion, told>>

\* A summary's completion record: the entries it carries and their epoch.
NoCompletion == [async_pending |-> FALSE, epoch |-> 0, entries |-> <<>>]

-----------------------------------------------------------------------------
(* Completion callbacks: those of the summaries whose outcome the sender     *)
(* reports between s and r.                                                  *)

Completed(s, r) ==
    {m \in Messages : r.type[m] = SummaryType /\ s.outcome[m] = "none" /\ r.outcome[m] # "none"}

\* Mutant of Confirmed: an older generation clears the mark.
ConfirmedOutdated(s, r) ==
    {t \in Tiles : \E m \in Completed(s, r) :
        /\ r.outcome[m] = "sent"
        /\ completion[m].epoch = epoch
        /\ t \in DOMAIN completion[m].entries}

\* Tiles whose entry arrived in the current epoch and is still the latest.
Confirmed(s, r) ==
    {t \in Tiles : \E m \in Completed(s, r) :
        /\ r.outcome[m] = "sent"
        /\ completion[m].epoch = epoch
        /\ t \in DOMAIN completion[m].entries
        /\ completion[m].entries[t] = generation[t]}

Retired(s, r) == {m \in Completed(s, r) : completion[m].async_pending}

CountAfter(s, r) ==
    LET n == Cardinality(Retired(s, r))
    IN  IF summary_async_pending_count >= n THEN summary_async_pending_count - n ELSE 0

FullAfter(s, r) ==
    summary_async_pending_full /\ (Retired(s, r) = {} \/ CountAfter(s, r) # 0)

\* What the client has been sent of tile t in this epoch.
ToldAfter(s, r) ==
    [t \in Tiles |->
        LET news == {m \in Completed(s, r) : /\ r.outcome[m] = "sent"
                                             /\ completion[m].epoch = epoch
                                             /\ t \in DOMAIN completion[m].entries}
        IN  Max({told[t]} \cup {completion[m].entries[t] : m \in news})]

Callbacks(s, r) ==
    /\ summary_dirty_tiles' = summary_dirty_tiles \ Confirmed(s, r)
    /\ summary_async_pending_count' = CountAfter(s, r)
    /\ summary_async_pending_full' = FullAfter(s, r)
    /\ told' = ToldAfter(s, r)

-----------------------------------------------------------------------------
(* Sending a summary.                                                        *)

\* The early returns taken while summaries are counted as outstanding: a
\* delta waits for a full one, and a summary that cannot be dropped any more
\* goes first.
DeltaWaits(full) == summary_async_pending_count # 0 /\ ~full /\ summary_async_pending_full

Coalesced == IF summary_async_pending_count # 0 THEN Dropped(tx, SummaryType) ELSE {tx}

Unsent(s) == {m \in s.pending : s.type[m] = SummaryType}

\* The tiles of a summary, the callbacks of the drop having run.
Entries(full, s) == IF full THEN Tiles ELSE summary_dirty_tiles \ Confirmed(tx, s)

\* The drop was all: a summary remains, there is nothing to tell, the control
\* budget is spent, there is no memory, or the sender refuses the message.
SummaryNotSent(full) ==
    /\ phase = "open"
    /\ ~DeltaWaits(full)
    /\ \E s \in Coalesced :
          /\ \/ tx' = s
             \/ /\ summary_async_pending_count = 0 \/ Unsent(s) = {}
                /\ Entries(full, s) # {}
                /\ \E fd \in Sockets : tx' \in Rejected(s, fd)
          /\ Callbacks(tx, tx')
    /\ UNCHANGED <<next_id, phase, drains, tile_vars, completion>>

\* The count and the mark that lets the callback retire it are set after the
\* sender has taken the message; when the send has already completed by then
\* its callback has run without them.
SendSummary(full) ==
    /\ phase = "open"
    /\ next_id \in Messages
    /\ Available(tx)
    /\ ~DeltaWaits(full)
    /\ \E s \in Coalesced :
          /\ summary_async_pending_count = 0 \/ Unsent(s) = {}
          /\ Entries(full, s) # {}
          /\ \E fd \in Sockets : tx' \in Queued(s, next_id, SummaryType, SummarySize, fd)
          /\ LET c == [async_pending |-> TRUE, epoch |-> epoch,
                       entries |-> [t \in Entries(full, s) |-> generation[t]]]
                 done == tx'.outcome[next_id] = "sent"
             IN  /\ completion' = [completion EXCEPT ![next_id] = c]
                 /\ summary_dirty_tiles' = (summary_dirty_tiles \ Confirmed(tx, tx'))
                                              \ (IF done THEN Entries(full, s) ELSE {})
                 /\ told' = [t \in Tiles |->
                               IF done /\ t \in Entries(full, s) THEN generation[t]
                               ELSE ToldAfter(tx, tx')[t]]
    /\ summary_async_pending_count' = CountAfter(tx, tx') + 1
    /\ summary_async_pending_full' = (full \/ FullAfter(tx, tx'))
    /\ next_id' = next_id + 1
    /\ UNCHANGED <<phase, drains, tile_vars>>

-----------------------------------------------------------------------------
(* The rest of the stream.                                                   *)

\* A tile's packets are all handed to UDP: the base tiles it covers get the
\* next generation above all of theirs and are marked.
TileSent(covered) ==
    LET next == 1 + Max({generation[t] : t \in covered})
    IN  /\ next <= MaxGeneration
        /\ generation' = [t \in Tiles |-> IF t \in covered THEN next ELSE generation[t]]
        /\ summary_dirty_tiles' = summary_dirty_tiles \cup covered
        /\ stamped' = stamped \cup covered
        /\ UNCHANGED <<vars, epoch, count_vars, completion, told>>

NewEpoch ==
    /\ epoch < MaxEpoch
    /\ epoch' = epoch + 1
    /\ stamped' = {}
    /\ told' = [t \in Tiles |-> 0]
    /\ UNCHANGED completion

\* Mutant of SessionPublished: the count starts afresh.
SessionForgetsCount ==
    /\ NewEpoch
    /\ tx' \in IF phase = "open" THEN Dropped(tx, SummaryType) ELSE {tx}
    /\ summary_dirty_tiles' = {}
    /\ summary_async_pending_count' = 0
    /\ summary_async_pending_full' = FALSE
    /\ UNCHANGED <<next_id, phase, drains, generation>>

\* A new session is published: nothing is marked and no summary stays queued.
SessionPublished ==
    /\ NewEpoch
    /\ tx' \in IF phase = "open" THEN Dropped(tx, SummaryType) ELSE {tx}
    /\ summary_dirty_tiles' = {}
    /\ summary_async_pending_count' = CountAfter(tx, tx')
    /\ summary_async_pending_full' = FullAfter(tx, tx')
    /\ UNCHANGED <<next_id, phase, drains, generation>>

\* A resize drops the queued summary and replaces the tile tables.
TablesReplaced ==
    /\ NewEpoch
    /\ tx' \in IF phase = "open" THEN Dropped(tx, SummaryType) ELSE {tx}
    /\ summary_dirty_tiles' = {}
    /\ generation' = [t \in Tiles |-> 0]
    /\ summary_async_pending_count' = CountAfter(tx, tx')
    /\ summary_async_pending_full' = FullAfter(tx, tx')
    /\ UNCHANGED <<next_id, phase, drains>>

\* A configuration goes to the client: an older one and a summary that are
\* still queued are dropped first; the sender may refuse the message.
SendConfig(type, size, fd) ==
    /\ phase = "open"
    /\ \E s \in UNION {Dropped(c, SummaryType) : c \in Dropped(tx, type)} :
          \/ /\ next_id \in Messages /\ Available(tx)
             /\ tx' \in Queued(s, next_id, type, size, fd)
             /\ next_id' = next_id + 1
          \/ /\ tx' \in Rejected(s, fd)
             /\ UNCHANGED next_id
    /\ Callbacks(tx, tx')
    /\ UNCHANGED <<phase, drains, tile_vars, completion>>

\* The content epoch advances; entering video also clears the marks.
ContentEpochAdvanced ==
    /\ NewEpoch
    /\ summary_dirty_tiles' \in {summary_dirty_tiles, {}}
    /\ UNCHANGED <<vars, count_vars, generation>>

\* The other uses of the control sender, its owner's teardown and the kernel.
SenderStep ==
    /\ \/ Reap
       \/ \E type \in Types \ {SummaryType}, size \in Sizes, fd \in Sockets : SendMessage(type, size, fd)
       \/ BeginDestroy \/ DrainPass \/ FinishDestroy \/ Create
       \/ KernelCompletes
    /\ Callbacks(tx, tx')
    /\ UNCHANGED <<tile_vars, completion>>

SummaryInit ==
    /\ Init
    /\ epoch = 0
    /\ generation = [t \in Tiles |-> 0]
    /\ summary_dirty_tiles = {}
    /\ summary_async_pending_count = 0
    /\ summary_async_pending_full = FALSE
    /\ completion = [m \in Messages |-> NoCompletion]
    /\ stamped = {}
    /\ told = [t \in Tiles |-> 0]

SummaryNext ==
    \/ \E full \in BOOLEAN : SendSummary(full) \/ SummaryNotSent(full)
    \/ \E covered \in (SUBSET Tiles) \ {{}} : TileSent(covered)
    \/ SessionPublished \/ TablesReplaced \/ ContentEpochAdvanced
    \/ \E type \in Types \ {SummaryType}, size \in Sizes, fd \in Sockets : SendConfig(type, size, fd)
    \/ SenderStep

SummarySpec == SummaryInit /\ [][SummaryNext]_summary_vars

-----------------------------------------------------------------------------
(* Properties.                                                               *)

\* The count never runs below the summaries still queued, through drops,
\* teardowns and new sessions, and so no two are ever queued at once
\* (the coalescing of wd_stream_send_generation_summary_kind_locked).
OneSummaryQueued ==
    /\ Cardinality(Unsent(tx)) <= 1
    /\ Cardinality(Unsent(tx)) <= summary_async_pending_count

\* Repair is not forgotten: a tile sent in this epoch stays marked until a
\* summary carrying its latest generation is wholly on the stream, whatever
\* was sent, dropped or replaced meanwhile (wd_stream_summary_completion).
RepairRemembered ==
    \A t \in stamped : t \in summary_dirty_tiles \/ told[t] = generation[t]

\* docs/threading.md: summary callbacks "always retire sender-level
\* outstanding counts": with no summary queued none is counted.
CountRetired == Unsent(tx) = {} => summary_async_pending_count = 0

============================================================================
