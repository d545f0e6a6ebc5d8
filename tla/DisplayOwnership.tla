-------------------------- MODULE DisplayOwnership --------------------------
(***************************************************************************)
(* What the server promises the client about the ownership of its display. *)
(*                                                                         *)
(* The display belongs to the tiles or to the video stream.  Content is    *)
(* labelled with an epoch; an epoch has one owner for its whole life, so a *)
(* client that sees the epoch of a message knows which kind of content may *)
(* follow.  The video channel carries data frames of epochs the video owns *)
(* and end-of-stream frames (id 0) of epochs the tiles own, in the order   *)
(* of the epochs; data frames of one epoch carry increasing ids.           *)
(***************************************************************************)
EXTENDS Integers, Sequences

VARIABLES
    epoch,       \* the current content epoch
    video_owns,  \* whether the video owns it
    stream,      \* queued video messages, records [epoch, frame_id]
    last_frame   \* the last data frame queued

ownership_vars == <<epoch, video_owns, stream, last_frame>>

Frame == [epoch: Nat, frame_id: Nat]

OwnershipInit ==
    /\ epoch = 0 /\ video_owns = FALSE
    /\ stream = <<>>
    /\ last_frame = [epoch |-> 0, frame_id |-> 0]

\* An epoch is never taken back, and never changes its owner.
EpochStep ==
    /\ epoch' \in Nat /\ video_owns' \in BOOLEAN
    /\ epoch' >= epoch
    /\ epoch' = epoch => video_owns' = video_owns

\* What may remain queued: the head leaves by being sent, a reset keeps at most
\* the head.
Remainders ==
    {stream, <<>>} \cup (IF stream = <<>> THEN {} ELSE {Tail(stream), <<Head(stream)>>})

\* f follows g on the channel.
Follows(f, g) == f.epoch > g.epoch \/ (f.epoch = g.epoch /\ f.frame_id > g.frame_id)

\* A message of the epoch this step establishes (or leaves alone), of the kind
\* that the owner of the epoch sends.
FrameQueued(kept, f) ==
    /\ f \in Frame
    /\ f.epoch = epoch'
    /\ video_owns' = (f.frame_id # 0)
    /\ stream' = Append(kept, f)
    /\ IF f.frame_id = 0 THEN last_frame' = last_frame
       ELSE last_frame' = f /\ Follows(f, last_frame)

OwnershipNext ==
    /\ EpochStep
    /\ \E kept \in Remainders :
          \/ stream' = kept /\ last_frame' = last_frame
          \/ Len(stream') = Len(kept) + 1 /\ FrameQueued(kept, stream'[Len(stream')])

OwnershipSpec == OwnershipInit /\ [][OwnershipNext]_ownership_vars
=============================================================================
