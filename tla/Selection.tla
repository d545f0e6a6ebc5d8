----------------------------- MODULE Selection -----------------------------
(***************************************************************************)
(* A selection (clipboard or primary) kept the same on both desks: the     *)
(* server's compositor captures what its applications copy and delivers it *)
(* over the selection channel; the client applies it to the host and sends *)
(* what the host copies, which the server publishes to its applications.   *)
(* The two selections share no state, so a behaviour is about one of them. *)
(*                                                                         *)
(* Texts are numbers: 0 the empty text, Unreadable one that offers no text *)
(* type or cannot be captured.  What a paste then does with the published  *)
(* text is InputPath's; the pipe an application reads it from is left out. *)
(***************************************************************************)
EXTENDS Integers, Sequences, SequencesExt

CONSTANTS Unreadable, NoText,   \* two values that are not texts
          SelectionScenarios    \* who copies what, and what may go wrong

VARIABLES
    story,    \* the scenario of this behaviour: constant
    host,     \* the client's desk: its selection, an update event not yet handled
    cl,       \* the client: what it last sent and applied, its inbox, what it is applying
    up, down, \* the selection channel, and what the server's sender holds (tx)
    tx,
    net,      \* server->net: session, text and request waiting for the compositor
    taken,    \* the compositor between taking these and applying them
    capture,  \* the read of an application's text: reads still to come
    delivery, \* wd_selection_delivery
    shown,    \* the selection the applications see and who set it
    todo      \* copies and faults still to come, and who copied last

selVars == <<story, host, cl, up, down, tx, net, taken, capture, delivery, shown, todo>>

NewClient == [on |-> TRUE, sent |-> NoText, applied |-> NoText, inbox |-> NoText, hand |-> NoText]
NoCapture == [on |-> FALSE, text |-> NoText, reads |-> 0]
NewNet(s) == [sess |-> s, text |-> NoText, request |-> FALSE]
IdleCompositor == [busy |-> FALSE, text |-> NoText, request |-> FALSE]

SelInit ==
    /\ story \in SelectionScenarios
    /\ host = [text |-> NoText, event |-> FALSE]
    /\ cl = NewClient
    /\ up = <<[kind |-> "request"]>> /\ down = <<>> /\ tx = NoText
    /\ net = NewNet(1)
    /\ taken = IdleCompositor
    /\ capture = NoCapture
    /\ delivery = [text |-> NoText, known |-> FALSE, pending |-> FALSE]
    /\ shown = [text |-> 0, owner |-> "none"]
    /\ todo = [copies |-> story.copies, pastes |-> story.pastes, faults |-> story.faults, ends |-> story.ends,
               last |-> [by |-> "none", text |-> NoText, sess |-> 0]]

\* Nothing is under way between the two desks.
AllQuiet ==
    /\ ~host.event /\ cl.inbox = NoText /\ cl.hand = NoText
    /\ up = <<>> /\ down = <<>> /\ tx = NoText
    /\ net.text = NoText /\ ~net.request /\ taken = IdleCompositor
    /\ ~capture.on /\ (delivery.known /\ delivery.pending => net.sess = 0)

\* The next copy of the story.  In a story told in turns each one waits until
\* the one before has settled.
Copies(who) ==
    /\ todo.copies # <<>> /\ Head(todo.copies).by = who
    /\ story.turns => AllQuiet
    /\ todo' = [todo EXCEPT !.copies = Tail(@),
                            !.last = [by |-> who, text |-> Head(todo.copies).text, sess |-> net.sess]]

Fault == todo.faults > 0 /\ todo' = [todo EXCEPT !.faults = @ - 1]

-----------------------------------------------------------------------------
(* The server's compositor thread. *)

MarkUnknown(d) == [d EXCEPT !.text = NoText, !.known = FALSE, !.pending = FALSE]
SetOwned(d, t) == [d EXCEPT !.text = t, !.known = TRUE, !.pending = TRUE]

RequestDelivery(d) == [d EXCEPT !.pending = @ \/ d.known]

\* An application takes the selection, or clears it: a capture under way is
\* cancelled, and the new text is read through a pipe.
AppCopies ==
    /\ ~taken.busy /\ Copies("app")
    /\ LET t == Head(todo.copies).text
       IN  /\ shown' = [text |-> t, owner |-> IF t = 0 THEN "none" ELSE "app"]
           /\ capture' = IF t \in {0, Unreadable} THEN NoCapture ELSE [on |-> TRUE, text |-> t, reads |-> story.reads]
           /\ delivery' = IF t = 0 THEN SetOwned(delivery, 0) ELSE MarkUnknown(delivery)
    /\ UNCHANGED <<story, host, cl, up, down, tx, net, taken>>

\* selection_capture_readable: a chunk, and at the end of file the text.
CaptureReadable ==
    /\ ~taken.busy /\ capture.on
    /\ IF capture.reads > 0
       THEN capture' = [capture EXCEPT !.reads = @ - 1] /\ UNCHANGED delivery
       ELSE capture' = NoCapture /\ delivery' = SetOwned(delivery, capture.text)
    /\ UNCHANGED <<story, host, cl, up, down, tx, net, taken, shown, todo>>

\* Timeout, read error, or a text that is too long or not UTF-8.
CaptureFails ==
    /\ ~taken.busy /\ capture.on /\ Fault
    /\ capture' = NoCapture
    /\ delivery' = MarkUnknown(delivery)
    /\ UNCHANGED <<story, host, cl, up, down, tx, net, taken, shown>>

\* wd_clipboard_drain_and_apply under net.lock ...
DrainSelection ==
    /\ ~taken.busy /\ (net.text # NoText \/ net.request)
    /\ taken' = [busy |-> TRUE, text |-> net.text, request |-> net.request]
    /\ net' = [net EXCEPT !.text = NoText, !.request = FALSE]
    /\ UNCHANGED <<story, host, cl, up, down, tx, capture, delivery, shown, todo>>

\* store_remote_selection: an empty text clears what the client published and
\* nothing else; a clipboard text that is already published is left alone.
StoreRemote(s, t) ==
    CASE t = NoText -> s
      [] t = 0 -> IF s.owner = "remote" THEN [text |-> 0, owner |-> "none"] ELSE s
      [] OTHER -> [text |-> t, owner |-> "remote"]

\* ... and after it.
ApplySelection ==
    /\ taken.busy
    /\ delivery' = IF taken.request THEN RequestDelivery(delivery) ELSE delivery
    /\ shown' = StoreRemote(shown, taken.text)
    /\ taken' = IdleCompositor
    /\ UNCHANGED <<story, host, cl, up, down, tx, net, capture, todo>>

\* The frame timer: a known text is queued unless one is queued already.
SendPending ==
    /\ ~taken.busy /\ net.sess # 0 /\ tx = NoText
    /\ delivery.known /\ delivery.pending
    /\ tx' = delivery.text
    /\ delivery' = [delivery EXCEPT !.pending = FALSE]
    /\ UNCHANGED <<story, host, cl, up, down, net, taken, capture, shown, todo>>

\* The sender gets the message out (AsyncTcp).
TxCompletes ==
    /\ tx # NoText
    /\ down' = Append(down, tx) /\ tx' = NoText
    /\ UNCHANGED <<story, host, cl, up, net, taken, capture, delivery, shown, todo>>

-----------------------------------------------------------------------------
(* The server's network thread. *)

ReadUp ==
    /\ net.sess # 0 /\ up # <<>>
    /\ net' = IF Head(up).kind = "request" THEN [net EXCEPT !.request = TRUE]
              ELSE [net EXCEPT !.text = Head(up).text]
    /\ up' = Tail(up)
    /\ UNCHANGED <<story, host, cl, down, tx, taken, capture, delivery, shown, todo>>

\* The session ends, the client with it.
SelSessionEnds ==
    /\ cl.on /\ todo.ends > 0
    /\ todo' = [todo EXCEPT !.ends = @ - 1]
    /\ cl' = [NewClient EXCEPT !.on = FALSE]
    /\ host' = [host EXCEPT !.event = FALSE]
    /\ net' = NewNet(0)
    /\ up' = <<>> /\ down' = <<>> /\ tx' = NoText
    /\ UNCHANGED <<story, taken, capture, delivery, shown>>

\* A new client connects; it starts by asking for the server's selection.
SelSessionBegins ==
    /\ ~cl.on
    /\ cl' = NewClient
    /\ net' = NewNet(story.ends - todo.ends + 1)
    /\ up' = <<[kind |-> "request"]>>
    /\ UNCHANGED <<story, host, down, tx, taken, capture, delivery, shown, todo>>

-----------------------------------------------------------------------------
(* The client. *)

\* store_selection_text, on the receive thread.
ReceiveSelection ==
    /\ cl.on /\ down # <<>>
    /\ cl' = [cl EXCEPT !.inbox = Head(down)]
    /\ down' = Tail(down)
    /\ UNCHANGED <<story, host, up, tx, net, taken, capture, delivery, shown, todo>>

\* drain_remote_selection_updates takes the inbox under the lock ...
TakeInbox ==
    /\ cl.on /\ cl.hand = NoText /\ cl.inbox # NoText
    /\ cl' = [cl EXCEPT !.hand = cl.inbox, !.inbox = NoText]
    /\ UNCHANGED <<story, host, up, down, tx, net, taken, capture, delivery, shown, todo>>

ShouldApply(c, t) == c.applied # t

\* Mutant of NoteApplied: the text counts as applied only.
NoteAppliedOnly(c, t) == [c EXCEPT !.applied = t]

NoteApplied(c, t) == [c EXCEPT !.applied = t, !.sent = t]

\* ... and sets the host's selection after it, if it is not what was set last.
\* SDL's own update is ignored when its event comes (event.clipboard.owner).
ApplyInbox ==
    /\ cl.on /\ cl.hand # NoText
    /\ IF ShouldApply(cl, cl.hand)
       THEN /\ host' = [host EXCEPT !.text = cl.hand]
            /\ cl' = [NoteApplied(cl, cl.hand) EXCEPT !.hand = NoText]
       ELSE /\ cl' = [cl EXCEPT !.hand = NoText]
            /\ UNCHANGED host
    /\ UNCHANGED <<story, up, down, tx, net, taken, capture, delivery, shown, todo>>

\* SDL refuses: the text goes back to the inbox unless a newer one is there.
ApplyFails ==
    /\ cl.on /\ cl.hand # NoText /\ ShouldApply(cl, cl.hand) /\ Fault
    /\ cl' = [cl EXCEPT !.hand = NoText, !.inbox = IF @ = NoText THEN cl.hand ELSE @]
    /\ UNCHANGED <<story, host, up, down, tx, net, taken, capture, delivery, shown>>

\* The user copies on the host.
HostCopies ==
    /\ Copies("host")
    /\ host' = [text |-> Head(todo.copies).text, event |-> cl.on /\ ~story.primary]
    /\ UNCHANGED <<story, cl, up, down, tx, net, taken, capture, delivery, shown>>

ShouldSend(c, t, force) == force \/ c.sent # t

\* send_host_clipboard_to_server, with the text the host has now.
SendHostText(force) ==
    IF host.text # NoText /\ ShouldSend(cl, host.text, force)
    THEN /\ up' = Append(up, [kind |-> "set", text |-> host.text, force |-> force])
         /\ cl' = [cl EXCEPT !.sent = host.text]
    ELSE UNCHANGED <<up, cl>>

\* SDL_EVENT_CLIPBOARD_UPDATE of another owner.
ClipboardUpdate ==
    /\ cl.on /\ cl.hand = NoText /\ host.event
    /\ SendHostText(FALSE)
    /\ host' = [host EXCEPT !.event = FALSE]
    /\ UNCHANGED <<story, down, tx, net, taken, capture, delivery, shown, todo>>

\* Ctrl+V or the middle button: the text goes ahead of the paste, sent or not.
UserPastes ==
    /\ cl.on /\ cl.hand = NoText /\ todo.pastes > 0
    /\ story.turns => AllQuiet
    /\ todo' = [todo EXCEPT !.pastes = @ - 1]
    /\ SendHostText(TRUE)
    /\ UNCHANGED <<story, host, down, tx, net, taken, capture, delivery, shown>>

-----------------------------------------------------------------------------
ServerSelection ==
    \/ AppCopies \/ CaptureReadable \/ CaptureFails \/ DrainSelection \/ ApplySelection
    \/ SendPending \/ TxCompletes \/ ReadUp \/ SelSessionEnds \/ SelSessionBegins

ClientSelection ==
    \/ ReceiveSelection \/ TakeInbox \/ ApplyInbox \/ ApplyFails \/ HostCopies \/ ClipboardUpdate \/ UserPastes

SelQuiet == AllQuiet /\ cl.on
SelRest == SelQuiet /\ todo.copies = <<>> /\ UNCHANGED selVars

SelNext == ServerSelection \/ ClientSelection \/ SelRest

SelSpec == SelInit /\ [][SelNext]_selVars

\* The event loops of both desks keep running.
SelFairSpec == SelSpec /\ ([]<>SelQuiet \/ []<><<TRUE>>_selVars)

-----------------------------------------------------------------------------
(* Properties. *)

CopiesBy(who) == {story.copies[i].text : i \in {j \in DOMAIN story.copies : story.copies[j].by = who}}

\* A text that came from the server is not sent back to it when the host's
\* selection changes (the paste gestures send whatever the host has): the
\* desks do not answer each other's copies.
NoEcho ==
    \A i \in DOMAIN up : up[i].kind = "set" /\ ~up[i].force => up[i].text \notin CopiesBy("app")

Contested == ~story.turns /\ CopiesBy("app") # {} /\ CopiesBy("host") # {}

Arrived ==
    LET last == todo.last
    IN  CASE last.by = "app" -> delivery.known => host.text = last.text
          [] last.by = "host" /\ last.sess = net.sess /\ ~story.primary -> shown.text = last.text
          [] OTHER -> TRUE

\* In a story told in turns, what the host copied stays its selection until
\* someone copies again.  A new session breaks it: the server still offers
\* the text it captured before it published the host's.
HostCopyStays == story.turns /\ todo.last.by = "host" => host.text = todo.last.text

\* Copies made in turns, or by one desk only, reach the other desk: once all
\* is quiet the host shows the text an application copied last, unless it
\* could not be captured, and the applications see the one the host copied
\* last in this session, whatever was cancelled, timed out, refused by SDL or
\* cut off by the end of a session on the way.
SelectionArrives == <>[](SelQuiet /\ (Contested \/ Arrived))
=============================================================================
