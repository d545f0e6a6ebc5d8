----------------------------- MODULE InputPath -----------------------------
(***************************************************************************)
(* A key or button edge on its way from the viewer's window to the seat:   *)
(* the SDL thread of the client (what it forwards, the paste gestures, the *)
(* context menu, loss of focus), the input and the selection channel, the  *)
(* server's network thread with its bounded queues, and the compositor     *)
(* thread, which drains keyboard, clipboard and pointer one after the      *)
(* other, each with a copy taken under net.lock and used after it.         *)
(* Texts are numbered by the gesture that sent them; where a pointer event *)
(* lands is a choice.                                                      *)
(***************************************************************************)
EXTENDS Integers, Sequences, FiniteSets, SequencesExt

CONSTANTS CtrlKey, AltKey, VKey,         \* scancodes with a meaning of their own
          LeftButton, RightButton, MiddleButton,
          UnmappedKeys,                  \* scancodes outside the client's table
          KeyQueueMax, PointerQueueMax,  \* the server's two queues
          SessionMax,                    \* bound on the number of sessions
          InputScenarios                 \* what the user, the network and the windows may do

VARIABLES script,  \* the scenario of this behaviour: constant
          user,    \* what is held down on the desk of the user
          viewer,  \* the SDL thread: forwarded edges, suppressed releases, menu
          inputCh, selectCh,  \* the two client-to-server channels
          link,    \* server->net: session, queues, pending texts and flags
          comp,    \* the compositor thread between two of its drains
          seat,    \* what the applications see: held keys and buttons, selections
          left     \* what may still happen

inputVars == <<script, user, viewer, inputCh, selectCh, link, comp, seat, left>>

NoGrab == [kind |-> "none", button |-> LeftButton]

\* A scancode of the client's table stands for its evdev code: the table maps
\* no two of them to one code.
KeyOf(k, down, s) == [kind |-> "key", code |-> k, down |-> down, sess |-> s]
Pointer(kind, b, down, s, text) == [kind |-> kind, code |-> b, down |-> down, sess |-> s, text |-> text]
ButtonOf(b, down, s) == Pointer("button", b, down, s, 0)

NewViewer(on) == [on |-> on, keys |-> {}, buttons |-> {}, vUp |-> FALSE, midUp |-> FALSE,
                  menu |-> "closed", focused |-> TRUE]

\* Queues, texts and flags as install and disconnect leave them.
NewLink(s, seq) ==
    [sess |-> s, keyq |-> <<>>, ptrq |-> <<>>, keyReset |-> TRUE, ptrReset |-> TRUE,
     clip |-> 0, paste |-> 0, primary |-> 0, corr |-> 0, wake |-> FALSE, last |-> seq]

IdleComp == [at |-> "idle", events |-> <<>>, reset |-> FALSE, clip |-> 0, paste |-> 0, primary |-> 0]

InputInit ==
    /\ script \in InputScenarios
    /\ user = [keys |-> {}, buttons |-> {}]
    /\ viewer = NewViewer(TRUE)
    /\ inputCh = <<>> /\ selectCh = <<>>
    /\ link = [NewLink(1, 1) EXCEPT !.keyReset = FALSE, !.ptrReset = FALSE]
    /\ comp = IdleComp
    /\ seat = [keys |-> {}, buttons |-> <<>>, grab |-> NoGrab, held |-> 0, clip |-> 0, primary |-> 0,
               pasted |-> [text |-> 0, shown |-> 0], clicked |-> [text |-> 0, shown |-> 0], lost |-> {}]
    /\ left = [events |-> script.events, ticks |-> script.ticks, texts |-> 1]

Can(what) == what \in script.may

(***************************************************************************)
(* The viewer.  An edge is physical first; what the SDL thread does with   *)
(* it depends on the focus, the menu and what it has forwarded.            *)
(***************************************************************************)
Flip(set, x) == IF x \in set THEN set \ {x} ELSE set \cup {x}

\* A user event is charged to the budget of the scenario.
UserEvent == left.events > 0 /\ left' = [left EXCEPT !.events = @ - 1]

Listening == viewer.on /\ viewer.focused

\* Releases of everything forwarded, in the order of the tables.
KeyReleases == SetToSeq({KeyOf(k, FALSE, link.last) : k \in viewer.keys})
ButtonReleases == SetToSeq({ButtonOf(b, FALSE, link.last) : b \in viewer.buttons})

ForgetKeys(v) == [v EXCEPT !.keys = {}, !.vUp = FALSE, !.midUp = FALSE]

\* release_forwarded_input_state: keyboard, then pointer.
ReleaseForwarded ==
    /\ inputCh' = inputCh \o KeyReleases \o ButtonReleases
    /\ viewer' = [ForgetKeys(viewer) EXCEPT !.buttons = {}, !.focused = FALSE]

ChordHeld == {CtrlKey, AltKey} \subseteq user.keys

\* An edge the modal menu consumes; a release among them never reaches the
\* server (history: lost).
Swallow(released) ==
    /\ seat' = IF released THEN [seat EXCEPT !.lost = @ \cup {"menu"}] ELSE seat
    /\ UNCHANGED <<inputCh, selectCh>>

\* Ctrl+V: the clipboard text and the paste request go out on the selection
\* channel; the V key itself stays here, and so does its release.
SendPaste ==
    /\ selectCh' = selectCh \o <<[kind |-> "clip", text |-> left.texts], [kind |-> "paste", text |-> left.texts]>>
    /\ left' = [left EXCEPT !.events = @ - 1, !.texts = @ + 1]
    /\ viewer' = [viewer EXCEPT !.vUp = TRUE]
    /\ UNCHANGED <<inputCh, seat>>

\* The host has no text to paste: nothing is sent, and nothing suppressed.
NoHostText == Can("notext") /\ UserEvent /\ UNCHANGED <<viewer, inputCh, selectCh, seat>>

ForwardKey(k, down) ==
    /\ inputCh' = Append(inputCh, KeyOf(k, down, link.last))
    /\ viewer' = [viewer EXCEPT !.keys = Flip(@, k)]
    /\ UNCHANGED <<selectCh, seat>>

\* SDL_EVENT_KEY_DOWN and SDL_EVENT_KEY_UP of one key.
KeyEvent(k) ==
    LET down == k \notin user.keys IN
    /\ k \in script.keys
    /\ left.events > 0
    /\ user' = [user EXCEPT !.keys = Flip(@, k)]
    /\ IF ~Listening \/ k \in UnmappedKeys
       THEN UserEvent /\ UNCHANGED <<viewer, inputCh, selectCh, seat>>
       ELSE CASE viewer.menu = "editing" -> UserEvent /\ Swallow(~down) /\ UNCHANGED viewer
              [] viewer.menu # "editing" /\ k = VKey /\ down /\ CtrlKey \in user.keys -> SendPaste \/ NoHostText
              [] viewer.menu # "editing" /\ k = VKey /\ ~down /\ viewer.vUp ->
                   UserEvent /\ viewer' = [viewer EXCEPT !.vUp = FALSE] /\ UNCHANGED <<inputCh, selectCh, seat>>
              [] OTHER -> UserEvent /\ IF down = (k \in viewer.keys)
                                       THEN UNCHANGED <<viewer, inputCh, selectCh, seat>>
                                       ELSE ForwardKey(k, down)
    /\ UNCHANGED <<script, link, comp>>

\* Ctrl+Alt+Right: the forwarded keys are released, the buttons are not.
OpenMenu ==
    /\ inputCh' = inputCh \o KeyReleases
    /\ viewer' = [ForgetKeys(viewer) EXCEPT !.menu = "open"]
    /\ UNCHANGED <<selectCh, seat>>

\* Middle press: primary text and click travel together on the selection channel.
SendPrimaryPaste ==
    /\ selectCh' = selectCh \o <<[kind |-> "primary", text |-> left.texts], [kind |-> "click", text |-> left.texts]>>
    /\ left' = [left EXCEPT !.events = @ - 1, !.texts = @ + 1]
    /\ viewer' = [viewer EXCEPT !.midUp = TRUE]
    /\ UNCHANGED <<inputCh, seat>>

ForwardButton(b, down) ==
    /\ inputCh' = Append(inputCh, ButtonOf(b, down, link.last))
    /\ viewer' = [viewer EXCEPT !.buttons = Flip(@, b)]
    /\ UNCHANGED <<selectCh, seat>>

\* A click in the open menu closes it, keeps it (right or middle on an item)
\* or starts the command prompt (left on the launch item).
MenuClick(b, down) ==
    /\ Swallow(~down)
    /\ IF viewer.menu = "open" /\ down
       THEN \E m \in {"closed", IF b = LeftButton THEN "editing" ELSE "open"} : viewer' = [viewer EXCEPT !.menu = m]
       ELSE UNCHANGED viewer

\* SDL_EVENT_MOUSE_BUTTON_DOWN and _UP of one button.
ButtonEvent(b) ==
    LET down == b \notin user.buttons IN
    /\ b \in script.buttons
    /\ left.events > 0
    /\ user' = [user EXCEPT !.buttons = Flip(@, b)]
    /\ IF ~Listening
       THEN UserEvent /\ UNCHANGED <<viewer, inputCh, selectCh, seat>>
       ELSE CASE down /\ b = RightButton /\ ChordHeld -> UserEvent /\ OpenMenu
              [] viewer.menu # "closed" /\ ~(down /\ b = RightButton /\ ChordHeld) -> UserEvent /\ MenuClick(b, down)
              [] viewer.menu = "closed" /\ b = MiddleButton /\ down -> SendPrimaryPaste \/ NoHostText
              [] viewer.menu = "closed" /\ b = MiddleButton /\ ~down /\ viewer.midUp ->
                   UserEvent /\ viewer' = [viewer EXCEPT !.midUp = FALSE] /\ UNCHANGED <<inputCh, selectCh, seat>>
              [] OTHER -> UserEvent /\ IF down = (b \in viewer.buttons)
                                       THEN UNCHANGED <<viewer, inputCh, selectCh, seat>>
                                       ELSE ForwardButton(b, down)
    /\ UNCHANGED <<script, link, comp>>

\* Motion and wheel, forwarded unless the menu is open.
MoveEvent(kind) ==
    /\ Can(kind) /\ UserEvent
    /\ Listening /\ viewer.menu = "closed"
    /\ inputCh' = Append(inputCh, Pointer(kind, LeftButton, FALSE, link.last, 0))
    /\ UNCHANGED <<script, user, viewer, selectCh, link, comp, seat>>

\* Escape in the menu or its prompt.
MenuEscape ==
    /\ UserEvent /\ Listening /\ viewer.menu # "closed"
    /\ viewer' = [viewer EXCEPT !.menu = "closed"]
    /\ UNCHANGED <<script, user, inputCh, selectCh, link, comp, seat>>

FocusLost ==
    /\ Can("focus") /\ UserEvent /\ Listening
    /\ ReleaseForwarded
    /\ UNCHANGED <<script, user, selectCh, link, comp, seat>>

FocusGained ==
    /\ Can("focus") /\ UserEvent /\ viewer.on /\ ~viewer.focused
    /\ viewer' = [viewer EXCEPT !.focused = TRUE]
    /\ UNCHANGED <<script, user, inputCh, selectCh, link, comp, seat>>

\* Quit, or a send that failed: the loop ends, everything forwarded is released.
ViewerStops ==
    /\ Can("quit") /\ UserEvent /\ viewer.on
    /\ inputCh' = inputCh \o KeyReleases \o ButtonReleases
    /\ viewer' = NewViewer(FALSE)
    /\ UNCHANGED <<script, user, selectCh, link, comp, seat>>

(***************************************************************************)
(* The network thread: each message is queued under net.lock and wakes the *)
(* compositor.                                                             *)
(***************************************************************************)
Full(q, max) == Len(q) >= max
Indices(q, Test(_)) == {i \in DOMAIN q : Test(q[i])}
IsMotion(e) == e.kind = "motion"
IsAxis(e) == e.kind = "axis"
IsEdge(e) == e.kind = "button"
DropFirst(q, where) == RemoveAt(q, CHOOSE i \in where : \A j \in where : i <= j)

\* wd_keyboard_queue_event_locked: a full queue drops the event, a release too.
QueueKey(n, e) == IF Full(n.keyq, KeyQueueMax) THEN n ELSE [n EXCEPT !.keyq = Append(@, e)]

\* Mutant of QueuePointer: a full queue loses the new event, whatever it is.
QueuePointerDropping(n, e) == IF Full(n.ptrq, PointerQueueMax) THEN n ELSE [n EXCEPT !.ptrq = Append(@, e)]

\* wd_pointer_queue_event_locked: motions collapse; a full queue gives up a
\* motion, then a wheel event; when it holds nothing but edges a new edge
\* empties it and has the pointer state of the session reset.
QueuePointer(n, e) ==
    LET q == n.ptrq
        spare == IF Indices(q, IsMotion) # {} THEN Indices(q, IsMotion) ELSE Indices(q, IsAxis) IN
    IF IsMotion(e) /\ q # <<>> /\ IsMotion(Last(q)) THEN [n EXCEPT !.ptrq[Len(q)] = e]
    ELSE IF ~Full(q, PointerQueueMax) THEN [n EXCEPT !.ptrq = Append(q, e)]
    ELSE IF spare # {} THEN [n EXCEPT !.ptrq = Append(DropFirst(q, spare), e)]
    ELSE IF ~IsEdge(e) THEN n
    ELSE [n EXCEPT !.ptrq = <<>>, !.ptrReset = TRUE]

\* wd_pointer_queue_click_locked: room for both halves of the click, or a reset.
QueueClick(n, text) ==
    LET q == n.ptrq
        over == Len(q) + 2 - PointerQueueMax
        edges == SelectSeq(q, IsEdge)
        room == IF over <= 0 THEN q
                ELSE IF Len(q) - Len(edges) < over THEN <<>>
                ELSE LET others == {i \in DOMAIN q : ~IsEdge(q[i])}
                         out == {i \in others : Cardinality({j \in others : j <= i}) <= over}
                     IN  [k \in 1 .. Len(q) - over |->
                            q[CHOOSE i \in DOMAIN q \ out : Cardinality({j \in DOMAIN q \ out : j <= i}) = k]]
        half(down) == Pointer("button", MiddleButton, down, n.sess, text)
    IN  [n EXCEPT !.ptrq = room \o <<half(TRUE), half(FALSE)>>,
                  !.ptrReset = @ \/ (over > 0 /\ Len(q) - Len(edges) < over)]

Serving == link.sess # 0

\* A key or pointer message of the input channel.
ReadInput ==
    /\ Serving /\ inputCh # <<>>
    /\ LET e == Head(inputCh)
           n == IF e.kind = "key" THEN QueueKey(link, e) ELSE QueuePointer(link, e)
       IN  /\ link' = [n EXCEPT !.wake = TRUE]
           /\ seat' = IF e.kind = "key" /\ ~e.down /\ Full(link.keyq, KeyQueueMax)
                      THEN [seat EXCEPT !.lost = @ \cup {"full"}] ELSE seat
    /\ inputCh' = Tail(inputCh)
    /\ UNCHANGED <<script, user, viewer, selectCh, comp, left>>

\* A message of the selection channel: texts replace each other, a paste
\* request is a flag, the middle click joins the pointer queue.
ReadSelection ==
    /\ Serving /\ selectCh # <<>>
    /\ LET m == Head(selectCh)
           n == CASE m.kind = "clip" -> [link EXCEPT !.clip = m.text]
                  [] m.kind = "primary" -> [link EXCEPT !.primary = m.text]
                  [] m.kind = "paste" -> [link EXCEPT !.paste = m.text]
                  [] m.kind = "click" -> QueueClick(link, m.text)
       IN  link' = [n EXCEPT !.wake = TRUE]
    /\ selectCh' = Tail(selectCh)
    /\ UNCHANGED <<script, user, viewer, inputCh, comp, seat, left>>

\* Mutant of EndSession: the queues are emptied, the held keys are left alone.
EndSessionQuietly ==
    /\ Serving /\ (Can("end") \/ ~viewer.on)
    /\ link' = [NewLink(0, link.last) EXCEPT !.keyReset = link.keyReset]
    /\ inputCh' = <<>> /\ selectCh' = <<>>
    /\ viewer' = NewViewer(FALSE)
    /\ UNCHANGED <<script, user, comp, seat, left>>

\* The session ends, with the viewer or under it: queues and pending texts are
\* dropped, both resets requested.  What the sockets still held is gone.
EndSession ==
    /\ Serving /\ (Can("end") \/ ~viewer.on)
    /\ link' = NewLink(0, link.last)
    /\ inputCh' = <<>> /\ selectCh' = <<>>
    /\ viewer' = NewViewer(FALSE)
    /\ UNCHANGED <<script, user, comp, seat, left>>

\* Mutant of NewSession: what is queued, and what is held, carries over.
NewSessionUnreset ==
    /\ ~Serving /\ link.last < SessionMax
    /\ link' = [link EXCEPT !.sess = link.last + 1, !.last = link.last + 1, !.keyReset = FALSE]
    /\ viewer' = NewViewer(TRUE)
    /\ seat' = [seat EXCEPT !.lost = {}]
    /\ UNCHANGED <<script, user, inputCh, selectCh, comp, left>>

\* A new connection is installed.
NewSession ==
    /\ ~Serving /\ link.last < SessionMax
    /\ link' = NewLink(link.last + 1, link.last + 1)
    /\ viewer' = NewViewer(TRUE)
    /\ seat' = [seat EXCEPT !.lost = {}]
    /\ UNCHANGED <<script, user, inputCh, selectCh, comp, left>>

(***************************************************************************)
(* The compositor thread: keyboard, clipboard, pointer, in this order, on  *)
(* a wakeup or from the frame timer.                                       *)
(***************************************************************************)

\* server_input_wakeup, or the frame timer: the keyboard queue is copied.
DrainKeys ==
    /\ comp.at = "idle"
    /\ \/ (link.wake \/ link.keyReset \/ link.ptrReset) /\ UNCHANGED left
       \/ left.ticks > 0 /\ left' = [left EXCEPT !.ticks = @ - 1]
    /\ comp' = [comp EXCEPT !.at = "keys", !.events = link.keyq, !.reset = link.keyReset]
    /\ link' = [link EXCEPT !.keyq = <<>>, !.keyReset = FALSE, !.wake = FALSE]
    /\ UNCHANGED <<script, user, viewer, inputCh, selectCh, seat>>

Codes(keys) == {x.code : x \in keys}

\* notify_key_and_modifiers: a repeated press and an unmatched release are rejected.
Inject(keys, e) ==
    IF e.down = (e.code \in Codes(keys)) THEN keys
    ELSE IF e.down THEN keys \cup {[code |-> e.code, sess |-> e.sess]}
    ELSE {x \in keys : x.code # e.code}

\* The releases of a reset, then the copied events.
InjectKeys ==
    /\ comp.at = "keys"
    /\ seat' = [seat EXCEPT !.keys = FoldLeft(Inject, IF comp.reset THEN {} ELSE @, comp.events)]
    /\ link' = IF comp.events = <<>> THEN link ELSE [link EXCEPT !.corr = Last(comp.events).sess]
    /\ comp' = [IdleComp EXCEPT !.at = "clip"]
    /\ UNCHANGED <<script, user, viewer, inputCh, selectCh, left>>

\* wd_clipboard_drain_and_apply, under the lock.
DrainClipboard ==
    /\ comp.at = "clip"
    /\ comp' = [comp EXCEPT !.at = "apply", !.clip = link.clip, !.paste = link.paste, !.primary = link.primary]
    /\ link' = [link EXCEPT !.clip = 0, !.paste = 0, !.primary = 0]
    /\ UNCHANGED <<script, user, viewer, inputCh, selectCh, seat, left>>

Newest(old, new) == IF new = 0 THEN old ELSE new

\* Synthesized V, inside Ctrl when Ctrl is not held: both end up released
\* unless Ctrl was held before.
PasteShortcut(s) ==
    [s EXCEPT !.keys = {x \in @ : x.code # VKey}, !.pasted = [text |-> comp.paste, shown |-> s.clip]]

\* Mutant of ApplyClipboard: V is synthesized before the text is published.
ApplyPasteFirst ==
    /\ comp.at = "apply"
    /\ \E focused \in BOOLEAN :
         LET s == IF comp.paste # 0 /\ focused THEN PasteShortcut(seat) ELSE seat
         IN  seat' = [s EXCEPT !.clip = Newest(@, comp.clip), !.primary = Newest(@, comp.primary)]
    /\ comp' = [IdleComp EXCEPT !.at = "pointer"]
    /\ UNCHANGED <<script, user, viewer, inputCh, selectCh, link, left>>

\* ... and after it: publish the clipboard, paste into the focused surface if
\* there is one, publish the primary selection.
ApplyClipboard ==
    /\ comp.at = "apply"
    /\ \E focused \in BOOLEAN :
         LET s == [seat EXCEPT !.clip = Newest(@, comp.clip)]
             t == IF comp.paste # 0 /\ focused THEN PasteShortcut(s) ELSE s
         IN  seat' = [t EXCEPT !.primary = Newest(@, comp.primary)]
    /\ comp' = [IdleComp EXCEPT !.at = "pointer"]
    /\ UNCHANGED <<script, user, viewer, inputCh, selectCh, link, left>>

\* pointer_release_session_state: grabs end, every held button is released.
ReleasePointer(s) == [s EXCEPT !.buttons = <<>>, !.grab = NoGrab, !.held = 0]

\* wd_pointer_drain_and_inject: the copy, and the reset it found.
DrainPointer ==
    /\ comp.at = "pointer"
    /\ comp' = [comp EXCEPT !.at = "inject", !.events = link.ptrq]
    /\ seat' = IF link.ptrReset THEN ReleasePointer(seat) ELSE seat
    /\ link' = [link EXCEPT !.ptrq = <<>>, !.ptrReset = FALSE]
    /\ UNCHANGED <<script, user, viewer, inputCh, selectCh, left>>

HeldButton(s, b) == \E i \in DOMAIN s.buttons : s.buttons[i].code = b
NoteRelease(s, b) == [s EXCEPT !.buttons = SelectSeq(@, LAMBDA x : x.code # b)]
NotePress(s, e) == IF HeldButton(s, e.code) THEN s
                   ELSE [s EXCEPT !.buttons = Append(@, [code |-> e.code, sess |-> e.sess])]

\* A release that is neither forwarded nor noted (history: lost).
Lose(s, e, why) == IF IsEdge(e) /\ ~e.down /\ HeldButton(s, e.code) THEN [s EXCEPT !.lost = @ \cup {why}] ELSE s

\* wd_pointer_begin_move, _begin_resize: the grab belongs to the button noted last.
BeginGrab(s, kind) ==
    [s EXCEPT !.grab = [kind |-> kind, button |-> IF s.buttons = <<>> THEN LeftButton ELSE Last(s.buttons).code]]

\* While a window is moved or resized only the release of the grab's button counts.
DuringGrab(s, e) ==
    IF IsEdge(e) /\ ~e.down /\ e.code = s.grab.button
    THEN [NoteRelease(s, e.code) EXCEPT !.grab = NoGrab, !.held = 0]
    ELSE Lose(s, e, "grab")

\* A press on a surface is forwarded and noted, or starts a move or a resize,
\* or is spent on a window that may not move.
PressTargets(s, e) ==
    LET forwarded == [NotePress(s, e) EXCEPT !.held = @ + 1, !.clicked =
                        IF e.text = 0 THEN @ ELSE [text |-> e.text, shown |-> s.primary]]
    IN  IF e.code # LeftButton \/ ~Can("grab") THEN {forwarded}
        ELSE LET spent == [s EXCEPT !.held = 0]
             IN  {forwarded, spent, BeginGrab(spent, "move"), BeginGrab(spent, "resize")}

OnSurface(s, e) ==
    IF ~IsEdge(e) THEN {s}
    ELSE IF e.down THEN PressTargets(s, e)
    ELSE {[NoteRelease(s, e.code) EXCEPT !.held = IF @ > 0 THEN @ - 1 ELSE 0]}

\* Outside every surface nothing is forwarded; with a button held the grabbed
\* surface is the target wherever the pointer is.
Outcomes(s, e) ==
    IF s.grab.kind # "none" THEN {DuringGrab(s, e)}
    ELSE OnSurface(s, e) \cup (IF s.held = 0 /\ Can("miss") THEN {Lose(s, e, "miss")} ELSE {})

InjectPointer ==
    /\ comp.at = "inject"
    /\ IF comp.events = <<>>
       THEN comp' = IdleComp /\ UNCHANGED <<seat, link>>
       ELSE LET e == Head(comp.events) IN
            /\ seat' \in Outcomes(seat, e)
            /\ link' = [link EXCEPT !.corr = e.sess]
            /\ comp' = [comp EXCEPT !.events = Tail(@)]
    /\ UNCHANGED <<script, user, viewer, inputCh, selectCh, left>>

\* An application asks for a move or a resize with the serial of a held button.
ClientGrab(kind) ==
    /\ Can("grab") /\ comp.at = "idle" /\ seat.held > 0 /\ seat.grab.kind = "none"
    /\ seat' = BeginGrab([seat EXCEPT !.held = 0], kind)
    /\ UNCHANGED <<script, user, viewer, inputCh, selectCh, link, comp, left>>

\* The window under the grab goes away.
TargetGone ==
    /\ Can("gone") /\ comp.at = "idle" /\ (seat.held > 0 \/ seat.grab.kind # "none")
    /\ seat' = [seat EXCEPT !.held = 0, !.grab = NoGrab]
    /\ UNCHANGED <<script, user, viewer, inputCh, selectCh, link, comp, left>>

Pending == \/ comp.at # "idle" \/ link.wake \/ link.keyReset \/ link.ptrReset
           \/ Serving /\ (inputCh # <<>> \/ selectCh # <<>> \/ ~viewer.on)

\* Nothing is on its way: the user may stop here.
InputRest == ~Pending /\ UNCHANGED inputVars

InputNext ==
    \/ \E k \in {CtrlKey, AltKey, VKey} \cup UnmappedKeys : KeyEvent(k)
    \/ \E b \in {LeftButton, RightButton, MiddleButton} : ButtonEvent(b)
    \/ \E kind \in {"motion", "axis"} : MoveEvent(kind)
    \/ MenuEscape \/ FocusLost \/ FocusGained \/ ViewerStops
    \/ ReadInput \/ ReadSelection \/ EndSession \/ NewSession
    \/ DrainKeys \/ InjectKeys \/ DrainClipboard \/ ApplyClipboard \/ DrainPointer \/ InjectPointer
    \/ \E kind \in {"move", "resize"} : ClientGrab(kind)
    \/ TargetGone \/ InputRest

InputSpec == InputInit /\ [][InputNext]_inputVars

\* Fairness: both event loops keep running; a behaviour stops only where
\* nothing is pending (the wakeup descriptor and the periodic frame timer both
\* start the drains).
InputFairSpec == InputSpec /\ ([]<>~Pending \/ []<><<TRUE>>_inputVars)

\* Nothing stays down: with everything delivered, the seat holds no key and no
\* button that the user does not hold, after any mix of pastes, focus changes,
\* queue overflow, resets and reconnections; unless a release was lost in one of
\* the four places that drop one (full key queue, modal menu, window grab, no
\* surface under the pointer).
NothingStuck ==
    ~Pending /\ seat.lost = {} =>
        /\ Codes(seat.keys) \subseteq user.keys
        /\ \A i \in DOMAIN seat.buttons : seat.buttons[i].code \in user.buttons

\* One client's input: the keys held on the seat come from one session, and so
\* do the buttons; events copied before a session ended never mix with the
\* next client's.
OneSessionsInput ==
    /\ \A x, y \in seat.keys : x.sess = y.sess
    /\ \A i, j \in DOMAIN seat.buttons : seat.buttons[i].sess = seat.buttons[j].sess

\* A synthesized Ctrl+V finds the text of its own gesture (or a newer one)
\* published.
PasteSeesItsText == seat.pasted.text <= seat.pasted.shown

\* A client that is gone holds nothing: after every end of a session the held
\* keys and buttons and an open move or resize are released in the end, unless
\* the next session begins first.
InputReleased ==
    (~Serving) ~> (Serving \/ (seat.keys = {} /\ seat.buttons = <<>> /\ seat.grab = NoGrab))

\* docs/architecture.md: input correlation is reset before the new connection
\* identity is published, so the input sequence that summaries and tiles quote
\* to a client was sent by that client.
CorrelationReset == Serving => link.corr \in {0, link.sess}

\* The comment of server_drain_pending_input: the primary selection is
\* published before a queued middle-click is injected.
PrimaryPublishedFirst == seat.clicked.text <= seat.clicked.shown
=============================================================================
