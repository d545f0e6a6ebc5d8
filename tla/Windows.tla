------------------------------ MODULE Windows ------------------------------
(***************************************************************************)
(* The compositor's windows: struct wd_view, its list, its focus and the   *)
(* pointers the compositor keeps to it.  A view is an xdg toplevel         *)
(* (wd_scene.c, wd_xdg_dialog.c, wd_xdg_activation.c) or an X11 window     *)
(* (wd_xwayland.c); a popup hangs off a toplevel or another popup.         *)
(*                                                                         *)
(* All of it runs on the compositor thread, one callback at a time, but    *)
(* the order of the callbacks is the applications': windows are mapped,    *)
(* minimized, reparented, made modal and destroyed while they are focused, *)
(* dragged, waiting for an idle callback or holding popups.  An action is  *)
(* one callback, with what wlroots does before it in the same request      *)
(* (a destroyed toplevel is unmapped first).                               *)
(*                                                                         *)
(* Geometry, titles, icons and decoration layout are left out: no pointer  *)
(* and no focus decision depends on them.                                  *)
(***************************************************************************)
EXTENDS Naturals, Sequences, FiniteSets, SequencesExt, FiniteSetsExt

CONSTANTS Toplevels,         \* xdg toplevels
          X11Windows,        \* Xwayland surfaces
          Unmanaged,         \* those with override_redirect
          Popups,            \* xdg popups
          NoView,            \* NULL
          WindowScenarios    \* which views, popups and requests a behaviour has

ASSUME WindowNames == /\ Unmanaged \subseteq X11Windows
                      /\ NoView \notin Toplevels \cup X11Windows \cup Popups

VARIABLES wm,      \* the compositor's record of its windows
          plan     \* the scenario of this behaviour

Views == Toplevels \cup X11Windows
wmVars == <<wm, plan>>

(***************************************************************************)
(* struct wd_view.  top, assoc, smapped and asks describe the client's     *)
(* protocol objects: whether the toplevel role exists, whether an X11      *)
(* window has an associated wl_surface and whether that is mapped, and the *)
(* parent the client asked for.                                            *)
(***************************************************************************)
NewView == [live |-> TRUE, mapped |-> FALSE, minimized |-> FALSE,
            activated |-> FALSE, parent |-> NoView, special |-> {},
            modal |-> FALSE, configured |-> FALSE, shown |-> FALSE,
            decorated |-> FALSE, inhibitor |-> "none", top |-> TRUE,
            assoc |-> FALSE, smapped |-> FALSE, asks |-> NoView]

FreeView == [NewView EXCEPT !.live = FALSE, !.top = FALSE]

(* A popup: view is its commit tracker's view, waits the view of its       *)
(* pending unconstrain callback, tree whether it has a scene subtree.      *)
FreePopup == [alive |-> FALSE, on |-> NoView, view |-> NoView,
              waits |-> NoView, tree |-> FALSE, mapped |-> FALSE]

WmInit == /\ plan \in WindowScenarios
          /\ wm = [views |-> <<>>, focused |-> NoView, surface |-> NoView,
                   move |-> NoView, resize |-> NoView, button |-> NoView,
                   dirty |-> FALSE, track |-> {}, idles |-> {}, dialogs |-> {},
                   win |-> [v \in Views |-> FreeView],
                   pop |-> [p \in Popups |-> FreePopup]]

-----------------------------------------------------------------------------
(* Helpers: each maps the compositor's state w to the state it leaves.     *)

Dirty(w) == [w EXCEPT !.dirty = TRUE]

Put(w, v, field, value) == [w EXCEPT !.win[v][field] = value]

(* view_root_surface: an xdg view has one until it is freed, an X11 view   *)
(* while it is associated.                                                 *)
HasSurface(w, v) == w.win[v].live /\ (v \in Toplevels \/ w.win[v].assoc)

(* The inhibitor of the surface that gains the focus becomes active, and   *)
(* stays so when the focus leaves.                                         *)
RefreshInhibitors(w) ==
  IF w.surface # NoView /\ w.win[w.surface].inhibitor = "inactive"
  THEN Put(w, w.surface, "inhibitor", "active")
  ELSE w

SetActivated(w, v, on) == Put(w, v, "activated", on)

ClearFocusIfView(w, v) ==
  IF w.focused = v
  THEN RefreshInhibitors([w EXCEPT !.focused = NoView, !.surface = NoView])
  ELSE w

Toggle(set, x) == IF x \in set THEN set \ {x} ELSE set \cup {x}

ClearIf(x, v) == IF x = v THEN NoView ELSE x

ClearGrabs(w, v) == [w EXCEPT !.button = ClearIf(@, v),
                              !.move   = ClearIf(@, v),
                              !.resize = ClearIf(@, v)]

RaiseView(w, v) ==
  IF Contains(w.views, v) /\ (v \in Toplevels \/ w.win[v].assoc)
  THEN Dirty([w EXCEPT !.views = Append(SelectSeq(@, LAMBDA u : u # v), v)])
  ELSE w

RaiseWithParent(w, v) ==
  LET p == w.win[v].parent
  IN  RaiseView(IF p # NoView /\ w.win[p].mapped THEN RaiseView(w, p) ELSE w, v)

(* The last mapped modal dialog of p in stacking order.                    *)
TopmostModalChild(w, p) ==
  LET at == {i \in DOMAIN w.views :
               LET c == w.win[w.views[i]]
               IN  c.parent = p /\ c.mapped /\ c.modal}
  IN  IF at = {} THEN NoView ELSE w.views[Max(at)]

FocusTarget(w, v) ==
  LET walk[n \in 0..8] ==
        IF n = 0 THEN v
        ELSE LET c == TopmostModalChild(w, walk[n - 1])
             IN  IF c = NoView THEN walk[n - 1] ELSE c
  IN  walk[8]

FocusView(w, v) ==
  LET t    == FocusTarget(w, v)
      old  == IF w.focused \notin {NoView, t}
              THEN SetActivated(w, w.focused, FALSE) ELSE w
      new  == [Put(old, t, "minimized", FALSE)
                 EXCEPT !.focused = t, !.surface = t]
  IN  IF ~w.win[v].mapped \/ ~w.win[t].mapped \/ ~HasSurface(w, t)
      THEN w
      ELSE Dirty(RaiseWithParent(RefreshInhibitors(SetActivated(new, t, TRUE)), t))

FocusCandidate(w, v, gone) ==
  /\ w.win[v].mapped
  /\ ~w.win[v].minimized
  /\ v \notin Unmanaged
  /\ v # gone

\* Mutant of FocusTopmost: only the window on top is considered.
FocusTopOnly(w, gone) ==
  LET top == {i \in DOMAIN w.views : i = Len(w.views) /\ FocusCandidate(w, w.views[i], gone)}
  IN  IF w.focused # NoView \/ top = {} THEN w ELSE FocusView(w, w.views[Max(top)])

FocusTopmost(w, gone) ==
  LET at == {i \in DOMAIN w.views : FocusCandidate(w, w.views[i], gone)}
  IN  IF w.focused # NoView \/ at = {} THEN w ELSE FocusView(w, w.views[Max(at)])

(* view_update_parent_and_position: the parent is looked up in the list.   *)
UpdateParent(w, v) ==
  Put(w, v, "parent",
      IF w.win[v].top /\ Contains(w.views, w.win[v].asks)
      THEN w.win[v].asks ELSE NoView)

(* view_track_surface_commits: the view's surface and its mapped popups'.  *)
TrackCommits(w, v) ==
  [w EXCEPT !.track = @ \cup {<<v, v>>} \cup
     {<<p, v>> : p \in {q \in Popups : w.pop[q].view = v /\ w.pop[q].mapped}}]

-----------------------------------------------------------------------------
(* Unmapping and freeing.                                                  *)

(* view_handle_unmap; wlroots then gives the children the parent's parent  *)
(* and tells view_handle_set_parent.                                       *)
HandleUnmap(w, v) ==
  LET cleared == ClearGrabs(ClearFocusIfView(
                   SetActivated(Put(w, v, "mapped", FALSE), v, FALSE), v), v)
      focused == IF w.focused = v THEN FocusTopmost(cleared, v) ELSE cleared
      asked   == {c \in Toplevels : focused.win[c].live /\ focused.win[c].asks = v}
      up      == w.win[v].asks
      moved(c) == [focused.win[c] EXCEPT !.asks = up,
                     !.parent = IF Contains(w.views, up) THEN up ELSE NoView]
  IN  Dirty([focused EXCEPT
        !.win = [c \in Views |-> IF c \in asked THEN moved(c) ELSE @[c]]])

UnmapIfMapped(w, v) == IF w.win[v].mapped THEN HandleUnmap(w, v) ELSE w

\* Mutant of ForgetPopups: the pending unconstrain callback is forgotten.
ForgetTrackersOnly(w, v) ==
  [w EXCEPT !.pop = [p \in Popups |->
     IF @[p].view = v THEN [@[p] EXCEPT !.view = NoView, !.tree = FALSE] ELSE @[p]]]

(* The view_destroy listeners of the popups' trackers and callbacks.       *)
ForgetPopups(w, v) ==
  [w EXCEPT !.pop = [p \in Popups |->
     [@[p] EXCEPT !.view = ClearIf(@, v), !.waits = ClearIf(@, v),
                  !.tree = @ /\ w.pop[p].view # v]]]

(* What both destroy handlers do: unlink the view, clear every pointer to  *)
(* it, give the focus to another window, free it.                          *)
Free(w, v) ==
  LET unlinked == [w EXCEPT
        !.views = SelectSeq(@, LAMBDA u : u # v),
        !.track = {t \in @ : t[2] # v},
        !.win   = [c \in Views |-> [@[c] EXCEPT !.parent = ClearIf(@, v)]],
        !.idles = @ \ {v}, !.dialogs = @ \ {v}]
      cleared  == ClearGrabs(ClearFocusIfView(unlinked, v), v)
      focused  == IF w.focused = v THEN FocusTopmost(cleared, v) ELSE cleared
  IN  Dirty([focused EXCEPT !.win[v] = FreeView])

-----------------------------------------------------------------------------
(* Toplevels.                                                              *)

Here(v) == v \in plan.views /\ wm.win[v].live
HasTop(v) == Here(v) /\ v \in Toplevels /\ wm.win[v].top
May(e) == e \in plan.events
States == plan.events \cap {"max", "full"}
Becomes(w) == wm' = w /\ UNCHANGED plan

NewToplevel(v) ==
  /\ v \in plan.views \cap Toplevels
  /\ ~wm.win[v].live
  /\ Becomes(TrackCommits([Put(wm, v, "live", TRUE) EXCEPT
                 !.win[v] = NewView, !.views = Append(@, v)], v))

(* view_handle_commit: the first commits schedule the initial configure.   *)
Commit(v) ==
  /\ Here(v) /\ v \in Toplevels
  /\ Becomes(Dirty([TrackCommits(wm, v) EXCEPT !.idles =
       IF wm.win[v].top /\ ~wm.win[v].configured THEN @ \cup {v} ELSE @]))

(* view_configure_idle, with the states the client asked for before it.    *)
ConfigureIdle(v) ==
  /\ v \in wm.idles
  /\ \E asked \in SUBSET States :
       LET w == [wm EXCEPT !.idles = @ \ {v}]
       IN  Becomes(IF w.win[v].configured \/ ~w.win[v].top THEN w
                   ELSE [w EXCEPT !.win[v].special = asked,
                                  !.win[v].minimized = @ /\ asked = {},
                                  !.win[v].configured = TRUE])

HandleMap(v) ==
  /\ HasTop(v) /\ wm.win[v].configured /\ ~wm.win[v].mapped
  /\ LET w == Put(Put(UpdateParent(wm, v), v, "mapped", TRUE), v, "minimized", FALSE)
     IN  Becomes(Dirty(FocusView(TrackCommits(w, v), v)))

HandleUnmapped(v) ==
  /\ HasTop(v) /\ wm.win[v].mapped
  /\ Becomes(HandleUnmap(wm, v))

(* The parents of u as their clients asked for them: wlroots refuses loops.*)
Ancestors(u) ==
  LET up[n \in 0..Cardinality(Toplevels)] ==
        IF n = 0 THEN {u}
        ELSE up[n - 1] \cup {wm.win[x].asks : x \in up[n - 1] \ {NoView}}
  IN  up[Cardinality(Toplevels)]

HandleSetParent(v) ==
  /\ May("parent") /\ HasTop(v)
  /\ \E u \in {x \in Toplevels : HasTop(x) /\ wm.win[x].mapped} \cup {NoView} :
       /\ u # wm.win[v].asks
       /\ u = NoView \/ v \notin Ancestors(u)
       /\ Becomes(Dirty(UpdateParent(Put(wm, v, "asks", u), v)))

RequestMinimize(v) ==
  /\ May("minimize") /\ HasTop(v)
  /\ LET w == ClearFocusIfView(SetActivated(Put(wm, v, "minimized", TRUE), v, FALSE), v)
     IN  Becomes(Dirty(IF wm.focused = v THEN FocusTopmost(w, v) ELSE w))

(* request_maximize and request_fullscreen: view_apply_special_state.      *)
RequestState(v) ==
  /\ HasTop(v)
  /\ \E s \in States :
       Becomes(Dirty(FocusView(
         Put(Put(wm, v, "special", Toggle(wm.win[v].special, s)), v, "minimized", FALSE), v)))

BeginMove(w, v) == IF w.win[v].special = {} THEN [w EXCEPT !.move = v] ELSE w
BeginResize(w, v) == IF w.win[v].special = {} THEN [w EXCEPT !.resize = v] ELSE w

(* request_move and request_resize need the serial of a button press that  *)
(* the view's surface holds.                                               *)
RequestMove(v) ==
  /\ HasTop(v) /\ wm.win[v].mapped /\ "full" \notin wm.win[v].special
  /\ wm.button = v
  /\ Becomes(BeginMove(FocusView(wm, v), v))

RequestResize(v) ==
  /\ HasTop(v) /\ wm.win[v].mapped /\ "full" \notin wm.win[v].special
  /\ wm.button = v
  /\ Becomes(BeginResize(FocusView(wm, v), v))

(* xdg_toplevel.destroy: unmapped first; the view lives on without a role. *)
DestroyToplevel(v) ==
  /\ HasTop(v)
  /\ Becomes(Put(Put(UnmapIfMapped(wm, v), v, "top", FALSE), v, "asks", NoView))

(* view_handle_request_activate: any surface with a mapped view.           *)
Activate(v) ==
  /\ Here(v) /\ v \in Toplevels /\ wm.win[v].mapped
  /\ Becomes(FocusView(wm, v))

-----------------------------------------------------------------------------
(* xdg-dialog and keyboard-shortcuts-inhibit.                              *)

NoteDialogState(w, v) ==
  LET u == UpdateParent(w, v)
      r == IF u.win[v].mapped THEN RaiseWithParent(u, v) ELSE u
      p == r.win[v].parent
  IN  Dirty(IF r.win[v].mapped /\ r.win[v].modal /\ p # NoView /\ r.focused = p
            THEN FocusView(r, v) ELSE r)

GetDialog(v) ==
  /\ May("dialog") /\ HasTop(v) /\ v \notin wm.dialogs
  /\ Becomes(NoteDialogState(
       Put([wm EXCEPT !.dialogs = @ \cup {v}], v, "modal", FALSE), v))

SetModal(v) ==
  /\ v \in wm.dialogs
  /\ Becomes(NoteDialogState(Put(wm, v, "modal", TRUE), v))

UnsetModal(v) ==
  /\ v \in wm.dialogs
  /\ Becomes(NoteDialogState(Put(wm, v, "modal", FALSE), v))

DestroyDialog(v) ==
  /\ v \in wm.dialogs
  /\ Becomes(NoteDialogState(
       Put([wm EXCEPT !.dialogs = @ \ {v}], v, "modal", FALSE), v))

NewInhibitor(v) ==
  /\ May("inhibit") /\ Here(v) /\ v \in Toplevels
  /\ wm.win[v].inhibitor = "none"
  /\ Becomes(RefreshInhibitors(Put(wm, v, "inhibitor", "inactive")))

DestroyInhibitor(v) ==
  /\ Here(v) /\ wm.win[v].inhibitor # "none"
  /\ Becomes(RefreshInhibitors(Put(wm, v, "inhibitor", "none")))

-----------------------------------------------------------------------------
(* Popups.                                                                 *)

(* popup_parent_view: through the parent popup's tracker or the view list. *)
ParentView(w, q) ==
  IF q \in Popups THEN w.pop[q].view
  ELSE IF Contains(w.views, q) THEN q ELSE NoView

(* A popup of an unknown parent is ignored.  One that is known gets a      *)
(* deferred unconstrain callback, a tracker and, unless its creation       *)
(* fails or its parent popup has none, a scene subtree.                    *)
NewPopup(p, q) ==
  /\ p \in plan.popups /\ ~wm.pop[p].alive
  /\ p # q
  /\ IF q \in Popups THEN wm.pop[q].alive ELSE HasTop(q)
  /\ LET v == ParentView(wm, q)
         w == [wm EXCEPT !.pop[p] = [FreePopup EXCEPT !.alive = TRUE, !.on = q]]
         t == [w EXCEPT !.pop[p].view = v, !.pop[p].waits = v]
     IN  IF v = NoView THEN Becomes(w)
         ELSE \/ Becomes(t)
              \/ /\ q \in Popups => wm.pop[q].tree
                 /\ Becomes(Dirty(TrackCommits([t EXCEPT !.pop[p].tree = TRUE], v)))

PopupIdle(p) ==
  /\ wm.pop[p].waits # NoView
  /\ LET w == [wm EXCEPT !.pop[p].waits = NoView]
     IN  Becomes(w) \/ Becomes(Dirty(w))

DirtyIfTracked(w, p) == IF w.pop[p].view # NoView THEN Dirty(w) ELSE w

(* The popup's surface maps, unmaps or is repositioned.                    *)
PopupChanges(p) ==
  /\ wm.pop[p].alive
  /\ \E on \in BOOLEAN : Becomes(DirtyIfTracked([wm EXCEPT !.pop[p].mapped = on], p))

(* wlroots destroys the popups on top of a popup first.                    *)
Above(w, p) == {q \in Popups : w.pop[q].alive /\ w.pop[q].on = p}

DestroyPopups(w, gone) ==
  [w EXCEPT !.dirty = @ \/ \E p \in gone : w.pop[p].view # NoView,
            !.track = {t \in @ : t[1] \notin gone},
            !.pop   = [p \in Popups |-> IF p \in gone THEN FreePopup ELSE @[p]]]

DestroyPopup(p) ==
  /\ wm.pop[p].alive /\ Above(wm, p) = {}
  /\ Becomes(DestroyPopups(wm, {p}))

(* view_handle_xdg_surface_destroy: final cleanup, whether or not wlroots  *)
(* has destroyed the popups by then.                                       *)
DestroySurface(v) ==
  /\ Here(v) /\ v \in Toplevels
  /\ \E first \in BOOLEAN :
       LET gone == {p \in Popups : first /\ wm.pop[p].alive /\ wm.pop[p].view = v}
           w    == DestroyPopups(UnmapIfMapped(wm, v), gone)
       IN  Becomes(ForgetPopups(Free(w, v), v))

-----------------------------------------------------------------------------
(* X11 windows.                                                            *)

IsX11(v) == Here(v) /\ v \in X11Windows
Managed(v) == v \notin Unmanaged

(* xwayland_view_mark_mapped: only when the wl_surface has a buffer.       *)
MarkMapped(w, v) ==
  LET p == IF w.win[v].asks # v /\ Contains(w.views, w.win[v].asks)
           THEN w.win[v].asks ELSE NoView
      m == [w EXCEPT !.win[v] = [@ EXCEPT !.parent = p, !.mapped = TRUE,
                                          !.minimized = FALSE, !.shown = TRUE]]
      r == IF p # NoView /\ m.win[p].mapped /\ ~m.win[p].minimized
           THEN RaiseView(m, p) ELSE m
  IN  IF ~w.win[v].assoc \/ ~w.win[v].smapped THEN w
      ELSE Dirty(IF Managed(v) THEN FocusView(r, v) ELSE RaiseView(r, v))

ClearFocusAndGrabs(w, v) == ClearGrabs(ClearFocusIfView(w, v), v)

(* handle_xwayland_surface_unmap, and the same part of dissociate.         *)
X11Unmap(w, v) ==
  LET m == [w EXCEPT !.win[v].mapped = FALSE, !.win[v].activated = FALSE,
                     !.win[v].shown = FALSE]
      c == ClearFocusAndGrabs(m, v)
  IN  Dirty(IF w.focused = v THEN FocusTopmost(c, v) ELSE c)

Associate(w, v) ==
  Dirty(MarkMapped([w EXCEPT !.win[v].assoc = TRUE,
                             !.win[v].shown = w.win[v].smapped /\ ~w.win[v].minimized], v))

Dissociate(w, v) ==
  IF w.win[v].assoc
  THEN [X11Unmap(w, v) EXCEPT !.win[v].assoc = FALSE, !.win[v].smapped = FALSE]
  ELSE w

NewX11(v) ==
  /\ v \in plan.views \cap X11Windows /\ ~wm.win[v].live
  /\ \E p \in {u \in X11Windows : Here(u)} \cup {NoView} :
       Becomes([wm EXCEPT !.win[v] = [NewView EXCEPT !.asks = p],
                          !.views = Append(@, v)])

(* The surface may be mapped before Xwayland associates it.                *)
X11Associate(v) ==
  /\ IsX11(v) /\ ~wm.win[v].assoc
  /\ \E on \in BOOLEAN : Becomes(Associate(Put(wm, v, "smapped", on), v))

X11Dissociate(v) ==
  /\ IsX11(v) /\ wm.win[v].assoc
  /\ Becomes(Dissociate(wm, v))

X11MapRequest(v) ==
  /\ IsX11(v)
  /\ Becomes(MarkMapped(Put(wm, v, "decorated", Managed(v)), v))

X11SurfaceMap(v) ==
  /\ IsX11(v) /\ wm.win[v].assoc /\ ~wm.win[v].smapped
  /\ Becomes(MarkMapped(Put(wm, v, "smapped", TRUE), v))

X11SurfaceUnmap(v) ==
  /\ IsX11(v) /\ wm.win[v].smapped
  /\ Becomes(X11Unmap(Put(wm, v, "smapped", FALSE), v))

Shows(w, v) == w.win[v].assoc /\ w.win[v].mapped /\ w.win[v].smapped

\* Mutant of SetMinimized: the scene is not marked dirty.
SetMinimizedQuietly(w, v, on) ==
  LET m == [w EXCEPT !.win[v].minimized = on,
                     !.win[v].shown = Shows(w, v) /\ ~on]
  IN  IF on /\ w.focused = v THEN FocusTopmost(ClearFocusAndGrabs(m, v), v)
      ELSE IF ~on THEN FocusView(m, v) ELSE m

SetMinimized(w, v, on) ==
  LET m == [w EXCEPT !.win[v].minimized = on,
                     !.win[v].shown = Shows(w, v) /\ ~on]
  IN  Dirty(IF on /\ w.focused = v
            THEN FocusTopmost(ClearFocusAndGrabs(m, v), v)
            ELSE IF ~on THEN FocusView(m, v) ELSE m)

ApplySpecialState(w, v, now) ==
  Dirty(FocusView(Put(Put(w, v, "special", now), v, "minimized", FALSE), v))

X11RequestMinimize(v) ==
  /\ May("minimize") /\ IsX11(v)
  /\ \E on \in BOOLEAN : Becomes(SetMinimized(wm, v, on))

X11RequestState(v) ==
  /\ IsX11(v)
  /\ \E s \in States :
       Becomes(ApplySpecialState(wm, v, Toggle(wm.win[v].special, s)))

X11RequestMove(v) ==
  /\ May("grab") /\ IsX11(v) /\ wm.win[v].mapped /\ wm.win[v].special = {}
  /\ Becomes(BeginMove(FocusView(wm, v), v))

X11RequestResize(v) ==
  /\ May("grab") /\ IsX11(v) /\ wm.win[v].mapped /\ wm.win[v].special = {}
  /\ Becomes(BeginResize(FocusView(wm, v), v))

(* The window's own commits and configure requests only mark damage.       *)
X11Commit(v) ==
  /\ IsX11(v) /\ wm.win[v].assoc
  /\ Becomes(Dirty(wm))

(* Xwayland dissociates the surface first; it also forgets the parent of   *)
(* the window's children.                                                  *)
X11Destroy(v) ==
  /\ IsX11(v)
  /\ LET w == Free(Dissociate(wm, v), v)
     IN  Becomes([w EXCEPT !.win =
           [c \in Views |-> [@[c] EXCEPT !.asks = ClearIf(@, v)]]])

-----------------------------------------------------------------------------
(* The pointer, as wd_pointer_drain_and_inject uses the windows.           *)

Visible(w, v) == IF v \in Toplevels THEN w.win[v].mapped
                 ELSE w.win[v].shown /\ w.win[v].smapped

(* The surface under the pointer, or the one that holds the button grab.   *)
Target(v) == IF wm.button # NoView THEN wm.button ELSE v

MayPress(v) == /\ May("grab") /\ wm.move = NoView /\ wm.resize = NoView
                 /\ Here(v) /\ Visible(wm, v)

PressForwarded(v) ==
  /\ MayPress(v)
  /\ Becomes([FocusView(wm, Target(v)) EXCEPT !.button = Target(v)])

PressMoves(v) ==
  /\ MayPress(v)
  /\ Becomes(BeginMove([FocusView(wm, Target(v)) EXCEPT !.button = NoView], Target(v)))

PressResizes(v) ==
  /\ MayPress(v)
  /\ Becomes(BeginResize([FocusView(wm, Target(v)) EXCEPT !.button = NoView], Target(v)))

(* wd_xwayland_view_handle_decoration_press: title bar and its buttons.    *)
DecorationPress(v) ==
  /\ MayPress(v) /\ wm.button = NoView
  /\ wm.win[v].decorated /\ "full" \notin wm.win[v].special
  /\ LET w == FocusView(wm, v)
     IN  \/ Becomes(w)
         \/ Becomes(ApplySpecialState(w, v, Toggle(w.win[v].special, "max")))
         \/ Becomes(SetMinimized(w, v, TRUE))
         \/ Becomes(BeginMove(w, v))

Released(w) == IF w.move # NoView THEN Dirty([w EXCEPT !.move = NoView])
               ELSE IF w.resize # NoView THEN Dirty([w EXCEPT !.resize = NoView])
               ELSE w

ButtonReleased ==
  /\ wm.move # NoView \/ wm.resize # NoView \/ wm.button # NoView
  /\ Becomes([Released(wm) EXCEPT !.button = NoView])

(* A frame is rendered: wd_server_clear_scene_damage.                      *)
Render == wm.dirty /\ Becomes([wm EXCEPT !.dirty = FALSE])

-----------------------------------------------------------------------------
ToplevelNext(v) ==
  \/ NewToplevel(v) \/ Commit(v) \/ ConfigureIdle(v)
  \/ HandleMap(v) \/ HandleUnmapped(v) \/ HandleSetParent(v)
  \/ RequestMinimize(v) \/ RequestState(v)
  \/ RequestMove(v) \/ RequestResize(v)
  \/ DestroyToplevel(v) \/ DestroySurface(v) \/ Activate(v)
  \/ GetDialog(v) \/ SetModal(v) \/ UnsetModal(v) \/ DestroyDialog(v)
  \/ NewInhibitor(v) \/ DestroyInhibitor(v)

X11Next(v) ==
  \/ NewX11(v) \/ X11Associate(v) \/ X11Dissociate(v) \/ X11MapRequest(v)
  \/ X11SurfaceMap(v) \/ X11SurfaceUnmap(v) \/ X11Commit(v) \/ X11Destroy(v)
  \/ X11RequestMinimize(v) \/ X11RequestState(v)
  \/ X11RequestMove(v) \/ X11RequestResize(v) \/ DecorationPress(v)

PopupNext(p) ==
  \/ \E q \in Toplevels \cup Popups : NewPopup(p, q)
  \/ PopupIdle(p) \/ PopupChanges(p) \/ DestroyPopup(p)

PointerNext ==
  \/ \E v \in Views : PressForwarded(v) \/ PressMoves(v) \/ PressResizes(v)
  \/ ButtonReleased

WmNext == \/ \E v \in Toplevels : ToplevelNext(v)
          \/ \E v \in X11Windows : X11Next(v)
          \/ \E p \in Popups : PopupNext(p)
          \/ PointerNext
          \/ Render

WmSpec == WmInit /\ [][WmNext]_wmVars

-----------------------------------------------------------------------------
LiveViews == {v \in Views : wm.win[v].live}

(* Every pointer the compositor keeps to a view, from the focus, the       *)
(* grabs, a child, a commit tracker, a popup's tracker or callback, an     *)
(* idle configure or a dialog resource, points at a view that is still     *)
(* allocated and in the list, whatever order windows, popups and dialogs   *)
(* are destroyed in (view_handle_xdg_surface_destroy,                      *)
(* handle_xwayland_surface_destroy).                                       *)
WindowRefsLive ==
  /\ ToSet(wm.views) = LiveViews /\ Len(wm.views) = Cardinality(LiveViews)
  /\ {wm.focused, wm.surface, wm.move, wm.resize, wm.button}
       \cup {wm.win[v].parent : v \in Views}
       \cup {wm.pop[p].view : p \in Popups} \cup {wm.pop[p].waits : p \in Popups}
       \cup {t[2] : t \in wm.track} \cup wm.idles \cup wm.dialogs
     \subseteq LiveViews \cup {NoView}
  /\ wm.surface # NoView => HasSurface(wm, wm.surface)

(* The keyboard is never left without a window while one could take it:    *)
(* when nothing is focused, no mapped managed window is unminimized; the   *)
(* focused window is mapped and activated, and its shortcuts inhibitor, if *)
(* it has one, has been activated (wd_scene_focus_view,                    *)
(* wd_scene_focus_topmost).                                                *)
FocusHeld ==
  /\ wm.focused = NoView =>
       \A v \in LiveViews \ Unmanaged : ~wm.win[v].mapped \/ wm.win[v].minimized
  /\ wm.focused # NoView =>
       /\ wm.win[wm.focused].mapped /\ wm.win[wm.focused].activated
       /\ wm.win[wm.focused].inhibitor # "inactive"

(* What is on the screen: the visible windows in stacking order and the    *)
(* popups with a scene subtree.                                            *)
OnScreen == [windows |-> SelectSeq(wm.views, LAMBDA v : Visible(wm, v)),
             popups  |-> {p \in Popups : wm.pop[p].tree /\ wm.pop[p].mapped}]

(* A callback that changes what is on the screen marks the scene dirty, so *)
(* that the change is rendered and streamed even when the application      *)
(* never commits again.                                                    *)
ChangesAreDamage == [][OnScreen' # OnScreen => wm'.dirty]_wmVars

(* An X11 window whose surface is mapped and that is not minimized is      *)
(* enabled in the scene, as wd_xwayland_should_show has it.                *)
X11Shown == \A v \in X11Windows :
  wm.win[v].live => (wm.win[v].shown <=> (Shows(wm, v) /\ ~wm.win[v].minimized))

=============================================================================
