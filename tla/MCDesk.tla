------------------------------- MODULE MCDesk -------------------------------
(***************************************************************************)
(* The remote desktop as the compositor thread serves it: its windows, the *)
(* input that is on its way to them, and the selections it shares with the *)
(* client's desktop, each in behaviours of its own.  part says which of    *)
(* the three a behaviour is about; the others stay as they start.          *)
(***************************************************************************)
EXTENDS Windows, InputPath, Selection

CONSTANTS Parts, t1, t2, x1, x2, p1, p2

(* The windows. *)

Plan(views, popups, events) == [views |-> views, popups |-> popups, events |-> events]

MCWindowScenarios ==
  {Plan({t1, t2}, {}, {"parent", "dialog", "minimize"}),
   Plan({t1, t2}, {}, {"grab", "minimize", "full"}),
   Plan({t1, t2, x1}, {}, {"minimize"}),
   Plan({t1, x1}, {}, {"inhibit", "minimize", "max"}),
   Plan({x1, x2}, {}, {"minimize", "full"}),
   Plan({x1, x2}, {}, {"grab", "max"}),
   Plan({t1}, {p1, p2}, {}) }

MCX11Scenarios == {Plan({x1}, {}, {"minimize", "max"})}

(* The input. *)

InputPlan(keys, buttons, events, ticks, may) ==
  [keys |-> keys, buttons |-> buttons, events |-> events, ticks |-> ticks, may |-> may]

MCInputScenarios ==
  {InputPlan({CtrlKey, VKey}, {}, 5, 0, {"focus", "notext"}),
   InputPlan({CtrlKey, VKey} \cup UnmappedKeys, {}, 4, 0, {"quit", "end"}),
   InputPlan({}, {LeftButton, RightButton}, 5, 0, {"grab", "gone", "miss"}),
   InputPlan({}, {LeftButton, MiddleButton}, 4, 0, {"motion", "axis", "focus"}),
   InputPlan({CtrlKey}, {LeftButton}, 4, 0, {"end", "miss"}),
   InputPlan({CtrlKey, AltKey}, {LeftButton, RightButton}, 6, 0, {})}

MCEndScenarios == {InputPlan({CtrlKey}, {}, 1, 0, {"end"})}

MCPrimaryScenarios == {InputPlan({CtrlKey}, {MiddleButton}, 2, 1, {})}

(* The selections. *)

App(t) == [by |-> "app", text |-> t]
Host(t) == [by |-> "host", text |-> t]

Story(copies, turns, primary, reads, pastes, faults, ends) ==
  [copies |-> copies, turns |-> turns, primary |-> primary, reads |-> reads,
   pastes |-> pastes, faults |-> faults, ends |-> ends]

\* Application texts are 1 to 9, host texts from 11.
MCSelectionScenarios ==
  {Story(<<App(1), App(2), App(0)>>, FALSE, FALSE, 1, 1, 2, 1),
   Story(<<App(1), App(Unreadable), App(2)>>, FALSE, TRUE, 1, 1, 1, 1),
   Story(<<Host(11), Host(12), Host(0)>>, FALSE, FALSE, 0, 1, 0, 0),
   Story(<<App(1), Host(11), App(2)>>, FALSE, FALSE, 0, 0, 1, 1),
   Story(<<App(1), Host(11), App(2), Host(12)>>, TRUE, FALSE, 1, 1, 1, 0)}

\* A text copied again on the server after the host copied another one.
MCAgainScenarios == {Story(<<App(1), Host(11), App(1)>>, TRUE, FALSE, 0, 0, 0, 0)}

\* A host text published before the session ends.
MCStaleScenarios == {Story(<<App(1), Host(11)>>, TRUE, FALSE, 0, 0, 0, 1)}

VARIABLE part

deskVars == <<part, wmVars, inputVars, selVars>>

DeskInit ==
  /\ part \in Parts
  /\ WmInit /\ InputInit /\ SelInit
  /\ part # "windows" => plan = CHOOSE s \in WindowScenarios : TRUE
  /\ part # "input" => script = CHOOSE s \in InputScenarios : TRUE
  /\ part # "selection" => story = CHOOSE s \in SelectionScenarios : TRUE

DeskNext ==
  /\ UNCHANGED part
  /\ \/ part = "windows" /\ WmNext /\ UNCHANGED <<inputVars, selVars>>
     \/ part = "input" /\ InputNext /\ UNCHANGED <<wmVars, selVars>>
     \/ part = "selection" /\ SelNext /\ UNCHANGED <<wmVars, inputVars>>

\* The event loops keep running while input or a selection is on its way;
\* nothing is asked of the applications.
DeskFairness ==
  \/ []<>CASE part = "windows" -> TRUE
            [] part = "input" -> ~Pending
            [] part = "selection" -> SelQuiet
  \/ []<><<TRUE>>_deskVars

DeskSpec == DeskInit /\ [][DeskNext]_deskVars /\ DeskFairness

\* What is under way on the desk ends where it should: the input of a client
\* that is gone is released (InputReleased), and what one desk copies the other
\* comes to show (SelectionArrives).
DeskSettles ==
  /\ part = "input" => InputReleased
  /\ part = "selection" => SelectionArrives
=============================================================================
