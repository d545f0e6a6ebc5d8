CONSTANTS
  Parts = {"windows", "input", "selection"}
  t1 = t1
  t2 = t2
  x1 = x1
  x2 = x2
  p1 = p1
  p2 = p2
  NoView = NoView
  Toplevels = {t1, t2}
  X11Windows = {x1, x2}
  Unmanaged = {x2}
  Popups = {p1, p2}
  WindowScenarios <- MCWindowScenarios
  CtrlKey = CtrlKey  AltKey = AltKey  VKey = VKey
  LeftButton = LeftButton  RightButton = RightButton  MiddleButton = MiddleButton
  UnmappedKeys = {fn}
  KeyQueueMax = 2
  PointerQueueMax = 2
  SessionMax = 2
  InputScenarios <- MCInputScenarios
  Unreadable = Unreadable
  NoText = NoText
  SelectionScenarios <- MCSelectionScenarios
SPECIFICATION DeskSpec
INVARIANTS WindowRefsLive FocusHeld NothingStuck OneSessionsInput PasteSeesItsText NoEcho
PROPERTIES ChangesAreDamage 
