SPECIFICATION ResyncSpec
CONSTANTS
  None = None
  Apps = {a1}
  Progs = {p1}
  Points = {x1,x2}
  Silent = {x2}
  StateIds = {s1}
  ProgIds = {1,2,3}
  LinkIds = {1,2,3,4,5}
  Faults = {"load","attach","detach","unload","get","links","netns","lost","points"}
  MaxFaults = 1
  MaxCreates = 1
  MaxEdits = 1
  MaxUpdates = 6
PROPERTIES Converges DeletedGoes
CHECK_DEADLOCK FALSE
