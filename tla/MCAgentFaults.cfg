SPECIFICATION Spec
CONSTANTS
  None = None
  Apps = {a1}
  Progs = {p1,p2}
  Points = {x1}
  Silent = {}
  StateIds = {s1,s2}
  ProgIds = {1,2,3,4}
  LinkIds = {1,2,3}
  Faults = {"crash","timeout","write","load","attach","detach","unload","reply","get","lost","links","netns","select","points","proglist","retype","duplicate","selector"}
  MaxFaults = 1
  MaxCreates = 1
  MaxEdits = 1
  MaxUpdates = 5
INVARIANTS FinalizerGuardsPrograms ProgramListErrorIsTrue
PROPERTY ImplementsContract
SYMMETRY NameSymmetry
CHECK_DEADLOCK FALSE
