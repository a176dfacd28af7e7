\* What several people change at once, liveness: smaller instances under fairness.
CONSTANTS
  Parts = {"record", "feed", "lease", "board", "import", "session", "contract", "app"}
  None = None
  NoOne = NoOne
  NoScope = NoScope
  NoUserForm = NoUserForm
  Nothing = Nothing
  t1 = t1
  t2 = t2
  c1 = c1
  c2 = c2
  p1 = p1
  p2 = p2
  Tabs = {t1, t2}
  Fields = {"a"}
  Values = {0, 1}
  MaxVersion = 3
  Backlog = 1
  MaxFlight = 1
  Campers = {c1}
  Units = {"n1"}
  Days = 3
  MaxMoves = 2
  MaxElsewhere = 1
  RecordKinds <- DeclaredKinds
  Names = {"x", "y"}
  Templated = {"types"}
  Root = "r"
  NodeKeys = {"r", "a", "b", "c"}
  Under <- DeclaredUnder
  Samples = {"s"}
  MaxRuns = 2
  OpenTabs = {"tab1"}
  MaxTurns = 2
  Users = {"ann", "ben"}
  Members = {"ann", "ben"}
  Texts = {"x"}
  MaxVersions = 1
  MaxDrafts = 1
  MaxRevisions = 1
  Pages = {p1}
  MaxRevokes = 1
  MaxRuleSaves = 3
  MaxAsks = 3
  MaxLinks = 1
SPECIFICATION PartsSpec
INVARIANTS
  ImportIsWhole
PROPERTIES
  EditsSettle
  ChangesArrive
  NothingIsLeftWaiting
CHECK_DEADLOCK FALSE
