\* What several people change at once, safety: two tabs, users or campers in each part.
CONSTANTS
  Parts = {"record", "feed", "lease", "board", "import", "session", "contract", "app", "rules", "account", "home", "report"}
  None = None
  NoOne = NoOne
  NoScope = NoScope
  NoUserForm = NoUserForm
  Nothing = Nothing
  t1 = t1
  t2 = t2
  c1 = c1
  c2 = c2
  p1 = p1
  p2 = p2
  Tabs = {t1, t2}
  Fields = {"a", "b"}
  Values = {0, 1}
  MaxVersion = 3
  Backlog = 2
  MaxFlight = 2
  Campers = {c1, c2}
  Units = {"n1"}
  Days = 2
  MaxMoves = 2
  MaxElsewhere = 1
  RecordKinds <- DeclaredKinds
  Names = {"x", "y"}
  Templated = {"types"}
  Root = "r"
  NodeKeys = {"r", "a", "b", "c"}
  Under <- DeclaredUnder
  Samples = {"s"}
  MaxRuns = 2
  OpenTabs = {"tab1", "tab2"}
  MaxTurns = 1
  Users = {"ann", "ben"}
  Members = {"ann", "ben"}
  Texts = {"x"}
  MaxVersions = 1
  MaxDrafts = 1
  MaxRevisions = 2
  Pages = {p1, p2}
  MaxRevokes = 2
  MaxRuleSaves = 2
  MaxAsks = 2
  MaxLinks = 2
SPECIFICATION PartsSpec
INVARIANTS
  AdminTypeOK
  ChangesAreNoticed
  LeaseIsGivenUp
  BoardIsTrue
  
PROPERTIES
  
  SessionsKeptApart
  ActsOnWhatTheyKnew
  SettingsKept
CHECK_DEADLOCK FALSE
