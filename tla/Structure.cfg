\* Two syncs and a task share the state file of one database, whose next
\* configuration drops an object; the daemon dies at any moment.
SPECIFICATION Spec
CONSTANTS
  db = db
  a = a
  b = b
  s1 = s1
  s2 = s2
  migrate = migrate
  None = None
  Inst = {db}
  Obj = {a, b}
  Declared <- DropsB
  Syncer = {s1, s2}
  Task = {migrate}
  MaxEdit = 1
  MaxMove = 3
INVARIANTS
  FilesAreSound
  OneSyncAtATime
  RecordsAreKept
  PassedOverWhenDone
  ServesWhatIsDeclared
PROPERTY ForgetsOnlyWhatIsGone
SYMMETRY AlikeSyncs
