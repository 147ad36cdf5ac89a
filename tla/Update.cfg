SPECIFICATION UpdateSpec
CONSTANTS
  Tabs = {t1, t2}
  Installers = {i1}
  MaxVersion = 3
  MaxUpdateReleases = 1
  MaxFailures = 1
  MaxInstalls = 1
INVARIANTS
  OneCheckAtATime
  ReportsAreTrue
PROPERTIES
  UpdateArrives
