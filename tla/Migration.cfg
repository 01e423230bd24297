SPECIFICATION LiveSpec
CONSTANTS
  m1 = m1  m2 = m2
  Migrators = {m1, m2}
INVARIANT FailsOnlyIfOvertaken
PROPERTIES
  ImplementsRevision
  MigrationEnds
