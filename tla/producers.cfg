SPECIFICATION MCSpec
CONSTANTS
  Types = {"known", "new"}
  Payloads = {"good", "fine", "bad"}
  Bundle <- SomeBundle
  Projects = {"p", "q"}
  Tokens = {"t1", "t2"}
  Argvs <- SomeArgvs
  Envs <- SomeEnvs
  Inputs <- SomeInputs
  MaxChanges = 1
  Calls = {c1, c2}
  DedupeKeys = {k}
  Docs <- SomeDocs
  Dir <- SomeDirs
  MaxFiles = 3
  MaxEdits = 2
INVARIANTS
  TypesOK OneBadLineStopsAll BearerIsRegistered  ActorWasThere
  PublishedIsStored InvalidParamsIsTheAgents ValidIsComplete DeltasAddUp TasksAreOwn ProgressAdvances
CHECK_DEADLOCK FALSE
