SPECIFICATION FairSpec
CONSTANTS
  Callers = {c1, c2}
  Catalog = "catalog"
  UpdaterFiles <- MCUpdaterFiles
  CoverFiles <- MCCoverFiles
  EmbeddedFiles <- MCEmbeddedFiles
  UpdaterKinds <- MCUpdaterKinds
  CoverKinds <- MCCoverKinds
  PreparationKinds <- MCPreparationKinds
  Builds <- MCBuilds
  NoId = NoId
  Nobody = Nobody
INVARIANTS
  Inductive
  AnswersAreRight
PROPERTY EveryCallReturns
