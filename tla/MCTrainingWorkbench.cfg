SPECIFICATION Spec
CONSTANTS
    Alphabet <- MCAlphabet
    BaseVocab <- MCBaseVocab
    Padding = 2
    SpecialTokens <- MCSpecialTokens
    MinSubwordLength = 2
    RawCorpora <- MCRawCorpora
    MinLength = 1
    MaxLength = 12
    MaxRatio = 4
    Composition <- MCComposition
    NotWritten = NotWritten
    Absent = Absent
    TrainingCorpora <- MCTrainingCorpora
    LegacyCorpora <- MCTrainingCorpora
    TrainingRuns <- MCTrainingRuns
    EffectiveBatch = 2
    Epochs = 5
    MaxTokens = 6
    AverageN = 2
    GenerationBatch = 2
    MaxJobs = 2
    MaxArtifacts = 3
    Similarities <- MCSimilarities
    PointSets <- MCPointSets
    MaxIterations = 3
    Distributions <- MCDistributions
    Deltas = {0, 1, 2, 5}
INVARIANTS
    TypeOK
    CleanedIsSettled
    CleaningLosesNothing
    ValidatedSplitIsLeakFree
    ScopingIsTrue
    CardTellsTheWholeScore
    LinesStayAligned
    CoverageIsWhatWasComposed
    TrainedAsGenerated
    AverageIsOfTheLastEpochs
    ReconstructionIsExact
    ReevaluationMatches
    UnderWarningNeedsAChain
    ServingDiffersOnlyInSpacing
    AucIsPairwise
    KmeansSettles
    RectifiedKeepsRanking
CHECK_DEADLOCK FALSE
