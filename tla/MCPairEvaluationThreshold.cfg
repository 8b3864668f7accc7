CONSTANTS
    Pairs <- MCPairs
    Domains = {"cs", "math"}
    Setups <- MCSetups
    JudgeConfidences = {60, 100}
    reference = 85
    RouterCounts <- MCRouterCounts
    Benchmark <- MCBenchmark
    Datasets <- MCDatasets
    CoarseThresholds = {10, 50, 90, 95}
    FineThresholds = {5, 15, 85, 91, 99}
    HAZARD_RATE_CEILING = 10
    max_daily_calls = 2
    MaxPairs = 2
    MaxRetries = 0
    SweepThresholds = {50, 60, 85, 92}
    UpperQuantile <- MCUpperBound
    LogisticEnds = {60, 95}
    PairsPerLabel = 2
    SAFETY_CEILING_IRR = 91
    MINIMUM_CATEGORY_N = 3
    MINIMUM_MINORITY_CLASS_N = 1
    FALLBACK_THRESHOLD = 85
SPECIFICATION EvaluationSpec
INVARIANTS RecommendationProducesHits
CHECK_DEADLOCK FALSE
