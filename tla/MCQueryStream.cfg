CONSTANTS
    stable = stable
    paraphrase = paraphrase
    trap = trap
    border = border
    volatile = volatile
    nokey = nokey
    Queries <- MCQueries
    Similarity <- MCSimilarity
    Canonical <- MCCanonical
    NoKey = nokey
    CuesOf <- MCCuesOf
    Wording <- MCWording
    RawPrediction <- MCRawPrediction
    Drivers = {"load_test", "new_dataset", "demo", "arm_b", "arm_c", "arm_d", "normalizer", "normalizer_cosine", "sealed"}
    SealedPairs <- MCSealedPairs
    ChatQueries <- MCChatQueries
    Lags = {2, 3}
    MaxRetries = 1
    max_judge_calls = 1
    StreamLength = 3
SPECIFICATION FairSpec
INVARIANTS ReuseJustified AnswersAligned
PROPERTIES StreamFinishes
CHECK_DEADLOCK FALSE
