CONSTANTS
    Papers <- OnePaper
    Candidates <- PageAndPdf
    Lengths = {"fits"}
    Stories <- PaperAndPost
    Evaluatable = {1, 2}
    Workers = {w1, w2}
    MaxRuns = 3
    Visible = {1, 2, 3}
    BatchSize = 2
    Threads = {t1, t2}
    Contents = {0, 1}
    MaxPhases = 2
    MaxDisturbances = 1
    Periods <- MCPeriods
    Days <- MCDays
    Digests <- MCDigests
    Limit = 2
    BlogLimit = 1
    Lookahead = 1
    MaxReports = 2
    MaxRewrites = 1
    Pool <- MCItems
    PreferOrder <- MCPreferOrder
    Scoring <- MCScoring
    Topics <- MCTopics
    Similar <- MCSimilar
    QualitySignals = {"daily"}
    UrlCategory <- MCUrlCategory
    Quotas <- MCQuotas
    LlmScores <- MCLlmScores
    Today = 3
    Lookback = 3
SPECIFICATION CurationSpec
INVARIANT TranslationsReturned
CHECK_DEADLOCK FALSE
