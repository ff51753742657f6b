CONSTANTS
    NoTag = 0
    e1 = e1
    m1 = m1
    e2 = e2
    Tags <- MCTags
    Replies <- MCReplies
    Budgets = {0, 3}
    BaseDelay = 10
    MaxDelay = 30
    JitterPercent = 10
    MaxRetryAfter = 60
    cs_ai = cs_ai
    cs_lg = cs_lg
    blog = blog
    cs_old = cs_old
    Configured <- MCConfigured
    Enabled <- MCEnabled
    ArxivApi <- MCArxivApi
    Credentials = TRUE
    Translate = TRUE
    NewsEtag = {}
    NewsDate = {"list", "blog"}
SPECIFICATION RunSpec
PROPERTY NewsDatesRecovered
