SPECIFICATION PipelineSpec
CONSTANTS
    cs_ai = cs_ai
    cs_lg = cs_lg
    blog = blog
    cs_old = cs_old
    Configured <- MCConfigured
    Enabled <- MCEnabled
    ArxivApi <- MCArxivApi
    Credentials = TRUE
    Translate = TRUE
INVARIANT RenderFailureFails
