------------------------------ MODULE MCPipeline ------------------------------
(* Pipeline with two arXiv categories, another source, a disabled arXiv      *)
(* source, and a key for the LLM.                                            *)
EXTENDS Pipeline

CONSTANTS cs_ai, cs_lg, blog, cs_old

MCConfigured == {cs_ai, cs_lg, blog, cs_old}
MCEnabled == {cs_ai, cs_lg, blog}
MCArxivApi == {cs_ai, cs_lg, cs_old}
=============================================================================
