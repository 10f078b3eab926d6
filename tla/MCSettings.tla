----------------------------- MODULE MCSettings -----------------------------
(* Settings with three environments and the changes that interact.         *)
EXTENDS Settings

CONSTANTS a1, a2

MCAdmin == {a1, a2}

Local == [PAPERLESS_TOKEN |-> "token", LLM_PROVIDER |-> "ollama", OLLAMA_BASE_URL |-> "http",
          EMBEDDING_PROVIDER |-> "ollama", EMBEDDING_MODEL |-> "nomic"]
Cloud == [PAPERLESS_TOKEN |-> "token", OPENAI_API_KEY |-> "key", CHUNK_SIZE |-> "4"]
Broken == [PAPERLESS_TOKEN |-> "token", OPENAI_API_KEY |-> "key", STALE_LOCK_RECOVERY |-> "maybe"]
MCEnvs == {Local, Cloud, Broken}

MCChanges == {
    [CHUNK_SIZE |-> "2"], [CHUNK_OVERLAP |-> "2"],
    [LLM_PROVIDER |-> "openai"],
    [EMBEDDING_PROVIDER |-> "ollama", EMBEDDING_MODEL |-> "nomic", OLLAMA_BASE_URL |-> "http"],
    [EMBEDDING_PROVIDER |-> ""],
    [OPENAI_API_KEY |-> "key2", SEARCH_PLANNER_PROVIDER |-> "openai"],
    [SEARCH_RELEVANCE_TIER_GOOD |-> "4", PAGE_WORKERS |-> "0"],
    [OPENAI_API_KEY |-> Mask]}
=============================================================================
