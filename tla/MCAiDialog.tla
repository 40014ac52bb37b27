----------------------------- MODULE MCAiDialog -----------------------------
EXTENDS AiDialog

EverythingFails == {"redis", "llm", "db", "expiry"}
=============================================================================
