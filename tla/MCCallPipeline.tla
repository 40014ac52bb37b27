--------------------------- MODULE MCCallPipeline ---------------------------
(***************************************************************************)
(* The instances of CallPipeline that TLC checks: which parts fail. The    *)
(* greeting is turn 1, so MaxGens = 2 is one utterance of the caller and   *)
(* MaxGens = 3 two of them.                                                *)
(***************************************************************************)
EXTENDS CallPipeline

NothingFails      == {}
LlmFailures       == {"llm"}
AnswerFailures    == {"llm", "redis"}
TransportFailures == {"stt", "pipeline"}

=============================================================================
