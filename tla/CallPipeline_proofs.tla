------------------------ MODULE CallPipeline_proofs ------------------------
(***************************************************************************)
(* Proofs about CallPipeline, for any number of turns and any set of parts *)
(* that may fail.                                                          *)
(***************************************************************************)
EXTENDS CallPipeline, SequenceTheorems, TLAPS

-----------------------------------------------------------------------------
(***************************************************************************)
(* Lemmas about the history.                                               *)
(***************************************************************************)

\* A message is one of Entries.
LEMMA EntryType ==
  ASSUME NEW role \in {"system", "user", "assistant"}, NEW of \in SUBSET Gens,
         NEW interrupted \in BOOLEAN
  PROVE  Entry(role, of, interrupted) \in Entries
BY DEF Entry, Entries

\* Appending a message to a history gives a history.
LEMMA AppendEntry ==
  ASSUME NEW role \in {"system", "user", "assistant"}, NEW of \in SUBSET Gens,
         NEW interrupted \in BOOLEAN, history \in Seq(Entries)
  PROVE  Append(history, Entry(role, of, interrupted)) \in Seq(Entries)
BY EntryType

LEMMA TwoInSeq ==
  ASSUME NEW S, NEW a \in S, NEW b \in S
  PROVE  <<a, b>> \in Seq(S)
OBVIOUS

\* What on_complete appends: the history before, then the answers of g.
LEMMA SaidIsHistory ==
  ASSUME NEW g \in Gens, NEW n \in Nat, history \in Seq(Entries)
  PROVE  /\ Said(g, n) \in Seq(Entries)
         /\ Len(Said(g, n)) = Len(history) + n
         /\ \A i \in 1..Len(history) : Said(g, n)[i] = history[i]
         /\ \A i \in (Len(history) + 1)..Len(Said(g, n)) :
              Said(g, n)[i] = Entry("assistant", {g}, FALSE)
<1> DEFINE said == Entry("assistant", {g}, FALSE)
           more == [i \in 1..n |-> said]
<1>1. said \in Entries
  BY EntryType
<1> HIDE DEF said
<1>2. more \in Seq(Entries)
  BY <1>1, SeqDef
<1>3. Len(more) = n
  OBVIOUS
<1>4. \A i \in 1..n : more[i] = said
  OBVIOUS
<1>5. Said(g, n) = history \o more
  BY DEF Said, said
<1> HIDE DEF more
<1>6. /\ history \o more \in Seq(Entries)
      /\ Len(history \o more) = Len(history) + n
      /\ \A i \in 1..Len(history) : (history \o more)[i] = history[i]
      /\ \A i \in (Len(history) + 1)..(Len(history) + n) : (history \o more)[i] = said
  BY <1>2, <1>3, <1>4
<1>7. QED
  BY <1>5, <1>6 DEF said

-----------------------------------------------------------------------------
(***************************************************************************)
(* Type correctness.                                                       *)
(***************************************************************************)

\* A group of variables that does not change keeps its types.
LEMMA Frames ==
  ASSUME TypeOK
  PROVE  /\ UNCHANGED endpointVars => EndpointTypes'
         /\ UNCHANGED sessionVars => SessionTypes'
         /\ UNCHANGED genVars => GenTypes'
         /\ UNCHANGED otherVars => OtherTypes'
<1>1. UNCHANGED endpointVars => EndpointTypes'
  BY DEF TypeOK, EndpointTypes, endpointVars
<1>2. UNCHANGED sessionVars => SessionTypes'
  BY DEF TypeOK, SessionTypes, sessionVars
<1>3. UNCHANGED genVars => GenTypes'
  BY DEF TypeOK, GenTypes, Awaits, genVars
<1>4. UNCHANGED otherVars => OtherTypes'
  BY DEF TypeOK, OtherTypes, otherVars
<1>5. QED
  BY <1>1, <1>2, <1>3, <1>4

\* A save, refused or not, keeps the types of what it changes.
LEMMA SaveTypes ==
  ASSUME OtherTypes, NEW STATE h, h \in Seq(Entries),
         TriggerFallback(h) \/ SaveOk(h) \/ SaveRefused
  PROVE  saved' \in Nat /\ saveFailed' \in BOOLEAN
<1>1. Len(h) \in Nat
  OBVIOUS
<1>2. QED
  BY <1>1 DEF TriggerFallback, SaveOk, SaveRefused, OtherTypes

\* The initial values are of their types.
LEMMA InitTypes == Init => TypeOK
<1> SUFFICES ASSUME Init PROVE TypeOK
  OBVIOUS
<1>1. EndpointTypes
  BY EmptySeq DEF Init, EndpointTypes
<1>2. SessionTypes
  BY EmptySeq DEF Init, SessionTypes, PipelineStates
<1>3. GenTypes
  BY DEF Init, GenTypes, Awaits
<1>4. OtherTypes
  BY DEF Init, OtherTypes
<1>5. QED
  BY <1>1, <1>2, <1>3, <1>4 DEF TypeOK

\* What Raises, EndCancelled and GatherTasks change keeps its types.
LEMMA RaisesTypes ==
  ASSUME TypeOK, NEW g \in Gens, NEW STATE s, s \in PipelineStates, Raises(g, s)
  PROVE  /\ pipelineState' \in PipelineStates
         /\ attempt' \in [Gens -> 1..3]
         /\ pc' \in [Gens -> Awaits]
BY DEF Raises, AfterError, ApologyOrRetry, PipelineStates, TypeOK, GenTypes, Awaits, SessionTypes, OtherTypes

LEMMA EndCancelledTypes ==
  ASSUME TypeOK, NEW g \in Gens, NEW text, EndCancelled(g, text)
  PROVE  /\ history' \in Seq(Entries)
         /\ pc' \in [Gens -> Awaits]
<1>1. pc' \in [Gens -> Awaits]
  BY DEF EndCancelled, TypeOK, GenTypes, Awaits
<1>2. history \in Seq(Entries)
  BY DEF TypeOK, SessionTypes
<1>3. Append(history, Entry("assistant", {g}, TRUE)) \in Seq(Entries)
  BY <1>2, AppendEntry
<1>4. QED
  BY <1>1, <1>2, <1>3 DEF EndCancelled

LEMMA GatherTypes ==
  ASSUME TypeOK, GatherTasks
  PROVE  /\ awaited' \subseteq Gens
         /\ tracked' \subseteq Gens
         /\ cancelling' \in [Gens -> BOOLEAN]
         /\ stt' \in {"open", "lost", "closed"}
         /\ loop' \in {"gather", "closing"}
BY DEF GatherTasks, DropTasks, Cancelled, TypeOK, EndpointTypes, SessionTypes, GenTypes, Awaits

\* StartGeneration, wherever it is called.
LEMMA StartTypes ==
  ASSUME TypeOK, NEW g \in Gens, StartGeneration(g)
  PROVE  /\ pipelineState' \in PipelineStates
         /\ current' \in Gens
         /\ tracked' \subseteq Gens
         /\ pc' \in [Gens -> Awaits]
         /\ attempt' \in [Gens -> 1..3]
         /\ accumulated' \in [Gens -> SUBSET (1..3)]
         /\ firstAudio' \in [Gens -> BOOLEAN]
BY DEF StartGeneration, PipelineStates, TypeOK, SessionTypes, GenTypes, Awaits

\* Each step of a generation task keeps the types.
LEMMA GenerationTypes ==
  ASSUME TypeOK, NEW g \in Gens, Generation(g)
  PROVE  TypeOK'
<1> USE Frames DEF TypeOK
<1>1. CASE Generate(g)
  <2>1. GenTypes'
    BY <1>1 DEF Generate, GenTypes, Awaits
  <2>2. QED
    BY <1>1, <2>1 DEF Generate
<1>2. CASE Sentence(g)
  <2>1. GenTypes'
    BY <1>2 DEF Sentence, GenTypes, Awaits
  <2>2. QED
    BY <1>2, <2>1 DEF Sentence
<1>3. CASE SendAudio(g)
  <2>1. SessionTypes'
    BY <1>3 DEF SendAudio, SessionTypes
  <2>2. QED
    BY <1>3, <2>1 DEF SendAudio
<1>4. CASE SentenceSpoken(g)
  <2>1. GenTypes'
    BY <1>4 DEF SentenceSpoken, MarkSpeaking, GenTypes, Awaits
  <2>2. SessionTypes'
    BY <1>4 DEF SentenceSpoken, MarkSpeaking, SessionTypes, PipelineStates
  <2>3. QED
    BY <1>4, <2>1, <2>2 DEF SentenceSpoken
<1>5. CASE StreamEnds(g)
  <2>1. history' \in Seq(Entries)
    BY <1>5, SaidIsHistory DEF StreamEnds, SessionTypes
  <2>2. saved' \in Nat /\ saveFailed' \in BOOLEAN
    <3>1. Len(history') \in Nat
      BY <2>1
    <3>2. QED
      BY <1>5, <3>1 DEF StreamEnds, SaveOk
  <2>3. SessionTypes'
    BY <1>5, <2>1
    DEF StreamEnds, SessionTypes, PipelineStates, AfterTurn, AfterError, AfterSpeaking, HasText
  <2>4. GenTypes'
    BY <1>5 DEF StreamEnds, GenTypes, Awaits
  <2>5. QED
    BY <1>5, <2>2, <2>3, <2>4 DEF StreamEnds, OtherTypes
<1>6. CASE LlmFails(g)
  <2>1. saved' \in Nat /\ saveFailed' \in BOOLEAN
    <3>1. Len(history) \in Nat
      BY DEF SessionTypes
    <3>2. QED
      BY <1>6, <3>1 DEF LlmFails, TriggerFallback, SaveOk, SaveRefused, OtherTypes
  <2>2. /\ pipelineState' \in PipelineStates
        /\ attempt' \in [Gens -> 1..3]
        /\ pc' \in [Gens -> Awaits]
    <3>1. pipelineState \in PipelineStates /\ Raises(g, pipelineState)
      BY <1>6 DEF LlmFails, SessionTypes
    <3>2. QED
      BY <3>1, RaisesTypes
  <2>3. QED
    BY <1>6, <2>1, <2>2 DEF LlmFails, SessionTypes, GenTypes, Awaits, OtherTypes
<1>7. ASSUME NEW n \in 1..2, FailsWithText(g, n)
      PROVE  TypeOK'
  <2>1. history' \in Seq(Entries)
    <3>1. history \in Seq(Entries) /\ n \in Nat
      BY DEF SessionTypes
    <3>2. Said(g, n) \in Seq(Entries)
      BY <3>1, SaidIsHistory
    <3>3. QED
      BY <1>7, <3>2 DEF FailsWithText
  <2>2. saved' \in Nat /\ saveFailed' \in BOOLEAN
    <3>1. Len(history') \in Nat
      BY <2>1
    <3>2. QED
      BY <1>7, <3>1 DEF FailsWithText, TriggerFallback, SaveOk, SaveRefused, OtherTypes
  <2>3. /\ pipelineState' \in PipelineStates
        /\ attempt' \in [Gens -> 1..3]
        /\ pc' \in [Gens -> Awaits]
    <3>1. AfterSpeaking(pipelineState) \in PipelineStates /\ pipelineState \in PipelineStates
      BY DEF AfterSpeaking, PipelineStates, SessionTypes
    <3>2. Raises(g, pipelineState) \/ Raises(g, AfterSpeaking(pipelineState))
      BY <1>7 DEF FailsWithText
    <3>3. QED
      BY <3>1, <3>2, RaisesTypes
  <2>4. QED
    BY <1>7, <2>1, <2>2, <2>3 DEF FailsWithText, SessionTypes, GenTypes, Awaits, OtherTypes
<1>8. CASE ApologyDone(g)
  <2>1. GenTypes'
    BY <1>8 DEF ApologyDone, GenTypes, Awaits
  <2>2. QED
    BY <1>8, <2>1 DEF ApologyDone
<1>9. CASE DeliverCancel(g)
  <2>1. accumulated' \in [Gens -> SUBSET (1..3)]
    BY <1>9 DEF DeliverCancel, GenTypes, Awaits
  <2>2. /\ history' \in Seq(Entries)
        /\ pc' \in [Gens -> Awaits]
    BY <1>9, EndCancelledTypes DEF DeliverCancel, GenTypes, Awaits, SessionTypes
  <2>3. QED
    BY <1>9, <2>1, <2>2 DEF DeliverCancel, GenTypes, Awaits, SessionTypes
<1>10. CASE Flushed(g)
  <2>1. /\ history' \in Seq(Entries)
        /\ pc' \in [Gens -> Awaits]
    BY <1>10, EndCancelledTypes DEF Flushed
  <2>2. QED
    BY <1>10, <2>1 DEF Flushed, MarkSpeaking, GenTypes, Awaits, SessionTypes, PipelineStates
<1>11. QED
  BY <1>1, <1>2, <1>3, <1>4, <1>5, <1>6, <1>7, <1>8, <1>9, <1>10 DEF Generation

\* Each step of the endpoint keeps the types.
LEMMA DetectSpeechTypes ==
  ASSUME TypeOK, NEW speechStart \in BOOLEAN, DetectSpeech(speechStart),
         stt' \in {"open", "lost", "closed"}
  PROVE  TypeOK'
<1> USE DEF TypeOK, DetectSpeech
<1>1. EndpointTypes'
  BY DEF EndpointTypes, SessionTypes, BargeIn, AfterMedia, LoopTop
<1>2. SessionTypes'
  BY DEF SessionTypes, BargeIn, PipelineStates
<1>3. GenTypes'
  BY DEF GenTypes, Awaits, BargeIn, Cancelled
<1>4. QED
  BY <1>1, <1>2, <1>3, Frames

LEMMA EndpointStepTypes ==
  ASSUME TypeOK,
         \/ \E s \in BOOLEAN : MediaFrame(s) \/ Reconnected(s)
         \/ ReconnectFails \/ ClearSent \/ OtherMessage \/ StreamOver \/ Cleanup
  PROVE  TypeOK'
<1> USE Frames DEF TypeOK
<1>1. ASSUME NEW s \in BOOLEAN, MediaFrame(s)
      PROVE  TypeOK'
  <2>1. stt' \in {"open", "lost", "closed"}
    BY <1>1 DEF MediaFrame, SessionTypes
  <2>2. CASE DetectSpeech(s)
    BY <2>1, <2>2, DetectSpeechTypes
  <2>3. CASE ~DetectSpeech(s)
    BY <1>1, <2>3 DEF MediaFrame, EndpointTypes, SessionTypes
  <2>4. QED
    BY <2>2, <2>3
<1>2. ASSUME NEW s \in BOOLEAN, Reconnected(s)
      PROVE  TypeOK'
  BY <1>2, DetectSpeechTypes DEF Reconnected
<1>3. CASE ReconnectFails
  <2>1. history \in Seq(Entries)
    BY DEF SessionTypes
  <2>2. saved' \in Nat /\ saveFailed' \in BOOLEAN
    BY <1>3, <2>1, SaveTypes DEF ReconnectFails
  <2>3. QED
    BY <1>3, <2>2 DEF ReconnectFails, EndpointTypes, OtherTypes
<1>4. CASE ClearSent
  <2>1. history' \in Seq(Entries)
    BY <1>4, AppendEntry DEF ClearSent, EndpointTypes, SessionTypes
  <2>2. QED
    BY <1>4, <2>1
    DEF ClearSent, AfterMedia, LoopTop, PipelineStates, EndpointTypes, SessionTypes
<1>5. CASE OtherMessage
  BY <1>5 DEF OtherMessage, LoopTop, EndpointTypes
<1>6. CASE StreamOver
  BY <1>6 DEF StreamOver, EndpointTypes
<1>7. CASE EndOfCall
  <2>1. reports' \in Seq(BOOLEAN) /\ monitor' \in {"off", "running"}
    BY <1>7 DEF EndOfCall, EndpointTypes, SessionTypes
  <2>2. /\ awaited' \subseteq Gens
        /\ tracked' \subseteq Gens
        /\ cancelling' \in [Gens -> BOOLEAN]
        /\ stt' \in {"open", "lost", "closed"}
        /\ loop' \in {"awaitCurrent", "gather", "closing"}
    <3>1. CASE GatherTasks
      BY <3>1, GatherTypes
    <3>2. CASE ~GatherTasks
      <4>1. /\ current # None
            /\ loop' = "awaitCurrent"
            /\ awaited' = {current}
            /\ cancelling' = Cancelled({current})
            /\ UNCHANGED <<tracked, stt>>
        BY <1>7, <3>2 DEF EndOfCall
      <4>2. cancelling' \in [Gens -> BOOLEAN]
        BY <4>1 DEF Cancelled, GenTypes, Awaits
      <4>3. QED
        BY <4>1, <4>2 DEF SessionTypes
    <3>3. QED
      BY <3>1, <3>2
  <2>3. QED
    BY <1>7, <2>1, <2>2 DEF EndOfCall, EndpointTypes, SessionTypes, GenTypes, Awaits, OtherTypes
<1>8. CASE NoSession
  BY <1>8 DEF NoSession, EndpointTypes
<1>9. CASE CurrentCancelled
  <2>1. /\ awaited' \subseteq Gens
        /\ tracked' \subseteq Gens
        /\ cancelling' \in [Gens -> BOOLEAN]
        /\ stt' \in {"open", "lost", "closed"}
        /\ loop' \in {"gather", "closing"}
    BY <1>9, GatherTypes DEF CurrentCancelled
  <2>2. QED
    BY <1>9, <2>1 DEF CurrentCancelled, EndpointTypes, SessionTypes, GenTypes, Awaits
<1>10. CASE TasksGathered
  BY <1>10 DEF TasksGathered, DropTasks, EndpointTypes, SessionTypes
<1>11. CASE Close
  BY <1>11 DEF Close, EndpointTypes, SessionTypes
<1>12. QED
  BY <1>1, <1>2, <1>3, <1>4, <1>5, <1>6, <1>7, <1>8, <1>9, <1>10, <1>11 DEF Cleanup

\* Every variable holds a value of its type in every reachable state.
THEOREM TypeCorrect == Spec => []TypeOK
<1>1. TypeOK /\ [Next]_vars => TypeOK'
  <2> SUFFICES ASSUME TypeOK, [Next]_vars PROVE TypeOK'
    OBVIOUS
  <2> USE Frames DEF TypeOK
  <2>1. CASE UNCHANGED vars
    BY <2>1 DEF vars
  <2>2. CASE StartEvent
    <3>1. 1 \in Gens
      BY MaxGensAssumption DEF Gens
    <3>2. StartGeneration(1)
      BY <2>2 DEF StartEvent
    <3>3. history' \in Seq(Entries)
      <4>1. Entry("system", {}, FALSE) \in Entries /\ Entry("user", {1}, FALSE) \in Entries
        BY <3>1, EntryType
      <4>2. history' = <<Entry("system", {}, FALSE), Entry("user", {1}, FALSE)>>
        BY <2>2 DEF StartEvent
      <4>3. QED
        BY <4>1, <4>2, TwoInSeq
    <3>4. QED
      BY <2>2, <3>1, <3>2, <3>3, StartTypes
      DEF StartEvent, EndpointTypes, SessionTypes, GenTypes, Awaits, OtherTypes
  <2>3. CASE StartFails
    BY <2>3 DEF StartFails, EndpointTypes
  <2>4. ASSUME NEW g \in Gens, OnTranscript(g)
        PROVE  TypeOK'
    <3>1. StartGeneration(g)
      BY <2>4 DEF OnTranscript
    <3>2. history' \in Seq(Entries)
      BY <2>4, AppendEntry DEF OnTranscript, SessionTypes
    <3>3. cancelling' \in [Gens -> BOOLEAN]
      BY <2>4 DEF OnTranscript, Cancelled, GenTypes, Awaits
    <3>4. QED
      BY <2>4, <3>1, <3>2, <3>3, StartTypes DEF OnTranscript, SessionTypes, GenTypes, Awaits
  <2>5. CASE MonitorFires
    <3>1. history \in Seq(Entries)
      BY DEF SessionTypes
    <3>2. saved' \in Nat /\ saveFailed' \in BOOLEAN
      BY <2>5, <3>1, SaveTypes DEF MonitorFires
    <3>3. QED
      BY <2>5, <3>2 DEF MonitorFires, OtherTypes
  <2>6. CASE SttLost
    BY <2>6 DEF SttLost, SessionTypes
  <2>7. CASE Terminated
    BY <2>1, <2>7 DEF Terminated
  <2>8. QED
    BY <2>1, <2>2, <2>3, <2>4, <2>5, <2>6, <2>7, GenerationTypes, EndpointStepTypes DEF Next
<1>2. QED
  BY <1>1, InitTypes, PTL DEF Spec

-----------------------------------------------------------------------------
(***************************************************************************)
(* What a step does to the turns. All but two actions create no turn and   *)
(* revive none.                                                            *)
(***************************************************************************)
KeepsTurns ==
  \A h \in Gens : /\ Created(h)' <=> Created(h)
                  /\ Active(h)' => Active(h)
                  /\ Running(h)' => Running(h)

MonotoneTurns ==
  \A h \in Gens : /\ Created(h) => Created(h)'
                  /\ Over(h) => Over(h)'

\* Asking tasks to stop keeps the turns.
LEMMA CancellingKeepsTurns ==
  ASSUME TypeOK, UNCHANGED pc, \A h \in Gens : cancelling[h] => cancelling'[h]
  PROVE  KeepsTurns
BY DEF KeepsTurns, Created, Active, Running

\* A generation's own step keeps the turns: it moves between the awaits of a
\* running task, or ends it.
LEMMA GenerationKeepsTurns ==
  ASSUME TypeOK, CancelsRunningTasks, NEW g \in Gens, Generation(g)
  PROVE  KeepsTurns /\ CancelsRunningTasks'
<1> USE DEF TypeOK, GenTypes, Awaits
<1>1. ASSUME Running(g),
             NEW to \in {"llm", "tts", "apology", "flush", "done"},
             NEW c \in BOOLEAN,
             pc' = [pc EXCEPT ![g] = to],
             cancelling' = [cancelling EXCEPT ![g] = c],
             c => cancelling[g] /\ to # "done",
             ~cancelling[g] \/ to \in {"flush", "done"},
             pc[g] = "flush" => to = "done"
      PROVE  KeepsTurns /\ CancelsRunningTasks'
  BY <1>1 DEF KeepsTurns, CancelsRunningTasks, Created, Active, Running
<1>2. CASE Generate(g) \/ Sentence(g) \/ SentenceSpoken(g) \/ ApologyDone(g)
  BY <1>2, <1>1
  DEF Generate, Sentence, SentenceSpoken, ApologyDone, At, Running
<1>3. CASE SendAudio(g)
  BY <1>3 DEF SendAudio, genVars, KeepsTurns, CancelsRunningTasks, Created, Active, Running
<1>4. CASE StreamEnds(g)
  BY <1>4, <1>1 DEF StreamEnds, At, Running
<1>5. CASE LlmFails(g) \/ \E n \in 1..2 : FailsWithText(g, n)
  <2>1. At(g, "llm") /\ UNCHANGED cancelling
    BY <1>5 DEF LlmFails, FailsWithText
  <2>2. \/ pc' = [pc EXCEPT ![g] = "apology"]
        \/ pc' = [pc EXCEPT ![g] = "llm"]
        \/ pc' = [pc EXCEPT ![g] = "done"]
    BY <1>5 DEF LlmFails, FailsWithText, Raises, ApologyOrRetry
  <2>3. QED
    BY <1>1, <2>1, <2>2 DEF At, Running
<1>6. CASE DeliverCancel(g)
  <2>1. /\ Running(g) /\ cancelling[g]
        /\ cancelling' = [cancelling EXCEPT ![g] = FALSE]
    BY <1>6 DEF DeliverCancel, CancelsRunningTasks
  <2>2. \/ pc' = [pc EXCEPT ![g] = "done"]
        \/ pc[g] # "flush" /\ pc' = [pc EXCEPT ![g] = "flush"]
    BY <1>6 DEF DeliverCancel, EndCancelled, MayHoldText
  <2>3. QED
    BY <1>1, <2>1, <2>2
<1>7. CASE Flushed(g)
  BY <1>7, <1>1 DEF Flushed, EndCancelled, At, Running
<1>8. QED
  BY <1>2, <1>3, <1>4, <1>5, <1>6, <1>7 DEF Generation

\* The endpoint's steps keep the turns.
LEMMA EndpointKeepsTurns ==
  ASSUME TypeOK, CancelsRunningTasks,
         \/ \E s \in BOOLEAN : MediaFrame(s) \/ Reconnected(s)
         \/ ReconnectFails \/ ClearSent \/ OtherMessage \/ StreamOver \/ Cleanup
         \/ StartFails \/ MonitorFires \/ SttLost \/ Terminated \/ UNCHANGED vars
  PROVE  KeepsTurns /\ CancelsRunningTasks'
<1>1. UNCHANGED pc
  BY DEF MediaFrame, Reconnected, DetectSpeech, ReconnectFails, ClearSent, OtherMessage,
         StreamOver, Cleanup, EndOfCall, NoSession, CurrentCancelled, TasksGathered, Close,
         StartFails, MonitorFires, SttLost, Terminated, vars, genVars
<1>2. cancelling' = cancelling \/ \E S \in SUBSET Gens : cancelling' = Cancelled(S)
  <2> USE DEF TypeOK, SessionTypes
  <2>1. ASSUME GatherTasks
        PROVE  cancelling' = cancelling \/ \E S \in SUBSET Gens : cancelling' = Cancelled(S)
    BY <2>1 DEF GatherTasks
  <2>2. CASE Cleanup
    <3>1. current # None => {current} \in SUBSET Gens
      OBVIOUS
    <3>2. QED
      BY <2>1, <2>2, <3>1
      DEF Cleanup, EndOfCall, NoSession, CurrentCancelled, TasksGathered, Close, genVars
  <2>3. ASSUME NEW s \in BOOLEAN, DetectSpeech(s)
        PROVE  cancelling' = cancelling \/ \E S \in SUBSET Gens : cancelling' = Cancelled(S)
    <3>1. Cancelled({current}) = Cancelled({current} \cap Gens)
      BY DEF Cancelled
    <3>2. QED
      BY <2>3, <3>1 DEF DetectSpeech, BargeIn
  <2>4. CASE \E s \in BOOLEAN : MediaFrame(s) \/ Reconnected(s)
    BY <2>3, <2>4 DEF MediaFrame, Reconnected, genVars
  <2>5. QED
    BY <2>2, <2>4
    DEF ReconnectFails, ClearSent, OtherMessage, StreamOver, StartFails, MonitorFires,
        SttLost, Terminated, vars, genVars
<1>3. QED
  <2>1. CASE cancelling' = cancelling
    BY <1>1, <2>1, CancellingKeepsTurns DEF CancelsRunningTasks, Running
  <2>2. ASSUME NEW S \in SUBSET Gens, cancelling' = Cancelled(S)
        PROVE  KeepsTurns /\ CancelsRunningTasks'
    BY <1>1, <2>2, CancellingKeepsTurns DEF Cancelled, CancelsRunningTasks, Running
  <2>3. QED
    BY <1>2, <2>1, <2>2

\* A new turn: all that were active are cancelled, the new one is the latest.
LEMMA TranscriptStartsTurn ==
  ASSUME TypeOK, Inductive, NEW g \in Gens, OnTranscript(g)
  PROVE  /\ MonotoneTurns
         /\ ~Created(g) /\ Created(g)' /\ current' = g
         /\ \A h \in Gens : Created(h)' => Created(h) \/ h = g
         /\ \A h \in Gens : Active(h)' => h = g
         /\ TurnsInOrder' /\ CancelsRunningTasks' /\ RunningIsTracked'
<1> USE DEF TypeOK, GenTypes, Awaits, SessionTypes, OnTranscript, StartGeneration, Cancelled
<1>1. /\ MonotoneTurns
      /\ ~Created(g) /\ Created(g)' /\ current' = g
      /\ \A h \in Gens : Created(h)' => Created(h) \/ h = g
  BY DEF MonotoneTurns, Created, Over, Active
<1>2. \A h \in Gens : Active(h)' => h = g
  <2> SUFFICES ASSUME NEW h \in Gens, Active(h)', h # g PROVE FALSE
    OBVIOUS
  <2>1. Active(h)
    BY DEF Active
  <2>2. h = current /\ Running(h)
    BY <2>1 DEF Inductive, OnlyCurrentIsActive, Active, Running
  <2>3. cancelling'[h]
    BY <2>2
  <2>4. QED
    BY <2>3 DEF Active
<1>3. RunningIsTracked'
  <2>1. loop' = loop
    BY DEF endpointVars
  <2>2. QED
    BY <2>1 DEF Inductive, RunningIsTracked, Running
<1>4. TurnsInOrder'
  <2>1. \A h \in Gens : Created(h) => h < g
    BY DEF Inductive, TurnsInOrder, Created, Gens
  <2>2. \A h \in Gens : h < g => Created(h)
    BY DEF Created
  <2>3. QED
    BY <1>1, <2>1, <2>2 DEF TurnsInOrder, MonotoneTurns, Gens, None
<1>5. CancelsRunningTasks'
  BY DEF Inductive, CancelsRunningTasks, Running
<1>6. QED
  BY <1>1, <1>2, <1>3, <1>4, <1>5

\* The start event creates turn 1 and no other.
LEMMA StartCreatesGreeting ==
  ASSUME TypeOK, Inductive, StartEvent
  PROVE  /\ 1 \in Gens /\ current' = 1 /\ loop' = "receiving"
         /\ \A h \in Gens : ~Created(h)
         /\ \A h \in Gens : Created(h)' <=> h = 1
         /\ \A h \in Gens : Active(h)' => h = 1
         /\ MonotoneTurns
         /\ TurnsInOrder' /\ CancelsRunningTasks' /\ RunningIsTracked'
<1> USE DEF TypeOK, GenTypes, Awaits, SessionTypes, StartEvent, StartGeneration
<1>1. 1 \in Gens /\ \A h \in Gens : 1 <= h
  BY MaxGensAssumption DEF Gens
<1>2. \A h \in Gens : ~Created(h)
  BY DEF Inductive, NoTurnsWithoutSession
<1>3. \A h \in Gens : Created(h)' <=> h = 1
  BY <1>2 DEF Created
<1>4. (\A h \in Gens : Active(h)' => h = 1) /\ RunningIsTracked'
  BY <1>2 DEF RunningIsTracked, Active, Running, Created
<1>5. MonotoneTurns
  BY <1>2 DEF MonotoneTurns, Over
<1>6. TurnsInOrder'
  BY <1>1, <1>3 DEF TurnsInOrder, None, Gens
<1>7. CancelsRunningTasks'
  BY <1>2 DEF Inductive, CancelsRunningTasks, Running, Created
<1>8. QED
  BY <1>1, <1>2, <1>3, <1>4, <1>5, <1>6, <1>7

\* Every step: turns are never undone.
LEMMA StepsAreMonotone ==
  ASSUME TypeOK, Inductive, [Next]_vars
  PROVE  MonotoneTurns
<1>1. KeepsTurns => MonotoneTurns
  BY DEF KeepsTurns, MonotoneTurns, Over
<1>2. CancelsRunningTasks
  BY DEF Inductive
<1>3. QED
  BY <1>1, <1>2, GenerationKeepsTurns, EndpointKeepsTurns, TranscriptStartsTurn, StartCreatesGreeting
  DEF Next

-----------------------------------------------------------------------------
(***************************************************************************)
(* What a step does to the history: it appends the answer of one active    *)
(* generation, or questions, or texts of generations that are over.        *)
(***************************************************************************)
NewMessages == (Len(history) + 1)..Len(history')

Extends ==
  /\ Len(history) \in Nat /\ Len(history') \in Nat /\ Len(history) <= Len(history')
  /\ DOMAIN history = 1..Len(history) /\ DOMAIN history' = 1..Len(history')
  /\ \A i \in 1..Len(history) : history'[i] = history[i]

Answers(g) == \A i \in NewMessages : Answer(history'[i]) /\ history'[i].of = {g}

Questions ==
  \A i \in NewMessages : /\ history'[i].role # "assistant" /\ ~history'[i].interrupted
                         /\ \A h \in history'[i].of : Created(h)'

CutShort ==
  \A i \in NewMessages : /\ history'[i].role = "assistant" /\ history'[i].interrupted
                         /\ \A h \in history'[i].of : Over(h)'

HistoryStep ==
  /\ Extends
  /\ \/ \E g \in Gens : Active(g) /\ Answers(g)
     \/ Questions
     \/ CutShort

\* Nothing appended.
LEMMA HistoryUnchanged ==
  ASSUME TypeOK, UNCHANGED history
  PROVE  HistoryStep
BY DEF TypeOK, SessionTypes, HistoryStep, Extends, Questions, NewMessages

\* One message appended.
LEMMA HistoryAppend ==
  ASSUME TypeOK, NEW STATE e, e \in Entries, history' = Append(history, e)
  PROVE  Extends /\ \A i \in NewMessages : history'[i] = e
BY DEF TypeOK, SessionTypes, Extends, NewMessages

\* The messages of on_complete appended.
LEMMA HistorySaid ==
  ASSUME TypeOK, NEW g \in Gens, NEW n \in Nat, Active(g), history' = Said(g, n)
  PROVE  HistoryStep
<1>1. history \in Seq(Entries)
  BY DEF TypeOK, SessionTypes
<1>2. Extends
  <2>1. history' \in Seq(Entries) /\ Len(history') = Len(history) + n
    BY <1>1, SaidIsHistory
  <2>2. \A i \in 1..Len(history) : history'[i] = history[i]
    BY <1>1, SaidIsHistory
  <2>3. QED
    BY <1>1, <2>1, <2>2, LenProperties DEF Extends
<1>3. \A i \in NewMessages : history'[i] = Entry("assistant", {g}, FALSE)
  BY <1>1, SaidIsHistory DEF NewMessages
<1>4. Answers(g)
  BY <1>3 DEF Answers, Answer, Entry
<1>5. QED
  BY <1>2, <1>4 DEF HistoryStep

\* A cancelled generation appends at most its own text, cut short.
LEMMA HistoryEndCancelled ==
  ASSUME TypeOK, NEW g \in Gens, NEW text, EndCancelled(g, text), MonotoneTurns,
         Created(g), Over(g)'
  PROVE  HistoryStep
<1>1. CASE UNCHANGED history
  BY <1>1, HistoryUnchanged
<1>2. CASE history' = Append(history, Entry("assistant", {g}, TRUE))
  <2>1. Entry("assistant", {g}, TRUE) \in Entries
    BY EntryType
  <2>2. Extends /\ \A i \in NewMessages : history'[i] = Entry("assistant", {g}, TRUE)
    BY <1>2, <2>1, HistoryAppend
  <2>3. CutShort
    BY <2>2 DEF CutShort, Entry
  <2>4. QED
    BY <2>2, <2>3 DEF HistoryStep
<1>3. QED
  BY <1>1, <1>2 DEF EndCancelled

\* Every step appends one kind of message.
LEMMA StepsExtendHistory ==
  ASSUME TypeOK, Inductive, [Next]_vars
  PROVE  HistoryStep
<1>1. MonotoneTurns
  BY StepsAreMonotone
<1>2. CASE UNCHANGED history
  BY <1>2, HistoryUnchanged
<1>3. CASE StartEvent
  <2>1. history = <<>>
    BY <1>3 DEF StartEvent, Inductive, NoTurnsWithoutSession
  <2>2. history' = <<Entry("system", {}, FALSE), Entry("user", {1}, FALSE)>>
    BY <1>3 DEF StartEvent
  <2>3. Extends
    BY <2>1, <2>2 DEF Extends
  <2>4. \A i \in NewMessages : history'[i] \in {Entry("system", {}, FALSE), Entry("user", {1}, FALSE)}
    <3> DEFINE a == Entry("system", {}, FALSE)
               b == Entry("user", {1}, FALSE)
    <3>1. history' = <<a, b>>
      BY <2>2
    <3> HIDE DEF a, b
    <3>2. Len(history') = 2 /\ history'[1] = a /\ history'[2] = b
      BY <3>1
    <3>3. NewMessages = {1, 2}
      BY <2>1, <3>2 DEF NewMessages
    <3>4. QED
      BY <3>2, <3>3 DEF a, b
  <2>5. 1 \in Gens /\ Created(1)'
    BY <1>3, StartCreatesGreeting
  <2>6. Questions
    BY <2>4, <2>5 DEF Questions, Entry
  <2>7. QED
    BY <2>3, <2>6 DEF HistoryStep
<1>4. ASSUME NEW g \in Gens, OnTranscript(g)
      PROVE  HistoryStep
  <2>1. Entry("user", {g}, FALSE) \in Entries
    BY EntryType
  <2>2. Extends /\ \A i \in NewMessages : history'[i] = Entry("user", {g}, FALSE)
    BY <1>4, <2>1, HistoryAppend DEF OnTranscript
  <2>3. Created(g)'
    BY <1>4, TranscriptStartsTurn
  <2>4. Questions
    BY <2>2, <2>3 DEF Questions, Entry
  <2>5. QED
    BY <2>2, <2>4 DEF HistoryStep
<1>5. ASSUME NEW g \in Gens, StreamEnds(g)
      PROVE  HistoryStep
  <2>1. Active(g)
    BY <1>5 DEF StreamEnds, At, Active
  <2>2. history' = Said(g, 1) \/ history' = Said(g, 0)
    BY <1>5 DEF StreamEnds
  <2>3. QED
    BY <2>1, <2>2, HistorySaid
<1>6. ASSUME NEW g \in Gens, NEW n \in 1..2, FailsWithText(g, n)
      PROVE  HistoryStep
  <2>1. Active(g)
    BY <1>6 DEF FailsWithText, At, Active
  <2>2. history' = Said(g, n) /\ n \in Nat
    BY <1>6 DEF FailsWithText
  <2>3. QED
    BY <2>1, <2>2, HistorySaid
<1>7. ASSUME NEW g \in Gens, DeliverCancel(g)
      PROVE  HistoryStep
  <2>1. Running(g)
    BY <1>7 DEF DeliverCancel, Inductive, CancelsRunningTasks
  <2>2. Created(g) /\ Over(g)
    BY <1>7, <2>1 DEF DeliverCancel, Created, Running, Over, Active
  <2>3. Over(g)'
    BY <1>1, <2>2 DEF MonotoneTurns
  <2>4. UNCHANGED history \/ \E text \in BOOLEAN : EndCancelled(g, text)
    BY <1>7 DEF DeliverCancel
  <2>5. QED
    BY <1>1, <1>2, <2>2, <2>3, <2>4, HistoryEndCancelled
<1>8. ASSUME NEW g \in Gens, Flushed(g)
      PROVE  HistoryStep
  <2>1. Created(g) /\ Over(g)
    BY <1>8 DEF Flushed, At, Created, Over, Active
  <2>2. Over(g)'
    BY <1>1, <2>1 DEF MonotoneTurns
  <2>3. EndCancelled(g, TRUE)
    BY <1>8 DEF Flushed
  <2>4. QED
    BY <1>1, <2>1, <2>2, <2>3, HistoryEndCancelled
<1>9. CASE ClearSent
  <2>1. Entry("assistant", partial, TRUE) \in Entries
    BY EntryType DEF TypeOK, EndpointTypes
  <2>2. CASE history' = Append(history, Entry("assistant", partial, TRUE))
    <3>1. Extends /\ \A i \in NewMessages : history'[i] = Entry("assistant", partial, TRUE)
      BY <2>1, <2>2, HistoryAppend
    <3>2. \A h \in partial : Over(h)'
      BY <1>1 DEF Inductive, CutShortIsOver, MonotoneTurns, TypeOK, EndpointTypes
    <3>3. CutShort
      BY <3>1, <3>2 DEF CutShort, Entry
    <3>4. QED
      BY <3>1, <3>3 DEF HistoryStep
  <2>3. QED
    BY <1>2, <1>9, <2>2 DEF ClearSent
<1>10. CASE \E s \in BOOLEAN : MediaFrame(s) \/ Reconnected(s)
  BY <1>2, <1>10 DEF MediaFrame, Reconnected, DetectSpeech
<1>11. CASE Cleanup
  BY <1>2, <1>11
  DEF Cleanup, EndOfCall, NoSession, CurrentCancelled, TasksGathered, Close, sessionVars
<1>12. ASSUME NEW g \in Gens,
              \/ Generate(g) \/ Sentence(g) \/ SendAudio(g) \/ SentenceSpoken(g)
              \/ LlmFails(g) \/ ApologyDone(g)
       PROVE  HistoryStep
  BY <1>2, <1>12
  DEF Generate, Sentence, SendAudio, SentenceSpoken, LlmFails, ApologyDone, sessionVars
<1>13. CASE \/ StartFails \/ ReconnectFails \/ OtherMessage \/ StreamOver \/ MonitorFires
            \/ SttLost \/ Terminated \/ UNCHANGED vars
  BY <1>2, <1>13
  DEF StartFails, ReconnectFails, OtherMessage, StreamOver, MonitorFires, SttLost,
      Terminated, vars, sessionVars
<1>14. QED
  BY <1>3, <1>4, <1>5, <1>6, <1>7, <1>8, <1>9, <1>10, <1>11, <1>12, <1>13
  DEF Next, Generation

-----------------------------------------------------------------------------
(***************************************************************************)
(* The parts of the inductive invariant.                                   *)
(***************************************************************************)

\* The three parts about what the history says follow from HistoryStep.
LEMMA HistoryParts ==
  ASSUME TypeOK, Inductive, MonotoneTurns, HistoryStep
  PROVE  /\ HistoryOfCreated'
         /\ AnswersFollowTheirQuestion'
         /\ InterruptedStaysInterrupted'
         /\ \A i \in DOMAIN history' :
              history'[i].interrupted => \A g \in history'[i].of : Over(g)'
<1>1. Extends
  BY DEF HistoryStep
<1>2. \A i \in DOMAIN history' : i \in DOMAIN history \/ i \in NewMessages
  BY <1>1 DEF Extends, NewMessages
<1>3. \A i \in DOMAIN history : history'[i] = history[i]
  BY <1>1 DEF Extends
<1>4. \A i \in DOMAIN history : history[i].of \subseteq Gens
  <2>1. history \in Seq(Entries)
    BY DEF TypeOK, SessionTypes
  <2>2. \A i \in DOMAIN history : history[i] \in Entries
    BY <2>1, LenProperties
  <2>3. QED
    BY <2>2 DEF Entries
<1>5. \A i \in DOMAIN history, g \in Gens :
        g \in history[i].of => Created(g) /\ (history[i].interrupted => Over(g))
  BY DEF Inductive, HistoryOfCreated, CutShortIsOver
<1>6. \A i \in DOMAIN history, g \in Gens :
        g \in history[i].of => Created(g)' /\ (history[i].interrupted => Over(g)')
  BY <1>5 DEF MonotoneTurns
<1>7. CASE Questions
  <2>1. \A i \in NewMessages : ~Answer(history'[i]) /\ ~history'[i].interrupted
    BY <1>7 DEF Questions, Answer
  <2>2. HistoryOfCreated'
    BY <1>2, <1>3, <1>4, <1>6, <1>7 DEF HistoryOfCreated, Questions
  <2>3. AnswersFollowTheirQuestion'
    BY <1>1, <1>2, <1>3, <2>1
    DEF Inductive, AnswersFollowTheirQuestion, Extends, NewMessages, Answer
  <2>4. InterruptedStaysInterrupted'
    BY <1>1, <1>2, <1>3, <2>1
    DEF Inductive, InterruptedStaysInterrupted, Extends, NewMessages, Answer
  <2>5. QED
    BY <1>2, <1>3, <1>4, <1>6, <2>1, <2>2, <2>3, <2>4
<1>8. CASE CutShort
  <2>1. \A i \in NewMessages : ~Answer(history'[i]) /\ history'[i].role # "user"
    BY <1>8 DEF CutShort, Answer
  <2>2. HistoryOfCreated'
    BY <1>2, <1>3, <1>4, <1>6, <1>8 DEF HistoryOfCreated, CutShort, Over
  <2>3. AnswersFollowTheirQuestion'
    BY <1>1, <1>2, <1>3, <2>1
    DEF Inductive, AnswersFollowTheirQuestion, Extends, NewMessages, Answer
  <2>4. InterruptedStaysInterrupted'
    BY <1>1, <1>2, <1>3, <2>1
    DEF Inductive, InterruptedStaysInterrupted, Extends, NewMessages, Answer
  <2>5. QED
    BY <1>2, <1>3, <1>4, <1>6, <1>8, <2>2, <2>3, <2>4 DEF CutShort
<1>9. ASSUME NEW g \in Gens, Active(g), Answers(g)
      PROVE  /\ HistoryOfCreated'
             /\ AnswersFollowTheirQuestion'
             /\ InterruptedStaysInterrupted'
             /\ \A i \in DOMAIN history' :
                  history'[i].interrupted => \A h \in history'[i].of : Over(h)'
  <2>1. \A i \in NewMessages : /\ history'[i].role = "assistant"
                               /\ ~history'[i].interrupted
                               /\ history'[i].of = {g}
    BY <1>9 DEF Answers, Answer
  <2>2. Created(g)' /\ Created(g) /\ g = current /\ ~Over(g)
    BY <1>9 DEF Active, Created, Over, MonotoneTurns, Inductive, OnlyCurrentIsActive
  <2>3. \A h \in Gens : Created(h) => h <= g
    BY <2>2 DEF Inductive, TurnsInOrder, Gens, None
  <2>4. HistoryOfCreated'
    BY <1>2, <1>3, <1>4, <1>6, <2>1, <2>2 DEF HistoryOfCreated
  <2>5. AnswersFollowTheirQuestion'
    <3> SUFFICES ASSUME NEW i \in DOMAIN history', NEW j \in DOMAIN history', j < i,
                        Answer(history'[i]), history'[j].role = "user"
                 PROVE  \A x \in history'[i].of, y \in history'[j].of : y <= x
      BY DEF AnswersFollowTheirQuestion, Answer
    <3>1. j \in DOMAIN history /\ history'[j] = history[j]
      BY <1>2, <1>3, <2>1
    <3>2. CASE i \in DOMAIN history
      BY <1>3, <3>1, <3>2 DEF Inductive, AnswersFollowTheirQuestion
    <3>3. CASE i \in NewMessages
      BY <1>4, <1>5, <2>1, <2>3, <3>1, <3>3
    <3>4. QED
      BY <1>2, <3>2, <3>3
  <2>6. InterruptedStaysInterrupted'
    <3> SUFFICES ASSUME NEW i \in DOMAIN history', NEW j \in DOMAIN history', i < j,
                        history'[i].interrupted, Answer(history'[j])
                 PROVE  history'[i].of \cap history'[j].of = {}
      BY DEF InterruptedStaysInterrupted, Answer
    <3>1. i \in DOMAIN history /\ history'[i] = history[i]
      BY <1>2, <1>3, <2>1
    <3>2. CASE j \in DOMAIN history
      BY <1>3, <3>1, <3>2 DEF Inductive, InterruptedStaysInterrupted
    <3>3. CASE j \in NewMessages
      BY <1>4, <1>5, <2>1, <2>2, <3>1, <3>3
    <3>4. QED
      BY <1>2, <3>2, <3>3
  <2>7. QED
    BY <1>2, <1>3, <1>4, <1>6, <2>1, <2>4, <2>5, <2>6
<1>10. QED
  BY <1>7, <1>8, <1>9 DEF HistoryStep

\* Turns are in order after every step.
LEMMA OrderStep ==
  ASSUME TypeOK, Inductive, [Next]_vars
  PROVE  TurnsInOrder' /\ CancelsRunningTasks'
<1>1. CancelsRunningTasks
  BY DEF Inductive
<1>2. ASSUME KeepsTurns, current' = current \/ current' = None
      PROVE  TurnsInOrder'
  BY <1>2 DEF KeepsTurns, Inductive, TurnsInOrder, TypeOK, SessionTypes, None
<1>3. CASE StartEvent \/ \E g \in Gens : OnTranscript(g)
  BY <1>3, StartCreatesGreeting, TranscriptStartsTurn
<1>4. ASSUME NEW g \in Gens, Generation(g)
      PROVE  TurnsInOrder' /\ CancelsRunningTasks'
  <2>1. current' = current
    BY <1>4
    DEF Generation, Generate, Sentence, SendAudio, SentenceSpoken, StreamEnds, LlmFails,
        FailsWithText, ApologyDone, DeliverCancel, Flushed, sessionVars
  <2>2. QED
    BY <1>1, <1>2, <1>4, <2>1, GenerationKeepsTurns
<1>5. CASE \/ \E s \in BOOLEAN : MediaFrame(s) \/ Reconnected(s)
           \/ ReconnectFails \/ ClearSent \/ OtherMessage \/ StreamOver \/ Cleanup
           \/ StartFails \/ MonitorFires \/ SttLost \/ Terminated \/ UNCHANGED vars
  <2>1. current' = current \/ current' = None
    BY <1>5
    DEF MediaFrame, Reconnected, DetectSpeech, ReconnectFails, ClearSent, OtherMessage,
        StreamOver, Cleanup, EndOfCall, NoSession, CurrentCancelled, TasksGathered, Close,
        StartFails, MonitorFires, SttLost, Terminated, vars, sessionVars
  <2>2. QED
    BY <1>1, <1>2, <1>5, <2>1, EndpointKeepsTurns
<1>6. QED
  BY <1>3, <1>4, <1>5 DEF Next

\* Tasks that run are in cleanup()'s list until it drops it.
LEMMA TrackedStep ==
  ASSUME TypeOK, Inductive, [Next]_vars
  PROVE  RunningIsTracked'
<1>1. CancelsRunningTasks
  BY DEF Inductive
<1>2. ASSUME KeepsTurns, UNCHANGED tracked, loop \in {"closing", "closed"} => loop' \in {"closing", "closed"}
      PROVE  RunningIsTracked'
  BY <1>2 DEF KeepsTurns, Inductive, RunningIsTracked, Running
<1>3. CASE StartEvent \/ \E g \in Gens : OnTranscript(g)
  BY <1>3, StartCreatesGreeting, TranscriptStartsTurn
<1>4. ASSUME NEW g \in Gens, Generation(g)
      PROVE  RunningIsTracked'
  <2>1. tracked' = tracked /\ loop' = loop
    BY <1>4
    DEF Generation, Generate, Sentence, SendAudio, SentenceSpoken, StreamEnds, LlmFails,
        FailsWithText, ApologyDone, DeliverCancel, Flushed, sessionVars, endpointVars
  <2>2. QED
    BY <1>1, <1>2, <1>4, <2>1, GenerationKeepsTurns
<1>5. CASE \/ \E s \in BOOLEAN : MediaFrame(s) \/ Reconnected(s)
           \/ ReconnectFails \/ ClearSent \/ OtherMessage \/ StreamOver \/ Cleanup
           \/ StartFails \/ MonitorFires \/ SttLost \/ Terminated \/ UNCHANGED vars
  <2>1. KeepsTurns
    BY <1>1, <1>5, EndpointKeepsTurns
  <2>2. CASE loop' = "closing"
    BY <2>2 DEF RunningIsTracked
  <2>3. CASE loop' # "closing"
    <3>1. GatherTasks => UNCHANGED tracked
      BY <2>3 DEF GatherTasks, DropTasks
    <3>2. /\ UNCHANGED tracked
          /\ loop \in {"closing", "closed"} => loop' \in {"closing", "closed"}
      BY <1>5, <2>3, <3>1
      DEF MediaFrame, Reconnected, DetectSpeech, ReconnectFails, ClearSent, OtherMessage,
          StreamOver, Cleanup, EndOfCall, NoSession, CurrentCancelled, TasksGathered, DropTasks,
          Close, StartFails, MonitorFires, SttLost, Terminated, vars, sessionVars, endpointVars
    <3>3. QED
      BY <1>2, <2>1, <3>2
  <2>4. QED
    BY <2>2, <2>3
<1>6. QED
  BY <1>3, <1>4, <1>5 DEF Next

\* The current generation stays the only active one.
LEMMA ActiveStep ==
  ASSUME TypeOK, Inductive, [Next]_vars
  PROVE  OnlyCurrentIsActive'
<1>1. CancelsRunningTasks
  BY DEF Inductive
<1>2. ASSUME KeepsTurns, UNCHANGED current
      PROVE  OnlyCurrentIsActive'
  BY <1>2 DEF KeepsTurns, Inductive, OnlyCurrentIsActive
<1>3. CASE StartEvent \/ \E g \in Gens : OnTranscript(g)
  BY <1>3, StartCreatesGreeting, TranscriptStartsTurn DEF OnlyCurrentIsActive
<1>4. ASSUME NEW g \in Gens, Generation(g)
      PROVE  OnlyCurrentIsActive'
  <2>1. current' = current
    BY <1>4
    DEF Generation, Generate, Sentence, SendAudio, SentenceSpoken, StreamEnds, LlmFails,
        FailsWithText, ApologyDone, DeliverCancel, Flushed, sessionVars
  <2>2. QED
    BY <1>1, <1>2, <1>4, <2>1, GenerationKeepsTurns
<1>5. CASE CurrentCancelled
  <2>1. \A h \in Gens : Running(h) => h \in tracked
    BY <1>5 DEF CurrentCancelled, Inductive, RunningIsTracked
  <2>2. UNCHANGED pc
    BY <1>5 DEF CurrentCancelled
  <2>3. GatherTasks
    BY <1>5 DEF CurrentCancelled
  <2>4. \A h \in Gens : ~Active(h)'
    BY <2>1, <2>2, <2>3
    DEF GatherTasks, Cancelled, Active, Running, TypeOK, GenTypes, Awaits
  <2>5. QED
    BY <2>4 DEF OnlyCurrentIsActive
<1>6. CASE \/ \E s \in BOOLEAN : MediaFrame(s) \/ Reconnected(s)
           \/ ReconnectFails \/ ClearSent \/ OtherMessage \/ StreamOver
           \/ EndOfCall \/ NoSession \/ TasksGathered \/ Close
           \/ StartFails \/ MonitorFires \/ SttLost \/ Terminated \/ UNCHANGED vars
  <2>1. UNCHANGED current
    BY <1>6
    DEF MediaFrame, Reconnected, DetectSpeech, ReconnectFails, ClearSent, OtherMessage,
        StreamOver, EndOfCall, NoSession, TasksGathered, Close,
        StartFails, MonitorFires, SttLost, Terminated, vars, sessionVars
  <2>2. QED
    BY <1>1, <1>2, <1>6, <2>1, EndpointKeepsTurns DEF Cleanup
<1>7. QED
  BY <1>3, <1>4, <1>5, <1>6 DEF Next, Cleanup

\* The texts a barge-in reads off the tracker belong to generations that are
\* over by then.
LEMMA CutShortStep ==
  ASSUME TypeOK, Inductive, [Next]_vars
  PROVE  CutShortIsOver'
<1> USE DEF TypeOK, SessionTypes, EndpointTypes
<1>1. MonotoneTurns
  BY StepsAreMonotone
<1>2. \A i \in DOMAIN history' :
        history'[i].interrupted => \A g \in history'[i].of : Over(g)'
  BY <1>1, StepsExtendHistory, HistoryParts
<1>3. ASSUME tracker' \subseteq tracker, partial' \subseteq partial
      PROVE  CutShortIsOver'
  BY <1>1, <1>2, <1>3 DEF MonotoneTurns, Inductive, CutShortIsOver
<1>4. ASSUME NEW g \in Gens, SendAudio(g)
      PROVE  CutShortIsOver'
  <2>1. tracker' = tracker \cup {g} /\ partial' = partial /\ Created(g)
    BY <1>4 DEF SendAudio, At, Created, endpointVars
  <2>2. QED
    BY <1>1, <1>2, <2>1 DEF MonotoneTurns, Inductive, CutShortIsOver
<1>5. ASSUME NEW s \in BOOLEAN, DetectSpeech(s)
      PROVE  CutShortIsOver'
  <2>1. CASE BargeIn
    <3>1. partial' = tracker /\ tracker' = {} /\ cancelling' = Cancelled({current})
      BY <2>1 DEF BargeIn
    <3>2. UNCHANGED pc
      BY <1>5 DEF DetectSpeech
    <3>3. \A h \in tracker : Created(h)
      BY DEF Inductive, CutShortIsOver
    <3>4. \A h \in Gens : Active(h) => h = current
      BY DEF Inductive, OnlyCurrentIsActive
    <3>5. \A h \in Gens : ~Active(h)'
      BY <3>1, <3>2, <3>4 DEF Cancelled, Active, Running, GenTypes, Awaits
    <3>6. \A h \in partial' : Over(h)'
      BY <1>1, <3>1, <3>3, <3>5 DEF Over, MonotoneTurns
    <3>7. QED
      BY <1>2, <3>1, <3>6 DEF CutShortIsOver
  <2>2. CASE ~BargeIn
    BY <1>3, <1>5, <2>2 DEF DetectSpeech
  <2>3. QED
    BY <2>1, <2>2
<1>6. CASE \E s \in BOOLEAN : MediaFrame(s) \/ Reconnected(s)
  BY <1>3, <1>5, <1>6 DEF MediaFrame, Reconnected
<1>7. CASE StartEvent \/ \E g \in Gens : OnTranscript(g)
  BY <1>3, <1>7 DEF StartEvent, OnTranscript, endpointVars
<1>8. ASSUME NEW g \in Gens, Generation(g), ~SendAudio(g)
      PROVE  CutShortIsOver'
  <2>1. tracker' \subseteq tracker /\ partial' = partial
    BY <1>8
    DEF Generation, Generate, Sentence, SentenceSpoken, StreamEnds, LlmFails,
        FailsWithText, ApologyDone, DeliverCancel, Flushed, sessionVars, endpointVars
  <2>2. QED
    BY <1>3, <2>1
<1>9. CASE \/ ReconnectFails \/ ClearSent \/ OtherMessage \/ StreamOver \/ Cleanup
           \/ StartFails \/ MonitorFires \/ SttLost \/ Terminated \/ UNCHANGED vars
  <2>1. tracker' \subseteq tracker /\ partial' \subseteq partial
    BY <1>9
    DEF ReconnectFails, ClearSent, OtherMessage, StreamOver, Cleanup, EndOfCall, NoSession,
        CurrentCancelled, TasksGathered, Close, StartFails, MonitorFires, SttLost,
        Terminated, vars, sessionVars, endpointVars
  <2>2. QED
    BY <1>3, <2>1
<1>10. QED
  BY <1>4, <1>6, <1>7, <1>8, <1>9 DEF Next

\* Without a session nothing of it exists.
LEMMA SessionStep ==
  ASSUME TypeOK, Inductive, [Next]_vars
  PROVE  NoTurnsWithoutSession'
<1>1. /\ ~session => /\ loop \in {"waiting", "finally", "closed"}
                     /\ stt = "closed" /\ history = <<>> /\ ~endCall
                     /\ \A h \in Gens : pc[h] = "idle" /\ ~cancelling[h]
      /\ loop = "waiting" => ~session
  BY DEF Inductive, NoTurnsWithoutSession, CancelsRunningTasks, Created, Running
<1>2. ASSUME session, session', loop' # "waiting"
      PROVE  NoTurnsWithoutSession'
  BY <1>2 DEF NoTurnsWithoutSession
<1>3. ASSUME ~session, UNCHANGED <<session, stt, history, endCall, pc>>,
             loop' \in {"waiting", "finally", "closed"}
      PROVE  NoTurnsWithoutSession'
  BY <1>1, <1>3 DEF NoTurnsWithoutSession, Created
<1>4. CASE StartEvent
  BY <1>4 DEF StartEvent, NoTurnsWithoutSession
<1>5. ASSUME NEW g \in Gens, OnTranscript(g) \/ Generation(g)
      PROVE  NoTurnsWithoutSession'
  <2>1. session
    BY <1>1, <1>5
    DEF OnTranscript, Generation, Generate, Sentence, SendAudio, SentenceSpoken, StreamEnds,
        LlmFails, FailsWithText, ApologyDone, DeliverCancel, Flushed, At
  <2>2. session' = session /\ loop' = loop
    BY <1>5
    DEF OnTranscript, Generation, Generate, Sentence, SendAudio, SentenceSpoken, StreamEnds,
        LlmFails, FailsWithText, ApologyDone, DeliverCancel, Flushed, endpointVars
  <2>3. QED
    BY <1>1, <1>2, <2>1, <2>2
<1>6. CASE \/ \E s \in BOOLEAN : MediaFrame(s) \/ Reconnected(s)
           \/ ReconnectFails \/ ClearSent \/ OtherMessage
           \/ EndOfCall \/ CurrentCancelled \/ TasksGathered \/ Close
  <2>1. session
    BY <1>1, <1>6
    DEF MediaFrame, Reconnected, ReconnectFails, ClearSent, OtherMessage, EndOfCall,
        CurrentCancelled, TasksGathered, Close
  <2>2. session' = session /\ loop' # "waiting"
    BY <1>6
    DEF MediaFrame, Reconnected, DetectSpeech, BargeIn, AfterMedia, LoopTop, ReconnectFails,
        ClearSent, OtherMessage, EndOfCall, CurrentCancelled, TasksGathered, Close,
        GatherTasks, DropTasks
  <2>3. QED
    BY <1>2, <2>1, <2>2
<1>7. CASE StartFails \/ StreamOver \/ NoSession
  <2>1. UNCHANGED <<session, stt, history, endCall, pc>> /\ loop' \in {"finally", "closed"}
    BY <1>7 DEF StartFails, StreamOver, NoSession, sessionVars, genVars
  <2>2. QED
    BY <1>2, <1>3, <2>1 DEF TypeOK, EndpointTypes
<1>8. CASE MonitorFires \/ Terminated \/ UNCHANGED vars
  <2>1. UNCHANGED <<session, stt, history, endCall, pc, loop>>
    BY <1>8 DEF MonitorFires, Terminated, vars, sessionVars, genVars, endpointVars
  <2>2. QED
    BY <1>1, <1>2, <1>3, <2>1
<1>9. CASE SttLost
  <2>1. session
    BY <1>1, <1>9 DEF SttLost
  <2>2. session' = session /\ loop' = loop
    BY <1>9 DEF SttLost, endpointVars
  <2>3. QED
    BY <1>1, <1>2, <2>1, <2>2
<1>10. QED
  BY <1>4, <1>5, <1>6, <1>7, <1>8, <1>9 DEF Next, Cleanup

\* A completed answer is saved by the step that records it.
LEMMA PersistStep ==
  ASSUME TypeOK, Inductive, [Next]_vars
  PROVE  AnswersPersisted'
<1>1. HistoryStep
  BY StepsExtendHistory
<1>2. Extends
  BY <1>1 DEF HistoryStep
<1>3. CASE saveFailed'
  BY <1>3 DEF AnswersPersisted
<1>4. CASE saved' = Len(history')
  BY <1>2, <1>4 DEF AnswersPersisted, Extends, Answer
<1>5. ASSUME UNCHANGED <<saved, saveFailed>>, \A i \in NewMessages : ~Answer(history'[i])
      PROVE  AnswersPersisted'
  BY <1>2, <1>5 DEF Inductive, AnswersPersisted, Extends, NewMessages, Answer
<1>6. ASSUME UNCHANGED <<saved, saveFailed, history>>
      PROVE  AnswersPersisted'
  BY <1>6 DEF Inductive, AnswersPersisted, Answer
<1>7. ASSUME NEW STATE h, h = history, UNCHANGED history, TriggerFallback(h) \/ SaveRefused
      PROVE  AnswersPersisted'
  BY <1>3, <1>4, <1>7 DEF TriggerFallback, SaveOk, SaveRefused
<1>8. ASSUME NEW g \in Gens, StreamEnds(g)
      PROVE  AnswersPersisted'
  BY <1>4, <1>8 DEF StreamEnds, SaveOk
<1>9. ASSUME NEW g \in Gens, NEW n \in 1..2, FailsWithText(g, n)
      PROVE  AnswersPersisted'
  BY <1>3, <1>4, <1>9 DEF FailsWithText, TriggerFallback, SaveOk, SaveRefused
<1>10. ASSUME NEW g \in Gens, LlmFails(g)
       PROVE  AnswersPersisted'
  BY <1>6, <1>7, <1>10 DEF LlmFails
<1>11. CASE ReconnectFails \/ MonitorFires
  BY <1>7, <1>11 DEF ReconnectFails, MonitorFires, sessionVars
<1>12. ASSUME UNCHANGED <<saved, saveFailed>>, NEW STATE e, e \in Entries, ~Answer(e),
              history' = history \/ history' = Append(history, e)
       PROVE  AnswersPersisted'
  <2>1. CASE history' = Append(history, e)
    <3>1. \A i \in NewMessages : history'[i] = e
      BY <1>12, <2>1, HistoryAppend
    <3>2. QED
      BY <1>5, <1>12, <3>1 DEF Answer
  <2>2. QED
    BY <1>6, <1>12, <2>1
<1>13. ASSUME NEW g \in Gens, NEW text, EndCancelled(g, text), UNCHANGED <<saved, saveFailed>>
       PROVE  AnswersPersisted'
  <2>1. Entry("assistant", {g}, TRUE) \in Entries
    BY EntryType
  <2>2. ~Answer(Entry("assistant", {g}, TRUE))
    BY DEF Answer, Entry
  <2>3. history' = history \/ history' = Append(history, Entry("assistant", {g}, TRUE))
    BY <1>13 DEF EndCancelled
  <2>4. QED
    BY <1>12, <1>13, <2>1, <2>2, <2>3
<1>14. ASSUME NEW g \in Gens, DeliverCancel(g) \/ Flushed(g)
       PROVE  AnswersPersisted'
  <2>1. UNCHANGED <<saved, saveFailed>>
    BY <1>14 DEF DeliverCancel, Flushed, otherVars
  <2>2. UNCHANGED history \/ \E text \in BOOLEAN : EndCancelled(g, text)
    BY <1>14 DEF DeliverCancel, Flushed
  <2>3. QED
    BY <1>6, <1>13, <2>1, <2>2
<1>15. ASSUME NEW g \in Gens, OnTranscript(g)
       PROVE  AnswersPersisted'
  <2>1. Entry("user", {g}, FALSE) \in Entries
    BY EntryType
  <2>2. ~Answer(Entry("user", {g}, FALSE))
    BY DEF Answer, Entry
  <2>3. QED
    BY <1>12, <1>15, <2>1, <2>2 DEF OnTranscript, otherVars
<1>16. CASE ClearSent
  <2>1. Entry("assistant", partial, TRUE) \in Entries
    BY EntryType DEF TypeOK, EndpointTypes
  <2>2. ~Answer(Entry("assistant", partial, TRUE))
    BY DEF Answer, Entry
  <2>3. QED
    BY <1>12, <1>16, <2>1, <2>2 DEF ClearSent, otherVars
<1>17. CASE StartEvent
  <2>1. \A i \in DOMAIN history' : ~Answer(history'[i])
    <3>1. history' = <<Entry("system", {}, FALSE), Entry("user", {1}, FALSE)>>
      BY <1>17 DEF StartEvent
    <3>2. QED
      BY <3>1 DEF Answer, Entry
  <2>2. QED
    BY <2>1 DEF AnswersPersisted, Answer
<1>18. ASSUME NEW g \in Gens,
              \/ Generate(g) \/ Sentence(g) \/ SendAudio(g) \/ SentenceSpoken(g) \/ ApologyDone(g)
       PROVE  AnswersPersisted'
  BY <1>6, <1>18
  DEF Generate, Sentence, SendAudio, SentenceSpoken, ApologyDone, sessionVars, otherVars
<1>19. CASE \/ \E s \in BOOLEAN : MediaFrame(s) \/ Reconnected(s)
            \/ OtherMessage \/ StreamOver \/ Cleanup \/ StartFails \/ SttLost \/ Terminated
            \/ UNCHANGED vars
  BY <1>6, <1>19
  DEF MediaFrame, Reconnected, DetectSpeech, OtherMessage, StreamOver, Cleanup, EndOfCall,
      NoSession, CurrentCancelled, TasksGathered, Close, StartFails, SttLost, Terminated,
      vars, sessionVars, otherVars
<1>20. QED
  BY <1>8, <1>9, <1>10, <1>11, <1>14, <1>15, <1>16, <1>17, <1>18, <1>19
  DEF Next, Generation

-----------------------------------------------------------------------------
(***************************************************************************)
(* The theorems.                                                           *)
(***************************************************************************)
LEMMA InitInductive == Init => Inductive
BY DEF Init, Inductive, TurnsInOrder, OnlyCurrentIsActive, CancelsRunningTasks,
       RunningIsTracked, CutShortIsOver, HistoryOfCreated, NoTurnsWithoutSession,
       AnswersFollowTheirQuestion, InterruptedStaysInterrupted, AnswersPersisted,
       Created, Active, Running, Over, None, Gens

\* The inductive invariant, in every reachable state.
THEOREM InductiveInvariant == Spec => []Inductive
<1>1. TypeOK /\ Inductive /\ [Next]_vars => Inductive'
  <2> SUFFICES ASSUME TypeOK, Inductive, [Next]_vars PROVE Inductive'
    OBVIOUS
  <2>1. MonotoneTurns /\ HistoryStep
    BY StepsAreMonotone, StepsExtendHistory
  <2>2. /\ HistoryOfCreated'
        /\ AnswersFollowTheirQuestion'
        /\ InterruptedStaysInterrupted'
    BY <2>1, HistoryParts
  <2>3. QED
    BY <2>2, OrderStep, ActiveStep, TrackedStep, CutShortStep, SessionStep, PersistStep
    DEF Inductive
<1>2. QED
  BY <1>1, InitInductive, TypeCorrect, PTL DEF Spec

\* At most one generation is active: a new turn or a barge-in cancels the one
\* before in whatever await it is.
THEOREM OneGeneration == Spec => []OneActiveGeneration
<1>1. Inductive => OneActiveGeneration
  BY DEF Inductive, OnlyCurrentIsActive, OneActiveGeneration
<1>2. QED
  BY <1>1, InductiveInvariant, PTL

\* No completed answer comes after a later question of the caller.
THEOREM AnswersInOrder == Spec => []AnswersFollowTheirQuestion
<1>1. Inductive => AnswersFollowTheirQuestion
  BY DEF Inductive
<1>2. QED
  BY <1>1, InductiveInvariant, PTL

\* A turn once recorded as interrupted is never completed.
THEOREM InterruptionsAreFinal == Spec => []InterruptedStaysInterrupted
<1>1. Inductive => InterruptedStaysInterrupted
  BY DEF Inductive
<1>2. QED
  BY <1>1, InductiveInvariant, PTL

\* Unless Redis refused the last save, it holds every completed answer.
THEOREM AnswersAreSaved == Spec => []AnswersPersisted
<1>1. Inductive => AnswersPersisted
  BY DEF Inductive
<1>2. QED
  BY <1>1, InductiveInvariant, PTL

-----------------------------------------------------------------------------
(***************************************************************************)
(* While the stream is open, PROCESSING means that somebody is at work.    *)
(***************************************************************************)
StreamOpen == loop \in {"waiting", "receiving", "reconnecting", "clearing", "draining"}

\* A turn in PROCESSING has not spoken yet: its end resets the state whichever
\* way it takes.
FreshTurn ==
  /\ \A g \in Gens : firstAudio[g] => Created(g)
  /\ pipelineState = "PROCESSING" /\ current \in Gens => ~firstAudio[current]

AtWork == AnswerIsOnItsWay /\ FreshTurn

\* A new turn is active and has not spoken.
LEMMA NewTurnAtWork ==
  ASSUME TypeOK, Inductive, FreshTurn,
         StartEvent \/ \E g \in Gens : OnTranscript(g)
  PROVE  AtWork'
<1> USE DEF TypeOK, GenTypes, Awaits, SessionTypes
<1>1. ASSUME NEW g \in Gens, ~Created(g), StartGeneration(g),
             cancelling'[g] = cancelling[g]
      PROVE  AtWork'
  <2>1. Active(g)'
    BY <1>1 DEF StartGeneration, Active, Created, Running, Inductive, CancelsRunningTasks
  <2>2. FreshTurn'
    BY <1>1 DEF StartGeneration, FreshTurn, Created
  <2>3. QED
    BY <1>1, <2>1, <2>2 DEF StartGeneration, AtWork, AnswerIsOnItsWay
<1>2. CASE StartEvent
  BY <1>1, <1>2, StartCreatesGreeting DEF StartEvent
<1>3. ASSUME NEW g \in Gens, OnTranscript(g)
      PROVE  AtWork'
  <2>1. cancelling'[g] = cancelling[g]
    BY <1>3 DEF OnTranscript, Cancelled, Running, Created
  <2>2. QED
    BY <1>1, <1>3, <2>1 DEF OnTranscript
<1>4. QED
  BY <1>2, <1>3

\* A generation's step: one that ends the current turn leaves PROCESSING.
LEMMA GenerationAtWork ==
  ASSUME TypeOK, Inductive, AtWork, NEW g \in Gens, Generation(g)
  PROVE  AtWork'
<1> USE DEF TypeOK, GenTypes, Awaits, SessionTypes
<1>1. UNCHANGED <<loop, current>>
  BY DEF Generation, Generate, Sentence, SendAudio, SentenceSpoken, StreamEnds, LlmFails,
         FailsWithText, ApologyDone, DeliverCancel, Flushed, sessionVars, endpointVars
<1>2. \A h \in Gens : Created(h)' <=> Created(h)
  BY GenerationKeepsTurns DEF Inductive, KeepsTurns
<1>3. \A h \in Gens : Active(h) /\ h # g => Active(h)'
  BY DEF Generation, Generate, Sentence, SendAudio, SentenceSpoken, StreamEnds, LlmFails,
         FailsWithText, Raises, ApologyDone, DeliverCancel, EndCancelled, Flushed,
         genVars, Active
<1>4. FreshTurn'
  <2>1. \/ UNCHANGED firstAudio /\ (pipelineState' = "PROCESSING" => pipelineState = "PROCESSING")
        \/ Running(g) /\ MarkSpeaking(g)
    BY DEF Generation, Generate, Sentence, SendAudio, SentenceSpoken, StreamEnds, LlmFails,
           FailsWithText, Raises, AfterTurn, AfterError, AfterSpeaking, ApologyDone,
           DeliverCancel, Flushed, genVars, sessionVars, At, Running
  <2>2. CASE UNCHANGED firstAudio /\ (pipelineState' = "PROCESSING" => pipelineState = "PROCESSING")
    BY <1>1, <1>2, <2>2 DEF AtWork, FreshTurn
  <2>3. CASE Running(g) /\ MarkSpeaking(g)
    <3>1. Created(g)
      BY <2>3 DEF Running, Created
    <3>2. \A h \in Gens : firstAudio'[h] => Created(h)
      BY <2>3, <3>1 DEF MarkSpeaking, AtWork, FreshTurn
    <3>3. pipelineState' = "PROCESSING" => firstAudio[g] /\ pipelineState = "PROCESSING"
      BY <2>3 DEF MarkSpeaking
    <3>4. firstAudio[g] => firstAudio' = firstAudio
      BY <2>3 DEF MarkSpeaking
    <3>5. QED
      BY <1>1, <1>2, <3>2, <3>3, <3>4 DEF AtWork, FreshTurn
  <2>4. QED
    BY <2>1, <2>2, <2>3
<1>5. AnswerIsOnItsWay'
  <2> SUFFICES ASSUME pipelineState' = "PROCESSING", StreamOpen'
               PROVE  current' \in Gens /\ Active(current)'
    BY DEF AnswerIsOnItsWay, StreamOpen
  <2>1. pipelineState = "PROCESSING"
    BY DEF Generation, Generate, Sentence, SendAudio, SentenceSpoken, MarkSpeaking,
           StreamEnds, LlmFails, FailsWithText, Raises, AfterTurn, AfterError,
           AfterSpeaking, ApologyDone, DeliverCancel, Flushed, sessionVars
  <2>2. current \in Gens /\ Active(current) /\ ~firstAudio[current]
    BY <1>1, <2>1 DEF AtWork, AnswerIsOnItsWay, FreshTurn, StreamOpen
  <2>3. CASE current # g
    BY <1>1, <1>3, <2>2, <2>3
  <2>4. CASE current = g
    <3>1. ~DeliverCancel(g) /\ ~Flushed(g)
      BY <2>2, <2>4 DEF DeliverCancel, Flushed, At, Active
    <3>2. ~StreamEnds(g)
      BY <2>1, <2>2, <2>4 DEF StreamEnds, AfterTurn, AfterError
    <3>3. CASE LlmFails(g) \/ \E n \in 1..2 : FailsWithText(g, n)
      <4>1. At(g, "llm") /\ UNCHANGED cancelling
        BY <3>3 DEF LlmFails, FailsWithText
      <4>2. pc' = [pc EXCEPT ![g] = ApologyOrRetry]
        BY <3>3 DEF LlmFails, FailsWithText, Raises, AfterError
      <4>3. QED
        BY <1>1, <2>4, <4>1, <4>2 DEF At, Active, ApologyOrRetry
    <3>4. CASE Generate(g) \/ Sentence(g) \/ SentenceSpoken(g) \/ ApologyDone(g)
      BY <1>1, <2>4, <3>4 DEF Generate, Sentence, SentenceSpoken, ApologyDone, At, Active
    <3>5. CASE SendAudio(g)
      BY <1>1, <2>2, <3>5 DEF SendAudio, genVars, Active
    <3>6. QED
      BY <3>1, <3>2, <3>3, <3>4, <3>5 DEF Generation
  <2>5. QED
    BY <2>3, <2>4
<1>6. QED
  BY <1>4, <1>5 DEF AtWork

\* The endpoint cancels the current generation only in a barge-in, which leaves
\* PROCESSING too, and at the end of the call.
LEMMA EndpointAtWork ==
  ASSUME TypeOK, AtWork,
         \/ \E s \in BOOLEAN : MediaFrame(s) \/ Reconnected(s)
         \/ ReconnectFails \/ ClearSent \/ OtherMessage \/ StreamOver \/ Cleanup
         \/ StartFails \/ MonitorFires \/ SttLost \/ Terminated \/ UNCHANGED vars
  PROVE  AtWork'
<1> USE DEF TypeOK, SessionTypes
<1>1. /\ UNCHANGED <<pc, firstAudio>>
      /\ pipelineState' = "PROCESSING" => pipelineState = "PROCESSING"
      /\ current' \in {current, None}
  BY DEF MediaFrame, Reconnected, DetectSpeech, BargeIn, ReconnectFails, ClearSent,
         OtherMessage, StreamOver, Cleanup, EndOfCall, NoSession, CurrentCancelled,
         TasksGathered, Close, StartFails, MonitorFires, SttLost, Terminated, vars, genVars,
         sessionVars
<1>2. FreshTurn'
  BY <1>1 DEF AtWork, FreshTurn, Created, None, Gens
<1>3. StreamOpen' /\ pipelineState' = "PROCESSING" => StreamOpen /\ UNCHANGED <<current, cancelling>>
  BY DEF MediaFrame, Reconnected, DetectSpeech, BargeIn, ReconnectFails, ClearSent,
         OtherMessage, StreamOver, Cleanup, EndOfCall, GatherTasks, DropTasks, NoSession,
         CurrentCancelled, TasksGathered, Close, StartFails, MonitorFires, SttLost,
         Terminated, vars, genVars, sessionVars, endpointVars, StreamOpen
<1>4. AnswerIsOnItsWay'
  BY <1>1, <1>3 DEF AtWork, AnswerIsOnItsWay, StreamOpen, Active
<1>5. QED
  BY <1>2, <1>4 DEF AtWork

\* While the stream is open, PROCESSING means that the current generation is at
\* work, whatever fails, is cancelled or ends without a sound.
THEOREM AnswersAreOnTheirWay == Spec => []AnswerIsOnItsWay
<1>1. Init => AtWork
  BY DEF Init, AtWork, AnswerIsOnItsWay, FreshTurn
<1>2. TypeOK /\ Inductive /\ AtWork /\ [Next]_vars => AtWork'
  <2> SUFFICES ASSUME TypeOK, Inductive, AtWork, [Next]_vars
               PROVE  AtWork'
    OBVIOUS
  <2>1. FreshTurn
    BY DEF AtWork
  <2>2. QED
    BY <2>1, NewTurnAtWork, GenerationAtWork, EndpointAtWork DEF Next
<1>3. AtWork => AnswerIsOnItsWay
  BY DEF AtWork
<1>4. QED
  BY <1>1, <1>2, <1>3, TypeCorrect, InductiveInvariant, PTL DEF Spec

-----------------------------------------------------------------------------
(***************************************************************************)
(* Refinement: the safety part of CallLifecycle. Its fairness stays with   *)
(* the model checker.                                                      *)
(***************************************************************************)

\* A step inside a phase that says no goodbye and files no report.
LEMMA PhaseStutter ==
  ASSUME UNCHANGED <<loop, session, endCall, reports>>
  PROVE  UNCHANGED Lifecycle!vars
BY DEF Lifecycle!vars, Phase

\* The call starts, ends, is reported once and released in this order, and the
\* report says complete exactly when the assistant had said goodbye.
THEOREM LifecycleSafety == Spec => Lifecycle!Safety
<1>1. Init => Lifecycle!Init
  BY DEF Init, Lifecycle!Init, Phase
<1>2. TypeOK /\ Inductive /\ [Next]_vars => [Lifecycle!Next]_(Lifecycle!vars)
  <2> SUFFICES ASSUME TypeOK, Inductive, [Next]_vars
               PROVE  Lifecycle!Next \/ UNCHANGED Lifecycle!vars
    OBVIOUS
  <2>1. /\ ~session => /\ loop \in {"waiting", "finally", "closed"}
                       /\ stt = "closed"
                       /\ \A h \in Gens : pc[h] = "idle" /\ ~cancelling[h]
        /\ loop = "waiting" => ~session
    BY DEF Inductive, NoTurnsWithoutSession, CancelsRunningTasks, Created, Running
  <2>2. CASE StartEvent
    BY <2>2 DEF StartEvent, Phase, Lifecycle!Next, Lifecycle!Start
  <2>3. ASSUME NEW g \in Gens, OnTranscript(g)
        PROVE  UNCHANGED Lifecycle!vars
    BY <2>3, PhaseStutter DEF OnTranscript, endpointVars
  <2>4. ASSUME NEW g \in Gens, Generation(g)
        PROVE  Lifecycle!Next \/ UNCHANGED Lifecycle!vars
    <3>1. UNCHANGED <<loop, session, reports>>
      BY <2>4
      DEF Generation, Generate, Sentence, SendAudio, SentenceSpoken, StreamEnds, LlmFails,
          FailsWithText, ApologyDone, DeliverCancel, Flushed, endpointVars
    <3>2. endCall' \in {endCall, TRUE}
      BY <2>4
      DEF Generation, Generate, Sentence, SendAudio, SentenceSpoken, StreamEnds, LlmFails,
          FailsWithText, ApologyDone, DeliverCancel, Flushed, sessionVars, HasText,
          TypeOK, SessionTypes
    <3>3. session
      BY <2>1, <2>4
      DEF Generation, Generate, Sentence, SendAudio, SentenceSpoken, StreamEnds, LlmFails,
          FailsWithText, ApologyDone, DeliverCancel, Flushed, At
    <3>4. Phase # "waiting" /\ UNCHANGED Phase
      BY <2>1, <3>1, <3>3 DEF Phase
    <3>5. QED
      BY <3>1, <3>2, <3>4 DEF Lifecycle!Next, Lifecycle!SayGoodbye, Lifecycle!vars
  <2>5. ASSUME NEW s \in BOOLEAN, MediaFrame(s) \/ Reconnected(s)
        PROVE  UNCHANGED Lifecycle!vars
    <3>1. /\ loop \in {"receiving", "reconnecting"}
          /\ loop' \in {"receiving", "reconnecting", "clearing", "draining", "finally"}
          /\ UNCHANGED <<session, endCall, reports>>
      BY <2>5
      DEF MediaFrame, Reconnected, DetectSpeech, BargeIn, AfterMedia, LoopTop
    <3>2. session
      BY <2>1, <3>1
    <3>3. QED
      BY <3>1, <3>2 DEF Lifecycle!vars, Phase
  <2>6. CASE ReconnectFails \/ ClearSent \/ OtherMessage
    <3>1. /\ loop \in {"receiving", "reconnecting", "clearing"}
          /\ loop' \in {"receiving", "draining", "finally"}
          /\ UNCHANGED <<session, endCall, reports>>
      BY <2>6
      DEF ReconnectFails, ClearSent, OtherMessage, AfterMedia, LoopTop, sessionVars
    <3>2. session
      BY <2>1, <3>1
    <3>3. QED
      BY <3>1, <3>2 DEF Lifecycle!vars, Phase
  <2>7. CASE StartFails \/ StreamOver
    <3>1. /\ loop \in {"waiting", "receiving", "draining"}
          /\ loop' = "finally"
          /\ UNCHANGED <<session, endCall, reports>>
      BY <2>7 DEF StartFails, StreamOver, sessionVars
    <3>2. QED
      BY <2>1, <3>1 DEF Lifecycle!vars, Phase
  <2>8. CASE EndOfCall
    <3>1. /\ loop = "finally" /\ session
          /\ loop' \in {"awaitCurrent", "gather", "closing"}
          /\ reports' = Append(reports, ~endCall)
          /\ endCall' = endCall
      BY <2>8 DEF EndOfCall, GatherTasks, DropTasks
    <3>2. Phase = "talking" /\ Phase' = "reported"
      BY <3>1 DEF Phase
    <3>3. QED
      BY <3>1, <3>2 DEF Lifecycle!Next, Lifecycle!File
  <2>9. CASE NoSession
    BY <2>9 DEF NoSession, sessionVars, Phase, Lifecycle!Next, Lifecycle!Abandon
  <2>10. CASE CurrentCancelled \/ TasksGathered
    <3>1. /\ loop \in {"awaitCurrent", "gather"}
          /\ loop' \in {"gather", "closing"}
          /\ UNCHANGED <<endCall, reports>>
      BY <2>10 DEF CurrentCancelled, TasksGathered, GatherTasks, DropTasks
    <3>2. QED
      BY <3>1 DEF Lifecycle!vars, Phase
  <2>11. CASE Close
    BY <2>11 DEF Close, Phase, Lifecycle!Next, Lifecycle!Release
  <2>12. CASE MonitorFires \/ SttLost \/ Terminated \/ UNCHANGED vars
    BY <2>12, PhaseStutter
    DEF MonitorFires, SttLost, Terminated, vars, endpointVars, sessionVars
  <2>13. QED
    BY <2>2, <2>3, <2>4, <2>5, <2>6, <2>7, <2>8, <2>9, <2>10, <2>11, <2>12 DEF Next, Cleanup
<1>3. QED
  BY <1>1, <1>2, TypeCorrect, InductiveInvariant, PTL DEF Spec, Lifecycle!Safety

============================================================================
