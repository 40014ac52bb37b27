---------------------------- MODULE CallPipeline ----------------------------
(***************************************************************************)
(* One real-time voice call: the asyncio tasks of src/src/realtime that    *)
(* share one ConversationSession.                                          *)
(*                                                                         *)
(*   - the WebSocket endpoint (server.py websocket_endpoint), which reads  *)
(*     Twilio's frames, detects barge-in, reports the call and cleans up;  *)
(*   - one generation task per turn (server.py _generate_and_speak over    *)
(*     llm.py generate_response), which streams sentences to TTS;          *)
(*   - the STT receive loop (stt.py), whose callback starts the turns;     *)
(*   - the pipeline health monitor (error_recovery.py).                    *)
(*                                                                         *)
(* The tasks run on one event loop: what happens between two awaits is one *)
(* action here, and every await that can suspend is a value of `loop` or   *)
(* of `pc`. Task.cancel() only asks: `cancelling` is the request and       *)
(* DeliverCancel the CancelledError raised at the await where the task is. *)
(***************************************************************************)
EXTENDS Naturals, Sequences, FiniteSets

CONSTANTS
  MaxGens,   \* turns of a call, the greeting included: bounds the model only
  Failures   \* the parts that may fail during the call

ASSUME MaxGensAssumption == MaxGens \in Nat \ {0}

ASSUME FailuresAssumption == Failures \subseteq {"llm", "redis", "stt", "pipeline"}

PipelineStates == {"LISTENING", "PROCESSING", "SPEAKING", "INTERRUPTED"}

\* where a generation task is: its await, or not created, or over
Awaits == {"idle", "scheduled", "llm", "tts", "apology", "flush", "done"}

Gens == 1..MaxGens
None == 0          \* current_generation_task is None

VARIABLES
  \* the endpoint task
  loop,            \* the await it is suspended in
  session,         \* whether its local `session` is set
  awaited,         \* generation tasks cleanup() is waiting for
  partial,         \* partial_text of the barge-in being handled
  reports,         \* `incomplete` of each process_end_of_call call
  \* the session
  pipelineState,   \* session.pipeline_state
  current,         \* session.current_generation_task
  tracked,         \* session._pipeline_tasks
  tracker,         \* playback_tracker: turns whose audio it has recorded
  history,         \* session.state.conversation_history
  endCall,         \* collected_info["_end_call"]
  stt,             \* the Deepgram connection
  ttsOpen,         \* session.tts_client is not None
  \* the generation tasks
  pc,              \* the await each is suspended in
  cancelling,      \* cancel() called, CancelledError not raised yet
  attempt,         \* 1: generate_response, 2: the retry of handle_llm_failure, 3: it failed too
  accumulated,     \* the attempts whose text accumulated_text holds
  firstAudio,      \* first_audio_sent
  \* the health monitor and the session store
  monitor,
  failure,         \* pipeline_failure_event
  saved,           \* length of the history last saved to Redis
  \* a history variable: it records, no action reads it
  saveFailed       \* a save to Redis has failed

endpointVars == <<loop, session, awaited, partial, reports>>
sessionVars  == <<pipelineState, current, tracked, tracker, history, endCall, stt, ttsOpen>>
genVars      == <<pc, cancelling, attempt, accumulated, firstAudio>>
otherVars    == <<monitor, failure, saved, saveFailed>>
vars         == <<endpointVars, sessionVars, genVars, otherVars>>

(***************************************************************************)
(* The conversation history. Text is abstracted to the turns it belongs    *)
(* to: a partial text read from the playback tracker may mix several.      *)
(***************************************************************************)
Entry(role, of, interrupted) == [role |-> role, of |-> of, interrupted |-> interrupted]

Entries == [role : {"system", "user", "assistant"}, of : SUBSET Gens, interrupted : BOOLEAN]

\* An assistant message a generation completed, as opposed to a text cut short.
Answer(e) == e.role = "assistant" /\ ~e.interrupted

(***************************************************************************)
(* Generation tasks.                                                       *)
(***************************************************************************)
Created(g) == pc[g] # "idle"
Running(g) == pc[g] \notin {"idle", "done"}

\* Neither finished nor asked to stop: what the caller hears next comes from it.
Active(g) == pc[g] \in {"scheduled", "llm", "tts", "apology"} /\ ~cancelling[g]

\* Fault: the done() test of the cancel is inverted.
CancelsDoneTasks(S) == [g \in Gens |-> cancelling[g] \/ (g \in S /\ ~Running(g))]

\* task.cancel() on those of S that are not done
Cancelled(S) == [g \in Gens |-> cancelling[g] \/ (g \in S /\ Running(g))]

At(g, await) == pc[g] = await /\ ~cancelling[g]

HasText(g) == accumulated[g] # {}

\* pipeline_state after on_complete, lines 553-554
AfterSpeaking(s) == IF s = "SPEAKING" THEN "LISTENING" ELSE s

\* Fault: a state the enumeration does not have.
ErrorState(s) == IF s \in {"PROCESSING", "SPEAKING"} THEN "ERROR" ELSE s

\* pipeline_state after a failed turn, lines 614-615
AfterError(s) == IF s \in {"PROCESSING", "SPEAKING"} THEN "LISTENING" ELSE s

\* where a generation task goes to speak an apology: nowhere without a TTS client
ApologyOrRetry == IF ttsOpen THEN "apology" ELSE "llm"

Init ==
  /\ loop = "waiting"
  /\ session = FALSE
  /\ awaited = {}
  /\ partial = {}
  /\ reports = <<>>
  /\ pipelineState = "LISTENING"
  /\ current = None
  /\ tracked = {}
  /\ tracker = {}
  /\ history = <<>>
  /\ endCall = FALSE
  /\ stt = "closed"
  /\ ttsOpen = FALSE
  /\ pc = [g \in Gens |-> "idle"]
  /\ cancelling = [g \in Gens |-> FALSE]
  /\ attempt = [g \in Gens |-> 1]
  /\ accumulated = [g \in Gens |-> {}]
  /\ firstAudio = [g \in Gens |-> FALSE]
  /\ monitor = "off"
  /\ failure = FALSE
  /\ saved = 0
  /\ saveFailed = FALSE

(***************************************************************************)
(* The session store. A save stores the whole history (the last 50         *)
(* messages of it); Redis may refuse it.                                   *)
(***************************************************************************)

\* Fault: the save comes before the append.
SavesBeforeAppend(h) == saved' = Len(history) /\ saveFailed' = FALSE

SaveOk(h) == saved' = Len(h) /\ saveFailed' = FALSE

SaveRefused ==
  /\ "redis" \in Failures
  /\ saveFailed' = TRUE
  /\ UNCHANGED saved

\* _trigger_fallback: save what there is, swallow the error
TriggerFallback(h) == SaveOk(h) \/ SaveRefused

-----------------------------------------------------------------------------
(***************************************************************************)
(* Starting a turn.                                                        *)
(***************************************************************************)

StartGeneration(g) ==
  /\ pc' = [pc EXCEPT ![g] = "scheduled"]
  /\ current' = g
  /\ tracked' = {t \in tracked : Running(t)} \cup {g}
  /\ pipelineState' = "PROCESSING"
  /\ UNCHANGED <<attempt, accumulated, firstAudio>>

\* The start event: _handle_start_event initialises the session, and the
\* greeting task it creates runs up to its first await before any other task
\* of the session can: the loop is first-in first-out, and nobody else can
\* touch the session until Twilio's first frame has been to Deepgram and back.
StartEvent ==
  /\ loop = "waiting"
  /\ loop' = "receiving"
  /\ session' = TRUE
  /\ stt' = "open"
  /\ ttsOpen' = TRUE
  /\ monitor' = "running"
  /\ history' = <<Entry("system", {}, FALSE), Entry("user", {1}, FALSE)>>
  /\ StartGeneration(1)
  /\ UNCHANGED <<awaited, partial, reports, tracker, endCall, cancelling>>
  /\ UNCHANGED <<failure, saved, saveFailed>>

\* session.initialize() raises: it cleans up after itself, the endpoint's
\* `session` stays None and the generic handler ends the loop.
StartFails ==
  /\ loop = "waiting"
  /\ loop' = "finally"
  /\ UNCHANGED <<session, awaited, partial, reports, sessionVars, genVars, otherVars>>

\* _on_transcript with a final transcript, called by the STT receive loop.
OnTranscript(g) ==
  /\ stt = "open"
  /\ ~Created(g)
  /\ \A h \in Gens : h < g => Created(h)
  /\ history' = Append(history, Entry("user", {g}, FALSE))
  /\ cancelling' = Cancelled({current})
  /\ StartGeneration(g)
  /\ UNCHANGED <<tracker, endCall, stt, ttsOpen, endpointVars, otherVars>>

-----------------------------------------------------------------------------
(***************************************************************************)
(* A generation task.                                                      *)
(***************************************************************************)

\* The task starts: it copies the history and asks the LLM.
Generate(g) ==
  /\ At(g, "scheduled")
  /\ pc' = [pc EXCEPT ![g] = "llm"]
  /\ UNCHANGED <<cancelling, attempt, accumulated, firstAudio>>
  /\ UNCHANGED <<endpointVars, sessionVars, otherVars>>

\* The buffer ends a sentence: on_sentence_chunk, up to the TTS request.
Sentence(g) ==
  /\ At(g, "llm")
  /\ accumulated' = [accumulated EXCEPT ![g] = @ \cup {attempt[g]}]
  /\ pc' = [pc EXCEPT ![g] = IF ttsOpen THEN "tts" ELSE "llm"]
  /\ UNCHANGED <<cancelling, attempt, firstAudio>>
  /\ UNCHANGED <<endpointVars, sessionVars, otherVars>>

\* _send_audio_to_twilio: one chunk of TTS audio, recorded once it is sent.
SendAudio(g) ==
  /\ At(g, "tts") \/ At(g, "flush")
  /\ ttsOpen
  /\ tracker' = tracker \cup {g}
  /\ UNCHANGED <<pipelineState, current, tracked, history, endCall, stt, ttsOpen>>
  /\ UNCHANGED <<endpointVars, genVars, otherVars>>

\* The end of on_sentence_chunk: SPEAKING, once the turn's first sentence is
\* through (TTS errors are swallowed, so also when it sent nothing).
MarkSpeaking(g) ==
  /\ firstAudio' = [firstAudio EXCEPT ![g] = TRUE]
  /\ pipelineState' = IF firstAudio[g] THEN pipelineState ELSE "SPEAKING"

SentenceSpoken(g) ==
  /\ At(g, "tts")
  /\ MarkSpeaking(g)
  /\ pc' = [pc EXCEPT ![g] = "llm"]
  /\ UNCHANGED <<cancelling, attempt, accumulated>>
  /\ UNCHANGED <<current, tracked, tracker, history, endCall, stt, ttsOpen>>
  /\ UNCHANGED <<endpointVars, otherVars>>

\* The history with n more messages of on_complete for g.
Said(g, n) ==
  history \o [i \in 1..n |-> Entry("assistant", {g}, FALSE)]

\* Fault: a turn without audio does not go back to LISTENING.
StaysProcessing(g) == AfterSpeaking(pipelineState)

\* pipeline_state once the generation g is over
AfterTurn(g) ==
  IF attempt[g] = 2 \/ ~firstAudio[g]
  THEN AfterError(pipelineState)
  ELSE AfterSpeaking(pipelineState)

\* The stream ends and on_complete, which never awaits, records the answer,
\* saves the conversation and looks for a farewell.
StreamEnds(g) ==
  /\ At(g, "llm")
  /\ history' = Said(g, IF HasText(g) THEN 1 ELSE 0)
  /\ SaveOk(history')
  /\ endCall' \in {endCall, endCall \/ HasText(g)}
  /\ tracker' = {}
  /\ pipelineState' = AfterTurn(g)
  /\ pc' = [pc EXCEPT ![g] = "done"]
  /\ UNCHANGED <<cancelling, attempt, accumulated, firstAudio>>
  /\ UNCHANGED <<current, tracked, stt, ttsOpen>>
  /\ UNCHANGED <<endpointVars, monitor, failure>>

\* generate_response raises. The first attempt goes on to the apology and the
\* retry; after the second the history is saved for the fallback and the task
\* ends: its caller closes nothing. `s` is the pipeline_state at the raise.
Raises(g, s) ==
  \/ /\ attempt[g] = 1
     /\ pipelineState' = s
     /\ attempt' = [attempt EXCEPT ![g] = 2]
     /\ pc' = [pc EXCEPT ![g] = ApologyOrRetry]
  \/ /\ attempt[g] = 2
     /\ pipelineState' = AfterError(s)
     /\ attempt' = [attempt EXCEPT ![g] = 3]
     /\ pc' = [pc EXCEPT ![g] = "done"]

\* The LLM stream fails before it produced any text (or, with the same outcome,
\* ends without any and Redis refuses the save).
LlmFails(g) ==
  /\ At(g, "llm")
  /\ attempt[g] \notin accumulated[g]
  /\ "llm" \in Failures \/ ("redis" \in Failures /\ ~HasText(g))
  /\ Raises(g, pipelineState)
  /\ IF attempt[g] = 2
     THEN TriggerFallback(history)
     ELSE UNCHANGED <<saved, saveFailed>> \/ SaveRefused
  /\ UNCHANGED <<cancelling, accumulated, firstAudio, current, tracked, tracker>>
  /\ UNCHANGED <<history, endCall, stt, ttsOpen, endpointVars, monitor, failure>>

\* It fails after some text: on_complete records what there is, then the error
\* goes on.
StreamBreaks(n) == "llm" \in Failures /\ n = 1

\* A Redis error in the on_complete at the end of the stream takes the same way,
\* and calls on_complete again if this attempt produced text.
SaveBreaks(g, n) ==
  /\ "redis" \in Failures
  /\ HasText(g)
  /\ n = IF attempt[g] \in accumulated[g] THEN 2 ELSE 1

FailsWithText(g, n) ==
  /\ At(g, "llm")
  /\ StreamBreaks(n) \/ SaveBreaks(g, n)
  /\ history' = Said(g, n)
  /\ \/ /\ StreamBreaks(n) \/ n = 2
        /\ SaveOk(history')
        /\ endCall' \in {endCall, TRUE}
        /\ tracker' = {}
        /\ Raises(g, AfterSpeaking(pipelineState))
     \/ /\ IF attempt[g] = 2 THEN TriggerFallback(history') ELSE SaveRefused
        /\ UNCHANGED <<endCall, tracker>>
        /\ Raises(g, pipelineState)
  /\ UNCHANGED <<cancelling, accumulated, firstAudio, current, tracked, stt, ttsOpen>>
  /\ UNCHANGED <<endpointVars, monitor, failure>>

\* The apology is spoken; the retry starts.
ApologyDone(g) ==
  /\ At(g, "apology")
  /\ pc' = [pc EXCEPT ![g] = "llm"]
  /\ UNCHANGED <<cancelling, attempt, accumulated, firstAudio>>
  /\ UNCHANGED <<endpointVars, sessionVars, otherVars>>

\* Fault: the CancelledError is swallowed and the stream read on.
SwallowsCancel(g, text) ==
  /\ pc' = [pc EXCEPT ![g] = "llm"]
  /\ UNCHANGED history

\* The CancelledError leaves _generate_and_speak: its first attempt records
\* what it had accumulated as an interrupted message; in the retry nobody
\* catches it.
EndCancelled(g, text) ==
  /\ pc' = [pc EXCEPT ![g] = "done"]
  /\ history' = IF text /\ attempt[g] = 1
                THEN Append(history, Entry("assistant", {g}, TRUE))
                ELSE history

\* Between sentences the LLM's buffer may hold part of one, and during the TTS
\* of a sentence it still holds that sentence: cleared only afterwards.
MayHoldText(g) == IF pc[g] = "tts" THEN {TRUE} ELSE IF pc[g] = "llm" THEN BOOLEAN ELSE {FALSE}

\* CancelledError is raised at the await. Inside generate_response the buffer
\* is flushed through on_sentence_chunk first, which awaits the TTS.
DeliverCancel(g) ==
  /\ cancelling[g]
  /\ cancelling' = [cancelling EXCEPT ![g] = FALSE]
  /\ \E buffered \in MayHoldText(g) :
       /\ accumulated' =
            [accumulated EXCEPT ![g] = @ \cup (IF buffered THEN {attempt[g]} ELSE {})]
       /\ IF buffered /\ ttsOpen
          THEN pc' = [pc EXCEPT ![g] = "flush"] /\ UNCHANGED history
          ELSE EndCancelled(g, accumulated'[g] # {})
  /\ UNCHANGED <<attempt, firstAudio, pipelineState, current, tracked, tracker>>
  /\ UNCHANGED <<endCall, stt, ttsOpen, endpointVars, otherVars>>

\* The flushed text is through; the CancelledError goes on.
Flushed(g) ==
  /\ At(g, "flush")
  /\ MarkSpeaking(g)
  /\ EndCancelled(g, TRUE)
  /\ UNCHANGED <<cancelling, attempt, accumulated>>
  /\ UNCHANGED <<current, tracked, tracker, endCall, stt, ttsOpen>>
  /\ UNCHANGED <<endpointVars, otherVars>>

Generation(g) ==
  \/ Generate(g) \/ Sentence(g) \/ SendAudio(g) \/ SentenceSpoken(g)
  \/ StreamEnds(g) \/ LlmFails(g) \/ (\E n \in 1..2 : FailsWithText(g, n))
  \/ ApologyDone(g) \/ DeliverCancel(g) \/ Flushed(g)

-----------------------------------------------------------------------------
(***************************************************************************)
(* The endpoint.                                                           *)
(***************************************************************************)

\* Fault: the loop never looks at the failure event.
IgnoresFailure == "receiving"

\* The top of the loop looks at the failure event before it awaits a message.
LoopTop == IF failure THEN "finally" ELSE "receiving"

\* Fault: the farewell flag is not looked at.
IgnoresFarewell == LoopTop

\* After a media frame: the call ends once the assistant has said goodbye.
AfterMedia == IF endCall THEN "draining" ELSE LoopTop

\* Fault: the barge-in does not cancel the generation.
BargeInKeepsTalking ==
  /\ pipelineState' = "INTERRUPTED"
  /\ partial' = tracker
  /\ tracker' = {}
  /\ loop' = "clearing"
  /\ UNCHANGED cancelling

\* handle_barge_in, up to the await of the clear message.
BargeIn ==
  /\ pipelineState' = "INTERRUPTED"
  /\ partial' = tracker
  /\ tracker' = {}
  /\ cancelling' = Cancelled({current})
  /\ loop' = "clearing"

\* The frame goes to the VAD; the start of speech is a barge-in while SPEAKING.
DetectSpeech(speechStart) ==
  /\ IF speechStart /\ pipelineState = "SPEAKING"
     THEN BargeIn
     ELSE /\ loop' = AfterMedia
          /\ UNCHANGED <<pipelineState, partial, tracker, cancelling>>
  /\ UNCHANGED <<session, awaited, reports, current, tracked, history, endCall, ttsOpen>>
  /\ UNCHANGED <<pc, attempt, accumulated, firstAudio, otherVars>>

\* A media frame: to Deepgram, then to the VAD. When Deepgram refuses it, the
\* endpoint first awaits handle_stt_failure.
MediaFrame(speechStart) ==
  /\ loop = "receiving"
  /\ \/ /\ stt = "open"
        /\ DetectSpeech(speechStart)
     \/ /\ stt = "lost"
        /\ loop' = "reconnecting"
        /\ UNCHANGED <<session, awaited, partial, reports, pipelineState, current, tracked>>
        /\ UNCHANGED <<tracker, history, endCall, ttsOpen, genVars, otherVars>>
  /\ UNCHANGED stt

Reconnected(speechStart) ==
  /\ loop = "reconnecting"
  /\ stt' = "open"
  /\ DetectSpeech(speechStart)

\* Both attempts failed: save for the fallback and close.
ReconnectFails ==
  /\ loop = "reconnecting"
  /\ TriggerFallback(history)
  /\ loop' = "finally"
  /\ UNCHANGED <<session, awaited, partial, reports, sessionVars, genVars>>
  /\ UNCHANGED <<monitor, failure>>

\* The clear message is sent: the rest of _handle_barge_in.
ClearSent ==
  /\ loop = "clearing"
  /\ history' = IF partial = {} THEN history
                ELSE Append(history, Entry("assistant", partial, TRUE))
  /\ partial' = {}
  /\ pipelineState' = "LISTENING"
  /\ loop' = AfterMedia
  /\ UNCHANGED <<session, awaited, reports, current, tracked, tracker, endCall, stt, ttsOpen>>
  /\ UNCHANGED <<genVars, otherVars>>

\* A message that is neither start, media nor stop, or is no JSON at all.
\* (Twilio sends one start event for each stream: there is no second one here.)
OtherMessage ==
  /\ loop = "receiving"
  /\ loop' = LoopTop
  /\ UNCHANGED <<session, awaited, partial, reports, sessionVars, genVars, otherVars>>

\* Fault: a broken stream returns without the finally block.
StreamOverReturns ==
  /\ loop \in {"waiting", "receiving", "draining"}
  /\ loop' = "closed"
  /\ UNCHANGED <<session, awaited, partial, reports, sessionVars, genVars, otherVars>>

\* stop, a disconnect, or five seconds without a message; before the start
\* event too. Also the end of the half second granted to the last audio.
StreamOver ==
  /\ loop \in {"waiting", "receiving", "draining"}
  /\ loop' = "finally"
  /\ UNCHANGED <<session, awaited, partial, reports, sessionVars, genVars, otherVars>>

AwaitedDone == \A g \in awaited : ~Running(g)

\* The task list is cleared and the STT connection closed: its receive loop is
\* cancelled at once and hears nothing more.
DropTasks ==
  /\ tracked' = {}
  /\ stt' = "closed"
  /\ loop' = "closing"

\* cleanup(): cancel every tracked task and gather them. Gathering tasks that
\* are all done does not suspend.
GatherTasks ==
  \/ /\ \E g \in tracked : Running(g)
     /\ awaited' = tracked
     /\ cancelling' = Cancelled(tracked)
     /\ loop' = "gather"
     /\ UNCHANGED <<tracked, stt>>
  \/ /\ \A g \in tracked : ~Running(g)
     /\ DropTasks
     /\ UNCHANGED <<awaited, cancelling>>

\* The endpoint's finally block, once the monitor is stopped: the report, then
\* cleanup() up to its first await.
EndOfCall ==
  /\ loop = "finally"
  /\ session
  /\ monitor' = "off"
  /\ reports' = Append(reports, ~endCall)
  /\ IF current # None /\ Running(current)
     THEN /\ loop' = "awaitCurrent"
          /\ awaited' = {current}
          /\ cancelling' = Cancelled({current})
          /\ UNCHANGED <<tracked, stt>>
     ELSE GatherTasks
  /\ UNCHANGED <<session, partial, pc, attempt, accumulated, firstAudio>>
  /\ UNCHANGED <<pipelineState, current, tracker, history, endCall, ttsOpen>>
  /\ UNCHANGED <<failure, saved, saveFailed>>

\* The finally block of a connection that never got a session.
NoSession ==
  /\ loop = "finally"
  /\ ~session
  /\ loop' = "closed"
  /\ UNCHANGED <<session, awaited, partial, reports, sessionVars, genVars, otherVars>>

CurrentCancelled ==
  /\ loop = "awaitCurrent"
  /\ AwaitedDone
  /\ current' = None
  /\ GatherTasks
  /\ UNCHANGED <<session, partial, reports, pc, attempt, accumulated, firstAudio, otherVars>>
  /\ UNCHANGED <<pipelineState, tracker, history, endCall, ttsOpen>>

TasksGathered ==
  /\ loop = "gather"
  /\ AwaitedDone
  /\ DropTasks
  /\ UNCHANGED <<session, awaited, partial, reports, genVars, otherVars>>
  /\ UNCHANGED <<pipelineState, current, tracker, history, endCall, ttsOpen>>

\* The TTS client is closed, the tracker dropped, the WebSocket closed.
Close ==
  /\ loop = "closing"
  /\ ttsOpen' = FALSE
  /\ tracker' = {}
  /\ loop' = "closed"
  /\ UNCHANGED <<session, awaited, partial, reports, genVars, otherVars>>
  /\ UNCHANGED <<pipelineState, current, tracked, history, endCall, stt>>

Cleanup == EndOfCall \/ NoSession \/ CurrentCancelled \/ TasksGathered \/ Close

-----------------------------------------------------------------------------
(***************************************************************************)
(* The other tasks and the services.                                       *)
(***************************************************************************)

\* More than five seconds without a processed frame: fallback, failure event.
MonitorFires ==
  /\ "pipeline" \in Failures
  /\ monitor = "running"
  /\ loop # "finally"
  /\ monitor' = "off"
  /\ failure' = TRUE
  /\ TriggerFallback(history)
  /\ UNCHANGED <<endpointVars, sessionVars, genVars>>

\* Deepgram's connection breaks: the receive loop ends.
SttLost ==
  /\ "stt" \in Failures
  /\ stt = "open"
  /\ stt' = "lost"
  /\ UNCHANGED <<pipelineState, current, tracked, tracker, history, endCall, ttsOpen>>
  /\ UNCHANGED <<endpointVars, genVars, otherVars>>

\* The call is over and nothing is left to run.
Terminated ==
  /\ loop = "closed"
  /\ \A g \in Gens : ~Running(g)
  /\ UNCHANGED vars

Next ==
  \/ StartEvent \/ StartFails
  \/ \E g \in Gens : OnTranscript(g) \/ Generation(g)
  \/ \E s \in BOOLEAN : MediaFrame(s) \/ Reconnected(s)
  \/ ReconnectFails \/ ClearSent \/ OtherMessage \/ StreamOver
  \/ Cleanup \/ MonitorFires \/ SttLost
  \/ Terminated

(***************************************************************************)
(* Fairness. The loop runs what is ready and awaits return: a request to   *)
(* the LLM or to TTS is answered or fails (both clients have timeouts), an *)
(* LLM's answer is finite, a cancellation arrives, a reconnect is bounded  *)
(* by 2 x 2 s. Twilio streams a frame every 20 ms for as long as the       *)
(* stream is open. Nothing makes a caller speak or hang up.                *)
(***************************************************************************)
GenerationFairness(g) ==
  /\ WF_vars(Generate(g) \/ ApologyDone(g) \/ DeliverCancel(g) \/ Flushed(g))
  /\ WF_vars(SentenceSpoken(g))
  /\ SF_vars(StreamEnds(g) \/ LlmFails(g) \/ FailsWithText(g, 1))

Fairness ==
  /\ \A g \in Gens : GenerationFairness(g)
  /\ WF_vars(MediaFrame(FALSE))
  /\ WF_vars(Reconnected(FALSE) \/ ReconnectFails)
  /\ WF_vars(ClearSent)
  /\ WF_vars(loop = "draining" /\ StreamOver)
  /\ WF_vars(Cleanup)

Spec == Init /\ [][Next]_vars /\ Fairness

-----------------------------------------------------------------------------
(***************************************************************************)
(* Properties.                                                             *)
(***************************************************************************)

EndpointTypes ==
  /\ loop \in {"waiting", "receiving", "reconnecting", "clearing", "draining", "finally",
               "awaitCurrent", "gather", "closing", "closed"}
  /\ session \in BOOLEAN
  /\ awaited \subseteq Gens
  /\ partial \subseteq Gens
  /\ reports \in Seq(BOOLEAN)

SessionTypes ==
  /\ pipelineState \in PipelineStates
  /\ current \in Gens \cup {None}
  /\ tracked \subseteq Gens
  /\ tracker \subseteq Gens
  /\ history \in Seq(Entries)
  /\ endCall \in BOOLEAN
  /\ stt \in {"open", "lost", "closed"}
  /\ ttsOpen \in BOOLEAN

GenTypes ==
  /\ pc \in [Gens -> Awaits]
  /\ cancelling \in [Gens -> BOOLEAN]
  /\ attempt \in [Gens -> 1..3]
  /\ accumulated \in [Gens -> SUBSET (1..3)]
  /\ firstAudio \in [Gens -> BOOLEAN]

OtherTypes ==
  /\ monitor \in {"off", "running"}
  /\ failure \in BOOLEAN
  /\ saved \in Nat
  /\ saveFailed \in BOOLEAN

\* Every variable holds a value of its type.
TypeOK == EndpointTypes /\ SessionTypes /\ GenTypes /\ OtherTypes

\* At most one generation is at work on the caller's next answer: a new turn or
\* a barge-in cancels the one before, whatever await it is in (_on_transcript
\* lines 454-456, cancel_generation).
OneActiveGeneration == \A g, h \in Gens : Active(g) /\ Active(h) => g = h

\* An answer completed by on_complete is never recorded after a later question
\* of the caller: a superseded generation completes nothing.
AnswersFollowTheirQuestion ==
  \A i, j \in DOMAIN history :
    j < i /\ Answer(history[i]) /\ history[j].role = "user"
      => \A g \in history[i].of, h \in history[j].of : h <= g

\* A turn recorded as interrupted, by the barge-in or by its own cancellation,
\* is not completed afterwards: no later message gives its whole answer.
InterruptedStaysInterrupted ==
  \A i, j \in DOMAIN history :
    i < j /\ history[i].interrupted /\ Answer(history[j])
      => history[i].of \cap history[j].of = {}

\* Whatever instant the call breaks off at, the store holds every completed
\* answer, unless Redis refused the last save: on_complete records and saves
\* without an await between the two.
AnswersPersisted ==
  ~saveFailed => \A i \in DOMAIN history : Answer(history[i]) => i <= saved

\* The call as the rest of the system sees it: one report, filed before the
\* release, complete exactly when the assistant had said goodbye.
Phase ==
  CASE loop = "waiting" -> "waiting"
    [] loop = "finally" /\ ~session -> "waiting"
    [] loop \in {"awaitCurrent", "gather", "closing"} -> "reported"
    [] loop = "closed" -> "released"
    [] OTHER -> "talking"

Lifecycle == INSTANCE CallLifecycle WITH
  phase <- Phase, farewell <- endCall, reports <- reports

ImplementsLifecycle == Lifecycle!Spec

\* While the stream is open, PROCESSING means that the current generation is at
\* work: no failure, cancellation or turn without audio leaves the caller to wait
\* for nobody (the resets of lines 554, 574 and 615, the barge-in's at 716).
AnswerIsOnItsWay ==
  /\ pipelineState = "PROCESSING"
  /\ loop \in {"waiting", "receiving", "reconnecting", "clearing", "draining"}
  => current \in Gens /\ Active(current)

\* The caller is never left waiting in PROCESSING: the turn is spoken, fails to
\* LISTENING, is interrupted, or the call ends.
ProcessingEnds == pipelineState = "PROCESSING" ~> (pipelineState # "PROCESSING" \/ loop = "closed")

\* The health monitor's failure event closes the WebSocket, also when it is set
\* while the endpoint reconnects to Deepgram or handles a barge-in.
FailureCloses == failure ~> loop = "closed"

\* After the assistant's goodbye the endpoint hangs up.
FarewellCloses == endCall ~> loop = "closed"

-----------------------------------------------------------------------------
(***************************************************************************)
(* The inductive invariant behind the safety properties, proved in         *)
(* CallPipeline_proofs.                                                    *)
(***************************************************************************)

\* Cancelled or over: a generation never comes back from there.
Over(g) == Created(g) /\ ~Active(g)

\* Turns are created in order, and the current one is the latest.
TurnsInOrder ==
  /\ \A g, h \in Gens : Created(g) /\ h < g => Created(h)
  /\ current # None => Created(current) /\ \A g \in Gens : Created(g) => g <= current

\* Only the current generation is active, so what cancels it leaves none.
OnlyCurrentIsActive == \A g \in Gens : Active(g) => g = current

\* Only a task that runs has a cancellation to come.
CancelsRunningTasks == \A g \in Gens : cancelling[g] => Running(g)

\* cleanup() can still cancel every task that runs, until it drops its list.
RunningIsTracked ==
  loop \notin {"closing", "closed"} => \A g \in Gens : Running(g) => g \in tracked

\* Texts cut short belong to generations that are over.
CutShortIsOver ==
  /\ \A g \in tracker : Created(g)
  /\ \A g \in partial : Over(g)
  /\ \A i \in DOMAIN history : history[i].interrupted => \A g \in history[i].of : Over(g)

\* Messages belong to turns that exist.
HistoryOfCreated == \A i \in DOMAIN history : \A g \in history[i].of : Created(g)

\* No turn without a session, none before the start event.
NoTurnsWithoutSession ==
  /\ ~session => /\ loop \in {"waiting", "finally", "closed"}
                 /\ stt = "closed"
                 /\ history = <<>>
                 /\ ~endCall
                 /\ \A g \in Gens : ~Created(g)
  /\ loop = "waiting" => ~session

Inductive ==
  /\ TurnsInOrder
  /\ OnlyCurrentIsActive
  /\ CancelsRunningTasks
  /\ RunningIsTracked
  /\ CutShortIsOver
  /\ HistoryOfCreated
  /\ NoTurnsWithoutSession
  /\ AnswersFollowTheirQuestion
  /\ InterruptedStaysInterrupted
  /\ AnswersPersisted

-----------------------------------------------------------------------------
(***************************************************************************)
(* What docstrings say and the code does not do.                           *)
(***************************************************************************)

\* session.py 213 and 217: cleanup() cancels "pending tasks", "all tracked
\* pipeline tasks".
CleanupLeavesNothingRunning == loop = "closed" => \A g \in Gens : ~Running(g)

\* error_recovery.py 9 and 141: "if retry fails, close stream"; server.py 608: "stream will be
\* closed by the caller".
FailedRetryCloses == \A g \in Gens : attempt[g] = 3 ~> loop = "closed"

============================================================================
