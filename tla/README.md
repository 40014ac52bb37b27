# A verification project for the AI IVR receptionist

TLA+ models of the telephone receptionist in `src/src`, the TLC runs that check
them on small instances, and theorems that TLAPS proves for every instance.
Paths below are relative to the repository's `src/` directory unless they start
with `src/src`.

## 1. The system: inventory

Two processes run side by side (`entrypoint.sh`): gunicorn serves the Flask
webhooks Twilio requests during a call and the admin pages (sync workers: one
by default, at least two in production as requirements 3.5 and 4.6 of
`.kiro/specs/aws-migration/requirements.md` ask), uvicorn serves the realtime voice
WebSocket (one worker, one event loop). They share Redis (`session_store.py`, keys
with a two-hour life), the SQL database (`db.py`) and S3 (`storage.py`).

| Component | State it keeps | Operations | Talks to |
| --- | --- | --- | --- |
| Realtime pipeline: `realtime/server.py`, `session.py`, `llm.py`, `error_recovery.py` | one `ConversationSession` per call: pipeline state, conversation history, generation task and task list, playback tracker, VAD, STT and TTS clients; a failure event | start, media, stop frames; final transcript; generation (sentences, audio, completion, failure, retry); barge-in; health monitor; end of call; cleanup | Twilio's media stream, Deepgram, OpenAI, ElevenLabs, Redis |
| STT client `realtime/stt.py` | connection, receive task, callback | connect, send, receive loop, close | Deepgram; calls `_on_transcript` |
| TTS client `realtime/tts.py` | HTTP client | `synthesize_stream` | ElevenLabs; calls back with audio |
| Playback tracker `realtime/playback.py`, VAD `realtime/vad.py`, latency `realtime/latency.py` | texts sent; speech flag and silence time; timestamps | record / clear; process_frame / reset; marks | used by the pipeline |
| End of call `realtime/end_of_call.py`, `realtime/store_integration.py` | none | report, notification, profile merge | Redis, database, S3, mail, WhatsApp |
| Operator transfer `routes/operator.py` | room flags in Redis: failed, briefed, machine count, outbound call | connect, hold music, busy retry, briefing, status, no-availability, meeting ended, recording ready | Twilio's REST API; the caller's and the operator's calls |
| AI dialog `routes/ai.py`, menu `routes/menu.py` | conversation and collected info in Redis, caller profile in the database | gather, respond, menu digits, whitelist transfer | OpenAI, Twilio, database |
| Session store `session_store.py` | all per-call and per-room keys | get / set / mark / clear / increment / pop | Redis |
| Database `db.py`, `models/` | config, users, roles, use cases, topics, profiles, reports | CRUD under `_with_retry` | PostgreSQL |
| Admin and users `routes/admin.py`, `routes/users.py`, `auth.py`, `whitelist.py`, `runtime_config.py`, `use_case_loader.py` | first-run setup, cookies, accounts, use cases, demos and their codes, active use case, whitelist file | setup, login, verification, invitation, use-case, demo and user CRUD, reset | database, e-mail, file |
| Reports and storage `reports.py`, `storage.py`, `routes/report.py` | objects and rows | save, load, audio | S3, database |
| Startup `app.py`, `migrations.py`, `config.py` | schema version | run_migrations, seeding, secrets | database |
| Migration script `scripts/migrate_railway_to_aws.py` | none of its own | one run over eight tables | SQLite, PostgreSQL, Secrets Manager, S3 |

What is hard in it:

* *Concurrency.* In the realtime process four kinds of tasks change one session
  between their awaits. A gunicorn worker runs one handler at a time, but the
  calls it steers go on, people answering, leaving and hanging up between any two,
  and with several workers the admin pages' transactions interleave.
* *Cancellation.* A barge-in or a new utterance cancels a generation that may
  stand in any await, its error handler included; the exception is raised later.
* *Failure.* Each external service may fail in the middle of a turn, of a
  handler, or of the error handling itself. A handler is several database
  transactions, each retried and then given up, and a worker may be killed
  between any two.
* *Ordering and time.* Late completions, late status callbacks, redirects that
  cross, timeouts (5 s stream, 25 s ringing) racing the awaited event.

What makes each part correct:

| Component | It is correct when |
| --- | --- |
| Realtime pipeline | one generation speaks at a time; answers follow their question; an interrupted turn stays interrupted; every turn ends; failures and farewells close the call; one report, before the release |
| STT, TTS, tracker, VAD | a lost connection is restored or the call closed; speech is signalled once per utterance, whatever the thresholds |
| End of call, persistence | what was answered is stored; a profile's lists gain no duplicate and lose no item |
| Operator transfer | nobody is given up on without a reason, a served caller is left alone, no hold is endless |
| AI dialog, menu | one alert; what is known is not forgotten; questions and answers alternate; reports hold what was said |
| Session store | keys of one call do not outlive their meaning (room flags, conversation); the cap loses the oldest only |
| Database | a retried operation takes effect once |
| Admin and users | an account is active exactly when it is verified; a setup link works until it is used; the active use case exists; codes are distinct and stay |
| Reports and storage | who can find a report can read it, and its audio; nobody is told of a report that is not saved |
| Startup | every migration is applied once; the first start seeds what the calls need |
| Migration script | exit code 0 means complete; running it again completes the migration and changes nothing that is there |

`PROJECT.json` lists the hazards behind these, each at the line where it bites,
with the property that covers it or why none does yet.

## 2. Modules

| Module | What it is |
| --- | --- |
| `CallLifecycle` | abstract specification: what one media-stream connection owes the rest of the system |
| `CallPipeline` | the realtime pipeline of one call, at every await |
| `CallPipeline_proofs` | theorems and proofs about it |
| `MCCallPipeline` | its instances for TLC: which parts fail |
| `TransferLifecycle` | abstract specification: what a transfer to the operator may do to its caller |
| `OperatorTransfer` | a caller's transfer to the operator: webhooks, room flags, calls |
| `OperatorTransfer_proofs` | theorems and proofs about it |
| `MCOperatorTransfer` | its instances for TLC |
| `AiDialog` | a caller's dialogs with the AI: webhooks, conversation, collected info, reports |
| `AiDialog_proofs` | theorems about its requests, the alert and the collected info |
| `AiDialogReports_proofs` | theorems about its conversations and reports |
| `MCAiDialog` | its instances for TLC |
| `RailwayMigration`, `RailwayMigration_proofs`, `MCRailwayMigration` | the migration script, run until it succeeds; its proofs; a source with a row or two of every kind |
| `UserAccounts`, `UserAccounts_proofs`, `MCUserAccounts` | the accounts of the admin pages; its proofs; two people on two workers |
| `UseCaseAdmin`, `UseCaseAdmin_proofs`, `MCUseCaseAdmin` | use cases, demos and callers' profiles on several workers; its proofs; its instances on two |
| `ReportStore`, `ReportStore_proofs`, `MCReportStore` | reports from the end of a call to their readers; its proofs; its instance |

### CallPipeline

*State.* `pipelineState`, `current`, `tracked`, `tracker`, `history`, `endCall`,
`stt`, `ttsOpen` are the session's fields. `pc[g]` is the await at which the
generation task of turn `g` is suspended, `loop` that of the endpoint.
`cancelling[g]` separates `Task.cancel()`, which only asks, from the
`CancelledError` (`DeliverCancel`). Turn 1 is the greeting. `saveFailed` only
records.

*Granularity.* asyncio is cooperative: what runs between two awaits that can
suspend is one action. Where the code holds no await (`on_complete`,
`_on_transcript`, the tail of `_handle_barge_in`) there is no interleaving, and
`AnswersPersisted` rests on it. Cleanup of tasks that are all done does not
suspend in `gather`.

*Actions.* `StartEvent` / `StartFails` (`_handle_start_event`), `OnTranscript`
(`_on_transcript`), `Generate`, `Sentence`, `SendAudio`, `SentenceSpoken`,
`StreamEnds`, `LlmFails`, `FailsWithText`, `ApologyDone`, `DeliverCancel`,
`Flushed` (`_generate_and_speak` with `generate_response` and
`handle_llm_failure`), `MediaFrame`, `Reconnected`, `ReconnectFails`, `ClearSent`
(`_handle_media_event`, `handle_stt_failure`, `_handle_barge_in`),
`OtherMessage`, `StreamOver`, `EndOfCall`, `CurrentCancelled`, `TasksGathered`,
`Close`, `NoSession` (the loop's end, the `finally` block and `cleanup()`),
`MonitorFires`, `SttLost`.

*Abstractions.* Text is the set of turns it came from: an entry of `history` is a
role, the turns, and whether it was cut short. Whether an answer is a farewell,
whether a frame starts speech and how many sentences an answer has are free
choices. Redis is the length of the history last stored. The stored history is
the code's last 50 messages; no bound here reaches 50.

*In the model, and in no property*, because no line promises anything about
them: a cancelled generation that speaks its buffered sentence again and leaves
SPEAKING behind, the first sentence played in PROCESSING, an answer recorded
twice when Redis fails in `on_complete`. About a retry that fails as well the
code does promise something, the end of the stream (`error_recovery.py` lines 9
and 141, `server.py` line 608): `attempt[g] = 3` records that it failed, and
`FailedRetryCloses` is a finding.

Recording an answer and saving the conversation are one action: no await lies
between the two. The death of the process is not modelled.

### CallLifecycle

`waiting -> talking -> reported -> released`, or `waiting -> released` with no
session. One report, filed before the release, `incomplete` exactly when the
assistant had not said goodbye by then. `CallPipeline` implements it under the
mapping `Phase` (`ImplementsLifecycle`).

### OperatorTransfer

*State.* `caller` and `op[a]` are where Twilio has the caller's call and the call
of attempt `a`; `answeredBy` is the `AnsweredBy` parameter of the briefing
request, `requests` the briefing requests under way, `reported` the attempts
whose status callback has been handled. `failed`, `briefed`, `machineCount`,
`outbound`, `noted` are the Redis keys of the room and the briefing stored with
the caller. `unplaced`, `lost`, `cut`, `unheard`, `abandoned` only record why a
transfer may come to nothing: a call could not be placed, Redis or the database
failed in the middle of a handler, a briefing could not begin, an operator left.

*Granularity.* One handler is one action, an assumption: the webhooks of one
room follow one another (each is caused by an event of a call that comes after
the answer to the last), except for a status callback of an operator's call and
the hold music of the caller's. With the one sync worker that `entrypoint.sh`,
`Procfile` and `docker-compose.yml` start those do not interleave either; with
two they may, which is left for later (section 7). Twilio and people act between
handlers, and the hold music's answer may still be under way when the operator
joins or a REST redirect arrives (`caller = "leaving"`). A handler that fails half
way because of Redis, the database or Twilio is one of the alternatives of its
action, with the keys it had changed so far. A database error is no `RedisError`,
which is all the handlers catch: in `operator_status` it ends the handler between
the announcement and the call (`cut`), in `operator_hold_music` it ends Twilio's
music and not the wait (`caller = "silence"`), in `operator_briefing` it ends the
operator's call, before (`NoVoice`) or after the room was marked as briefed.

*Actions.* `ConnectOperator`, `HoldMusic`, `LeaveHold` (`no_availability`),
`OperatorBriefing` (`MachineBriefing`, `HumanBriefing`, `NoVoice`), `OperatorStatus`
(`Retry`, `GiveUp`) are the webhooks; `CallerEnters` is the TwiML of
`connect_operator` or `operator_busy_retry` reaching its Dial, `HangsUp` in a
conference leads the caller to `meeting_ended`. `NotAnswered`, `Answered`,
`Joins`, `CallerGoes` are Twilio's and people's steps.

*External behaviour.* Twilio is modelled as the code uses it: the conference
starts when the operator joins and ends when anyone leaves
(`end_conference_on_exit`), the hold music stops then, its redirect leads the
caller out of the room, each call has one `completed` status callback, delivered
once and after the briefing request of that call.

### TransferLifecycle

The transfer as its neighbours see it: whether the caller still asks, is in the
room, served, in the callback dialog or gone; which calls to the operator were
placed and which concluded by their status callback; whether the caller's info
says that an operator was briefed. One call at a time; `Meet` and `Brief` only
while one is under way; `Conclude` may redirect a waiting caller, to the room
after the last attempt but one and to the callback dialog after the last, so that
two redirects are the most a callback dialog can suffer. `OperatorTransfer`
implements it under the mapping `Where`, `PlacedCalls` (`ImplementsTransfer`).
`AiDialog`'s `Redirected` and `Briefed` allow all of that and more: `MaxRedirects`
redirects at any time, of which two are all there can be.

### AiDialog

*State.* `kept` is what outlives a request: the conversation and the collected
info in Redis, the alerts sent and the reports saved (`said`, what was said in
each dialog, only records). `requests` is the queue of webhook requests before
the one gunicorn worker; `live` says that the caller still waits for the answer.
`place` and `kind` are where the caller is and the parameters of their URLs.
`operator` and `redirects` stand for `OperatorTransfer`, which here only sends
the caller back, stores its briefing, or redirects the caller once more.

*Granularity.* A handler is one action, since handlers do not interleave, but it
may end after any of its writes: `GatherSteps`, `BeforeAnswer`, `AnswerSteps` and
`EndSteps` list what is kept after each, and a failure of Redis, the LLM or the
database stops at one of them. What does interleave are the caller's hanging up
and the REST redirects: the request under way is then still handled, and its
answer dropped.

*Actions.* `AiGather`, `AiRespond` (`routes/ai.py`), `Menu`, `DirectTransfer`
(`routes/menu.py`), `NoAvailability`, `Redirected`, `Briefed`
(`routes/operator.py`), `Speaks`, `Goes` (the caller), `Expire` (the keys' two
hours). A conversational demo may be deleted during the call, its later requests
are then handled as any topic's (`Seen`).

*Abstractions.* A message is its role, dialog and number; name and phone are one
fact, known or not; whether an answer brings them or ends the dialog is a free
choice. The callback URL carries no `demo_id` (`no_availability` drops it), so
there is one kind of callback dialog. A call handed to the media stream leaves
this module (`place = "streaming"`).

### RailwayMigration

*State.* `target`, `secret`, `objects` are PostgreSQL, the Secrets Manager secret
and S3, which outlive a run; `table`, `at`, `tx`, `toStore`, `failed`, `env` are
the variables of one run, `exit` how the last one ended.

*Granularity.* A row of a table, a commit, the put of the secret and the summary
are one action each; files are put to S3 while their row is handled. `Dies`
(killed, or an error that no `except` takes) is possible between any two, and a
commit that raises may have taken place.

*Actions.* `Start` (`run_migration`, with any environment), `SkipRow`, `AddRow`,
`CollectSecret`, `FailRow` (the loops of `migrate_roles` to `migrate_reports`,
which differ in their columns and not in their steps), `Commit`, `StoreSecrets`,
`Finish`, `Dies`.

*Abstractions.* A row is a name with the rows it refers to (`Parents`), and the
target knows whether it holds the source's content or another's (`Seeded`, rows
the application put there first). The constants give any source. The module
starts a new run with any of `Envs`; that the key, the region or the bucket is
missing lets a run skip its secrets or files, as the script does, and exit
with 0: `ExitZeroIsComplete` is about runs that have everything.

### UserAccounts

*State.* `users`, `lastId` (the sequence of `users.id`), `pending` (the setup
form in the config table) are the database; `links` the links in somebody's
mail, `session` the cookies, `req[w]` the request of gunicorn worker `w` with its
next transaction. `invited`, `cut` and `removed` only record.

*Granularity.* One database transaction is one action, on any number of workers
(`GUNICORN_WORKERS`). A handler's guards are evaluated with its first
transaction. `Cut` ends a handler between two of them, which stands for a
transaction that fails for good (before or after it took effect) and for a
killed worker.

*Actions.* `Setup`, `SaveSetup`, `Login`, `Logout`, `Reset`, `DeleteAll`
(`routes/admin.py`), `FollowSetupLink`, `InsertAdmin`, `ClearSetup`,
`FollowUserLink`, `EnterPhoneCode`, `Create`, `UserCreate`, `MailLink`, `Resend`,
`Patch`, `UserUpdate`, `Delete`, `UserDelete` (`routes/users.py` and `db.py`),
`SetEmailVerified`, `SetPhoneVerified`, `ActivateIfReady` (`db.py`).

*Abstractions.* A person is an address; passwords and phone codes are right, or
the request is none. A token is named after the row it was drawn for. The
database starts empty or as the migration script leaves it, with explicit ids
and the sequence where it was: the next insertion then runs into an id that is
taken, as PostgreSQL would. `Mailed` reads the token from the old SQLite file,
as the code does (section 6).

### UseCaseAdmin

*State.* `useCases` (absent, or `is_demo` and `demo_code` of the row), `activeId`
(the configured `use_case_id`) and `profiles` are the database; `req[w]` is what
worker `w` is doing: its next transaction with the use case, the data to store,
the use cases it has listed, its place in the seed file, and whether it is
starting; `calls` is the demo each caller talks to. `unseeded`, `named` and `met`
only record: that a failure left a seeding incomplete, that a request named a
demo code itself, and which kinds of handlers have overlapped.

*Granularity.* One database transaction is one action, on any number of workers;
the realtime process writes profiles between any two. A transaction fails for
good (`Fails`, which also stands for a row refused because another worker was
first), a worker is killed (`Killed`, which also stands for an exception while it
starts) and starts again, and starting seeds an empty table.

*Actions.* `Start`, `Count`, `SeedOne`, `SeedLoses` (another worker inserts the
same use case first), `SeedFails`, `SeedConfig`, `ConfigFails`, `Reset`, `Wipe`
(start of `app.py`, and `api_reset`, where `seed_roles_and_admin` or the count may
fail after the deletion), `Create`, `Update`, `Upsert`, `Delete`, `UcDelete`,
`Activate`, `View` and `ActiveListed` (the admin page makes the first use case
active when none is), `SetActive`, `SaveDemo`, `GetDemo`, `UpsertDemo`,
`DeleteDemo`, `DemoInactive`, `DeleteProfile`, `Dial`, `Remember`, `HangUp`.

*Overlaps.* The code checks in one transaction what it relies on in a later one,
and nothing keeps two workers apart. So each property holds with an exception,
and the exception is named as narrowly as the code allows: two handlers are in
`met` only when they are at steps that can hurt each other, about the same use
case or the same code (`Meet`). With one worker `met` stays empty, and the
properties hold without it. With two, each exception occurs, in a dozen steps and
without any failure; section 6 has the traces.

*Abstractions.* The text of a use case is left out, its topics stand or fall with
it. A request's JSON says of `is_demo` and `demo_code` what `Bodies` has: the admin
page says nothing of them, or sends back what it has loaded, no demo and no code;
other clients may say anything. A drawn code is one no demo has at that moment; that
twenty draws may all collide is not modelled.

### ReportStore

*State.* `objects` (S3), `rows` (the reports table), `kind[r]`, which of
the four writers writes report `r` (the end of a realtime call, a recording, a
callback, a conversational demo of the TwiML flow), `step[r]` and `tries[r]`, where
it is and how often its upload has failed, `sent`, the notifications, `told`, what the last reader was
answered. `lost` records the files given up.

*Actions.* `Begin`, `Prepare`, `Upload`, `UploadFails` (`upload_with_retry`, one
attempt each), `Insert`, `Notify`, `Raises` (`process_end_of_call`,
`recording_ready`, the end of a dialog in `ai_respond`, with `reports.save` and
`save_audio`), `Dies` (a worker, a process or the container, with the handlers in
it), `View`, `ViewFails`, `PostAudio`
(`routes/report.py`), `Reset`.

*Abstractions.* A report is its id. A recording that Twilio delivers twice is two
reports, as in the code. Notifications of a realtime call carry no link
(`server.py` passes no base URL). The branch without S3 (local files) is not
modelled.

## 3. Runs

| Run | Instance | Shows | States, time |
| --- | --- | --- | --- |
| `PipelineAnswers` | 2 turns, LLM and Redis fail | `OneActiveGeneration`, `AnswersFollowTheirQuestion`, `InterruptedStaysInterrupted`, `AnswersPersisted`, `AnswerIsOnItsWay`, `TypeOK` | 719k, 30 s |
| `PipelineLifecycle` | 2 turns, STT and the pipeline fail | `ImplementsLifecycle`, `FailureCloses`, `FarewellCloses`, `ProcessingEnds` | 69k, 36 s |
| `OperatorTransfer` | 3 attempts; Twilio, Redis and the database fail | `CallbackIsJustified`, `ServedCallersStayServed`, `ImplementsTransfer`, `HoldEnds`, `TypeOK` | 136k, 16 s |
| `AiDialog` | 4 messages a dialog, 1 redirect, everything fails | `AlertedOnce`, `ConversationAlternates`, `ReportsAreFaithful`, `CallbackReportTellsAll`, `InfoSurvives`, `TypeOK`, `Inductive` | 222k, 20 s |
| `RailwayMigration` | 12 rows in 8 tables, 5 environments, 3 faults | `ExitZeroIsComplete`, `ExistingRowsKept`, `EventuallyComplete`, `TypeOK` | 178k, 15 s |
| `UserAccounts` | 2 workers, 2 people, 2 ids, 1 setup form, 1 handler cut short | `ActiveIsVerified`, `ReadyIsActive`, `FormKeptUntilUsed`, `TypeOK` | 1.3M, 90 s |
| `UseCaseAdmin` | 2 workers, 2 use cases (both seeded), 2 codes, 1 caller, any JSON, 1 fault | `ActiveIsThere`, `ProfilesBelong`, `CodesDistinct`, `CodeStays`, `TypeOK` | 418k, 50 s |
| `ReportStore` | 2 reports, 3 faults, 1 reset | `MissingIsLost`, `TwoFailuresLoseNothing`, `ToldAfterSaved`, `HandlersEnd`, `TypeOK` | 372k, 75 s |
| `PipelineLeak` | 3 turns, no failure | finding: cleanup leaves a generation running | violated |
| `RetryFails` | 2 turns, the LLM fails | finding: a failed retry closes nothing | violated |
| `OperatorStranded` | no failure | finding: endless hold after an operator left during the briefing | violated |
| `UserInvited` | as `UserAccounts` | finding: new users get no mail | violated |

*Bounds.* `MaxGens` bounds the turns of a call. Two turns are the greeting and an
utterance that may come at any await of the greeting: every pair (superseded,
superseding) the code distinguishes, since a generation's code does not depend
on its number. The leak needs a third turn: one generation for cleanup to wait
for, and one to leak. The safety theorems hold for every `MaxGens`. The three
attempts of `OperatorTransfer` are the code's own number (`attempt < 3`), so its
run is exhaustive for one transfer. In `AiDialog` a dialog has up to
`MaxTurns = 4` messages and Redis keeps the last `MaxConversation = 4` (50 in
the code): the system prompt and three messages fit, the fourth drops the
prompt, as a long call does. One redirect is enough for every order of request,
redirect and answer; two (2.2 million states, three minutes) show nothing new.
Keys expire at most once in a call, while the caller is silent. The failing parts are split over the runs
because all four together exceed the time of a run; the theorems do not split.

In `RailwayMigration` the source has a row that exists in the target, one that
does not, one whose parent comes from an earlier table, two secrets and two
reports with one and two files; a table never has more than three rows, and the
code treats each by itself except for the rollback, which two show. Three faults
are a fault in each of three runs, or a secret read, put and commit that fail in
one; `ExitZeroIsComplete` and `ExistingRowsKept` are proved for every source and
number. `Refused` (rows the target will never take) is empty in the run, since
with it `EventuallyComplete` is not promised; the theorems allow it. Two workers
in `UserAccounts` are every pair of transactions that overlap; two ids are an
admin and an invited user, and the collision with migrated ids. The two workers
are interchangeable, so the run is reduced by their symmetry; those of
`UseCaseAdmin` likewise, with the two that production has. Its two use cases are
both in the seed file (a failure may leave the second out), and either may be
deleted, made again by hand, become a demo, be active. Two codes are one that is
drawn and one that is taken, interchangeable as well; the JSON of a request makes
a use case no demo, or a demo with one of the codes. `OneException` ends an
execution at the second of the exceptions of its properties (an overlap of each of
the four kinds of `Meet`, a code named in a request, a seeding left incomplete);
each property is checked on everything that follows one. One
fault falls between any two transactions of any pair of handlers; the theorems
hold for every number of workers, use cases, faults, codes and callers, and need
no such end.
Two reports in `ReportStore` are two handlers of any kinds at once; three faults
are one upload given up, or three failures spread over both, and the safety
theorems hold for every number.

*Deadlock* is checked in the runs of calls, of the migration and of use cases.
`Terminated` is the only state of a call in which nothing is left to do; the
script can always be run again, an admin can always ask for something.
`UserAccounts` and `ReportStore` may stop: their bounds use up the ids, setup
forms and reports, and then nobody has anything left to do. `UserInvited` shares
that module.

## 4. Fairness

`CallPipeline`: the event loop runs what is ready; requests to the LLM and TTS
return or fail (both clients have timeouts); an answer is finite (strong fairness
of its end, since the stream may yield a sentence each time); reconnecting is
bounded by 2 x 2 s; Twilio sends a frame every 20 ms while the stream is open,
which is what makes the endpoint look at its flags. Nothing makes a caller speak
or hang up, a monitor fire or a service fail.

`OperatorTransfer`: Twilio executes its TwiML, loops the hold music, rings for
25 seconds, requests the webhooks and gets answers; a briefing ends. Nothing
makes a caller leave, an operator leave the room, or the hold music's webhook
fail: fairness of `HoldMusic` covers a room flagged failed only, where the next
loop redirects the caller.

`RailwayMigration`: a run goes on while it is not killed (weak fairness of `Step`),
and the operator, told by the exit code, runs the script again with everything
set until it exits with 0 (strong fairness of `Repeat`, which a running script
disables in between). Faults are finitely many, which is what `MaxFaults` says.

`ReportStore`: a handler that has begun goes on (weak fairness of `Step(r)`), which
assumes that each client it calls returns or raises; the retries are counted. The
S3, mail and OpenAI clients have timeouts of their own. The Twilio client is made
without one (`config.py` lines 169-171): a WhatsApp request that is never answered
would hold the handler, and in the realtime process every call, for as long as
the operating system keeps the connection. `HandlersEnd` says nothing of that
case. Nothing makes a call end, a reader come or a service fail.

`AiDialog`, `UserAccounts` and `UseCaseAdmin` state safety only and need no
fairness.

## 5. Theorems

All are proved from the constants' assumptions only (`MaxGens` a positive
number; `Failures` any subset of the named parts).

`CallPipeline_proofs`

* `TypeCorrect`: `Spec => []TypeOK`, by groups of variables; `Frames` says that
  a group nobody touches keeps its type.
* `InductiveInvariant`: `Spec => []Inductive`. The safety properties are not
  inductive alone. `AnswersFollowTheirQuestion` needs that only the current
  generation is active (`OnlyCurrentIsActive`) and that the current one is the
  latest (`TurnsInOrder`), so whoever completes an answer belongs to the last
  question. `InterruptedStaysInterrupted` needs that texts cut short, also those
  still in the playback tracker's hands, belong to turns that are over
  (`CutShortIsOver`). The argument runs in two steps. Turns are monotone: a turn
  that is over never becomes active again (`StepsAreMonotone`). And every step
  appends messages of one kind only: answers of one active generation, a new
  question, or texts of turns that are over (`StepsExtendHistory`).
* `OneGeneration`, `AnswersInOrder`, `InterruptionsAreFinal`, `AnswersAreSaved`
  follow from it.
* `AnswersAreOnTheirWay`: `Spec => []AnswerIsOnItsWay`. It needs one more
  invariant, `FreshTurn`: a turn in PROCESSING has not spoken yet, so that its end
  resets the state whether it takes the way of a spoken turn or of a silent one.
  With it PROCESSING ends when the turn does, which is the safety half of
  `ProcessingEnds`; that the turn does end is the half that needs fairness.
* `LifecycleSafety`: `Spec => Lifecycle!Safety`, every step of the pipeline is a
  step of `CallLifecycle` or changes none of its variables.

`OperatorTransfer_proofs`

* `TypeCorrect`, `InductiveInvariant`, `GivingUpIsJustified`, and
  `ServedStayServed` for the action property. The core is `AttemptsInOrder` (an
  attempt exists only after the status callback of every earlier one, so at most
  one operator call is live) and `BriefedOnTheWay`: the flag that tells the
  status callback not to retry is up from the briefing until that callback reads
  it. `ServedInLastAttempt` carries this over the end of the conference: whoever
  met the caller did so in the last attempt, and no attempt follows.
* `TransferRefines`: `Spec => ImplementsTransfer`. Every step is one of
  `TransferLifecycle` or changes nothing of it, one lemma per kind of step: an
  operator who joins, a caller who enters and a stored briefing find their call
  under way (`LiveIsUnderWay`, from `AttemptsInOrder` and `RequestsAreOpen`), and
  a status callback that redirects finds the caller waiting (`StatusMoves`, from
  `ServedInLastAttempt`).

`AiDialog_proofs`

* `TypeCorrect`, `OneAlert` and `NothingIsForgotten`, for every cap, bound and set
  of failures. `InfoSurvives` is about one step, but `ai_respond` resets the info
  if it finds no conversation. That it finds one (`ConversationIsThere`) holds
  because an utterance is handled before any other request of its call
  (`UtterancesComeFirst`): the caller speaks only when no request is under way,
  and a redirect drops the answers. `Follows` collects what a write may do and is
  transitive, so a handler that stops anywhere keeps the promise.
  `AlertsAreNoted` gives `AlertedOnce`: the alert is sent after it has been noted,
  and the note is never forgotten.

`AiDialogReports_proofs` goes on from there, again for every cap, bound and set of
failures

* `InductiveInvariant`: `Spec => []Inductive`, which adds three parts to the order
  of the requests. `ConversationAlternates` is inductive over exchanges, though
  not over messages: within one the last message is a question (`Spoke`), and no
  handler stops there. `Recorded` says what the stored copies are copies of: the
  conversation is the capped sequence of prompt and messages of the current
  dialog, the info and every report hold capped dialogs that are over, that is,
  earlier than the current one or current with its conversation removed. It needs
  that capping after every message is capping once (`CappedAgain`), and that a
  conversation without its prompt, whether `Spoken` or the cap removed it, is
  the capped dialog (`SpokenCapped`). That the conversation is removed before it
  is moved makes a dialog over before anything holds it (`SavedHeld`), so what
  holds it stays right whatever fails next (`ClosedStays`). `DialogsInOrder`
  follows one call through its dialogs as long as no redirect and no expiry
  interferes: at most one request, the number of dialogs before this one, what
  the info holds of them and under which topic.
* `QuestionsAndAnswers`, `FaithfulReports` and `CallbacksToldAll` follow from it.

`RailwayMigration_proofs`, for every source, set of environments and number of
faults

* `TypeCorrect`; `InductiveCorrect`, `ExitZeroCorrect`, `RowsKept`.
  `ExitZeroIsComplete` is about the moment a run ends and needs what the run has
  done until then: `NothingLeftBehind` says that, as long as nothing has failed,
  the tables before the current one are migrated and its rows passed so far are
  flushed or there, their secrets collected and their files stored. A rollback
  breaks the second part, and sets `failed`. It also covers the put that replaces
  an unreadable secret: a run with everything set has collected all secrets by
  then. `AtInTable` says where a run can be (config has one step more).
  `RowsKept` needs that a flushed row was not there before (`FlushedIsNew`).

`ReportStore_proofs`, for any number of reports, faults and resets

* `TypeCorrect`, `ToldCorrect`, `RetriesCorrect`, `MissingCorrect`. The invariant
  is the order of one handler's writes (`WrittenInOrder`: beyond its upload a
  report is stored or given up, beyond its row it is in the index or a reset came
  since) together with the fact that objects, notifications and losses only grow.
  From it: whoever has a link, or the list, knows a report that is stored or
  lost (`KnownCanBeOpened`), so a 404 means lost. `RetriesCorrect` counts: a file
  is given up only by the failure that follows two others.

`UseCaseAdmin_proofs`

* For any number of workers, use cases, codes, callers and faults: `TypeCorrect`;
  `ProfilesCorrect` (what a caller writes and an admin deletes crosses in every
  way); `InductiveCorrect`, `ActiveCorrect`, `DistinctCorrect`, `CodeCorrect`. The
  last four assume no more than that there is a worker.
* The inductive invariant has four parts. `Noticed`: whoever overlaps now is in
  `met` (every step of a worker ends in `Noted`; the other steps bring no overlap).
  `ActiveKept`: while nothing of `ActiveIsThere`'s exceptions has happened (`Calm`),
  the configured use case exists; or nothing is configured and a worker is
  starting, and then the default exists or no use case does, nobody is past the
  seeding and whoever seeds is at the first, the default (`Seeded`); and what a
  handler has checked before it activates or deletes is still so (`Checked`).
  `SavesKept`: unless two saves of one use case were met, a handler that changes a
  use case finds no demo's code there, and one that stores a demo has the code the
  demo has (`SaveChecked`). `CodesKept`: unless one code was drawn twice or a request
  named one (`Apart`), only demos have codes, no two the same, and the code a handler
  is about to store is no other demo's (`FreeBut`).
* The exceptions cannot be dropped: for each there is a violated run.

`UserAccounts_proofs`, for any number of workers, people, ids and faults

* `TypeCorrect`: `Spec => []TypeOK`. Two things make it more than a reading of the
  actions. The sequence of ids is bounded only together with the workers that
  have passed the check and will insert (`IdsReserved`): an id is set aside for
  each of them, which is why the theorems assume finitely many workers. And a
  handler acts on what its first transaction read (`Handed`): the role, the id and
  the form it carries in `req` are the ones its later steps need, also if a reset
  emptied the tables in between.
* `ActiveVerified`, `VerifiedActive`. `ActiveIsVerified` needs that invited users
  have a row (`InvitedExist`) and that the worker about to remove the setup form
  has inserted the first administrator (`FirstAdminThere`), so that nobody else
  is made active without verification. `ReadyIsActive` is the case of two handlers
  that confirm e-mail and phone at once: each looks for both in a transaction of
  its own after its own confirmation, so whoever confirms second still has to
  look.
* `FormKept` for the action property, from `FirstAdminThere` again.

The inductive invariants of `RailwayMigration`, `UserAccounts`, `UseCaseAdmin` and
`ReportStore` and `FreshTurn` stand in the proof modules; they and the `Inductive` of `CallPipeline` and `OperatorTransfer`
were model-checked on the instances of section 3 before they were proved. That of
`AiDialog` stands in the module, and its run checks it.

*Only model-checked*: the liveness properties (`ProcessingEnds`, `FailureCloses`,
`FarewellCloses`, `HoldEnds`, `EventuallyComplete`, `HandlersEnd`) and the fairness
part of `ImplementsLifecycle`: fairness and ENABLED are beyond the proof system.
Every invariant and every action property of the runs is proved.

## 6. What the violated properties mean

The four findings in `PROJECT.json` quote the line that promises something and the
line that does otherwise. None is an artefact of a bound: each trace is a dozen
ordinary steps, and none but that of `RetryFails` has a failure in it.

* `PipelineLeak`: a transcript delivered while `cleanup()` awaits the cancelled
  tasks starts a generation that is in no list any more.
* `RetryFails`: the LLM fails twice, the conversation is saved for a fallback, and
  nothing closes the stream: it stays open in LISTENING.
* `OperatorStranded`: the flag that says an operator was reached is set when the
  briefing is requested, not when the operator joins.
* `UserInvited`: the token of a new user is looked up in the SQLite file of before
  the move to PostgreSQL, so the mail is not sent and the account, whose e-mail
  stays unverified, cannot log in.

The exceptions of the properties of `UseCaseAdmin` are behaviours as well. They
need the two workers that `.kiro/specs/aws-migration/requirements.md` asks for
(lines 65 and 79), and TLC shows each of them when the exception is taken away:

* `ActiveIsThere` without `"deletion"`: worker 1 finds a use case inactive and is
  about to delete it ("Cannot delete active use case", `admin.py` line 336), worker
  2 makes it the active one, worker 1 deletes it.
* `CodesDistinct` without `"draw"`: two workers draw one code for two demos before
  either stores it ("Generate unique 6-digit code", `admin.py` line 545). It takes
  two equal draws out of a million at once, and no constraint of the table
  excludes it.
* `CodeStays` without `"save"`: two workers save one new demo, both find none of
  that id, each stores the code it has drawn and answers with it ("If updating
  existing demo, preserve its code", `admin.py` line 568).
* `ActiveIsThere` without `"reset"`: `api_reset` deletes and seeds in transactions
  of their own, and another handler's write comes between them, so that nothing is
  seeded. Without `unseeded`: a failure between them (the one exception that needs
  one) leaves no use case until a worker starts again.

One divergence was met and is in no model. `storage.py` line 64 uploads recordings
and spoken summaries to `S3_REPORTS_BUCKET`; `get_audio_url` (line 110), which
`reports.py` line 31 calls for "a pre-signed URL for report audio", signs the same
key for `S3_AUDIO_BUCKET`. With two buckets the links lead nowhere. The code does
so each time, whatever the order of events, so that there is nothing to explore.

## 7. Not modelled, and the plan

1. Done: `CallLifecycle`, `CallPipeline`, `OperatorTransfer`, `AiDialog`,
   `RailwayMigration`, `UserAccounts`, `UseCaseAdmin`, `ReportStore`, all with
   proofs of every safety property.
2. An abstract specification of a whole call (pre-screening, transfer or callback,
   one alert, one report) that `AiDialog` and `OperatorTransfer` implement
   together. `TransferLifecycle` is the half of it between the two; `AiDialog` in
   place of its `operator` and `redirects` would take `TransferLifecycle`'s state.
3. `OperatorTransfer` with several gunicorn workers (a status callback that
   overtakes the briefing request of its call).

Not modelled: the VAD's frame counter and thresholds, `chunk_text_into_sentences`
and `parse_llm_response`, the merge of a caller's profile fields, and the
whitelist file. The first three are sequential functions over texts and numbers
whose cases unit tests enumerate; the last is one file that two requests may
write at once, a listed hazard. Schema migrations and the loading of secrets are
sequential startup code. Latency logging, health and media routes, mail helpers
and HTML keep no state that anything else depends on.
