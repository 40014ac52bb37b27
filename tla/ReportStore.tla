----------------------------- MODULE ReportStore -----------------------------
(***************************************************************************)
(* Reports of calls: written when a realtime call ends                     *)
(* (realtime/end_of_call.py), Twilio delivers the recording of a           *)
(* conference (routes/operator.py recording_ready), or a callback or a     *)
(* conversational demo is over (routes/ai.py ai_respond); stored as        *)
(* objects in S3 and as rows of an index (reports.py, storage.py, db.py),  *)
(* announced by mail and WhatsApp, and read back (routes/report.py).       *)
(*                                                                         *)
(* A report is written by one handler, step by step; every step may fail   *)
(* and the process may die between two of them, while readers come and     *)
(* an admin resets the database.                                           *)
(***************************************************************************)
EXTENDS Naturals, FiniteSets

CONSTANTS
  Reports,   \* ids: reports.save draws one for each handler
  MaxFaults, \* bound on failed steps and dead processes
  MaxResets  \* bound on resets

ASSUME ReportStoreAssumption == MaxFaults \in Nat /\ MaxResets \in Nat

Attempts == 3            \* upload_with_retry: one attempt and two retries
Channels == {"whatsapp", "email"}
Suffixes == {".json", ".recording.mp3", ".mp3"}
Kinds    == {"end", "recording", "callback", "demo"}

\* server.py passes no base_url, and of a demo nobody is notified
Linked(k) == k \in {"recording", "callback"}

VARIABLES
  objects,  \* S3, the bucket of the reports: <<report, suffix>>
  rows,     \* the reports table
  step,     \* where the handler that writes each report is
  kind,     \* what it writes of: a realtime call, a recording, a callback, a TwiML demo
  tries,    \* failed attempts of the upload it is at
  sent,     \* notifications: <<channel, report, with a link or not>>
  told,     \* what the last reader was told: <<report, HTTP status>>
  faults, resets,
  \* history variable
  lost      \* <<report, suffix>> whose upload its handler gave up

vars == <<objects, rows, step, kind, tries, sent, told, faults, resets, lost>>

Steps ==
  {"none", "prepare", "upload json", "insert", "upload recording", "whatsapp", "email",
   "done", "failed"}

Init ==
  /\ objects = {}
  /\ rows = {}
  /\ step = [r \in Reports |-> "none"]
  /\ kind = [r \in Reports |-> "none"]
  /\ tries = [r \in Reports |-> 0]
  /\ sent = {}
  /\ told = <<>>
  /\ faults = 0
  /\ resets = 0
  /\ lost = {}

-----------------------------------------------------------------------------
(***************************************************************************)
(* Writing                                                                 *)
(***************************************************************************)
Goes(r, s) == step' = [step EXCEPT ![r] = s]

\* process_end_of_call, recording_ready (which Twilio may ask for again), or the end of a
\* dialog in ai_respond
Begin(r, k) ==
  /\ step[r] = "none"
  /\ Goes(r, "prepare")
  /\ kind' = [kind EXCEPT ![r] = k]
  /\ UNCHANGED <<objects, rows, tries, sent, told, faults, resets, lost>>

\* Fault: the row comes first, the file after it.
PrepareRow(r) ==
  /\ step[r] = "prepare"
  /\ Goes(r, "insert")
  /\ UNCHANGED <<objects, rows, kind, tries, sent, told, faults, resets, lost>>

\* generate_call_report; the download, the transcription and the summary of a recording;
\* the fields of a dialog's report
Prepare(r) ==
  /\ step[r] = "prepare"
  /\ Goes(r, "upload json")
  /\ UNCHANGED <<objects, rows, kind, tries, sent, told, faults, resets, lost>>

\* Fault: the notifications come before the row.
NoticeAfterUpload(suffix) == IF suffix = ".json" THEN "whatsapp" ELSE "email"

\* What follows the upload of a file
AfterUpload(suffix) == IF suffix = ".json" THEN "insert" ELSE "email"

Uploading(r, suffix) ==
  step[r] = IF suffix = ".json" THEN "upload json" ELSE "upload recording"

\* upload_with_retry: an attempt succeeds
Upload(r, suffix) ==
  /\ Uploading(r, suffix)
  /\ objects' = objects \cup {<<r, suffix>>}
  /\ tries' = [tries EXCEPT ![r] = 0]
  /\ Goes(r, AfterUpload(suffix))
  /\ UNCHANGED <<rows, kind, sent, told, faults, resets, lost>>

\* An attempt fails; after the last of n the file is given up and the handler goes on
FailsOf(n, r, suffix) ==
  /\ Uploading(r, suffix)
  /\ faults < MaxFaults /\ faults' = faults + 1
  /\ IF tries[r] + 1 < n
     THEN /\ tries' = [tries EXCEPT ![r] = @ + 1]
          /\ UNCHANGED <<step, lost>>
     ELSE /\ tries' = [tries EXCEPT ![r] = 0]
          /\ lost' = lost \cup {<<r, suffix>>}
          /\ Goes(r, AfterUpload(suffix))
  /\ UNCHANGED <<objects, rows, kind, sent, told, resets>>

\* Fault: range(retries), not range(1 + retries).
UploadFailsEarly(r, suffix) == FailsOf(Attempts - 1, r, suffix)

\* Fault: one attempt too many.
UploadFailsLate(r, suffix) == FailsOf(Attempts + 1, r, suffix)

\* Fault: the attempts are not counted.
UploadFailsUncounted(r, suffix) ==
  /\ Uploading(r, suffix)
  /\ faults' = IF faults < MaxFaults THEN faults + 1 ELSE 0
  /\ UNCHANGED <<objects, rows, step, kind, tries, sent, told, resets, lost>>

UploadFails(r, suffix) == FailsOf(Attempts, r, suffix)

\* report_insert
AfterSave(k) ==
  CASE k = "end"       -> "whatsapp"
    [] k = "recording" -> "upload recording"
    [] k = "callback"  -> "email"
    [] OTHER           -> "done"

Insert(r) ==
  /\ step[r] = "insert"
  /\ rows' = rows \cup {r}
  /\ Goes(r, AfterSave(kind[r]))
  /\ UNCHANGED <<objects, kind, tries, sent, told, faults, resets, lost>>

\* A notification is sent, or not: switched off, not configured, or refused (and logged).
AfterNotice(r, c) ==
  CASE kind[r] = "end" /\ c = "whatsapp" -> "email"
    [] Linked(kind[r]) /\ c = "email"    -> "whatsapp"
    [] OTHER                             -> "done"

Notify(r, c) ==
  /\ step[r] = c
  /\ sent' \in {sent, sent \cup {<<c, r, Linked(kind[r])>>}}
  /\ Goes(r, AfterNotice(r, c))
  /\ UNCHANGED <<objects, rows, kind, tries, told, faults, resets, lost>>

\* A step raises (the uploads do not), and with it the handler
Raises(r) ==
  /\ step[r] \in {"prepare", "insert", "whatsapp", "email"}
  /\ faults < MaxFaults /\ faults' = faults + 1
  /\ Goes(r, "failed")
  /\ UNCHANGED <<objects, rows, kind, tries, sent, told, resets, lost>>

\* A worker, a process or the whole container dies, with the handlers in it
Dies(S) ==
  /\ S # {}
  /\ \A r \in S : step[r] \notin {"none", "done", "failed"}
  /\ faults < MaxFaults /\ faults' = faults + 1
  /\ step' = [r \in Reports |-> IF r \in S THEN "failed" ELSE step[r]]
  /\ UNCHANGED <<objects, rows, kind, tries, sent, told, resets, lost>>

-----------------------------------------------------------------------------
(***************************************************************************)
(* Reading, and the reset                                                  *)
(***************************************************************************)
\* get_report: the object, or None when there is none
Load(r) == <<r, ".json">> \in objects

\* A reader has a link, or has found the report in the list
Known(r) == r \in rows \/ \E c \in Channels : <<c, r, TRUE>> \in sent

\* view_report, and the first lines of the other handlers of report.py
View(r) ==
  /\ Known(r)
  /\ told' = <<r, IF Load(r) THEN 200 ELSE 404>>
  /\ UNCHANGED <<objects, rows, step, kind, tries, sent, faults, resets, lost>>

ViewFails(r) ==
  /\ Known(r)
  /\ told' = <<r, 503>>
  /\ faults < MaxFaults /\ faults' = faults + 1
  /\ UNCHANGED <<objects, rows, step, kind, tries, sent, resets, lost>>

\* report_audio_post: the page uploads the spoken summary (retries left out: a failure is
\* one that outlasts them)
PostAudio(r) ==
  /\ Known(r) /\ Load(r)
  /\ \/ objects' = objects \cup {<<r, ".mp3">>} /\ UNCHANGED faults
     \/ faults < MaxFaults /\ faults' = faults + 1 /\ UNCHANGED objects
  /\ UNCHANGED <<rows, step, kind, tries, sent, told, resets, lost>>

\* api_reset empties the table; the objects stay (to empty an empty one changes nothing)
Reset ==
  /\ rows # {}
  /\ resets < MaxResets
  /\ resets' = resets + 1
  /\ rows' = {}
  /\ UNCHANGED <<objects, step, kind, tries, sent, told, faults, lost>>

-----------------------------------------------------------------------------
Step(r) ==
  \/ Prepare(r) \/ Insert(r) \/ Raises(r)
  \/ \E suffix \in {".json", ".recording.mp3"} : Upload(r, suffix) \/ UploadFails(r, suffix)
  \/ \E c \in Channels : Notify(r, c)

Next ==
  \/ \E r \in Reports :
       \/ \E k \in Kinds : Begin(r, k)
       \/ Step(r) \/ View(r) \/ ViewFails(r) \/ PostAudio(r)
  \/ \E S \in SUBSET Reports : Dies(S)
  \/ Reset

Spec == Init /\ [][Next]_vars /\ \A r \in Reports : WF_vars(Step(r))

-----------------------------------------------------------------------------
(***************************************************************************)
(* Properties                                                              *)
(***************************************************************************)
\* The types of the state; a file is given up after exactly the attempts it has.
TypeOK ==
  /\ objects \subseteq (Reports \X Suffixes)
  /\ rows \subseteq Reports
  /\ step \in [Reports -> Steps]
  /\ kind \in [Reports -> {"none"} \cup Kinds]
  /\ tries \in [Reports -> 0..(Attempts - 1)]
  /\ sent \subseteq (Channels \X Reports \X BOOLEAN)
  /\ told = <<>> \/ told \in Reports \X {200, 404, 503}
  /\ faults \in 0..MaxFaults
  /\ resets \in 0..MaxResets
  /\ lost \subseteq (Reports \X Suffixes)

\* "... and return an HTTP 503" (requirement 7.2): whoever follows a link to a report, or finds
\* it in the list, is told that there is none only if its upload was given up - never because
\* S3 fails, a step of its handler does, a process dies or the table is reset.
MissingIsLost == \A r \in Reports : told = <<r, 404>> => <<r, ".json">> \in lost

\* "retry the upload up to 2 times" (requirement 7.5): fewer than three failures lose nothing.
TwoFailuresLoseNothing == lost # {} => faults >= 3

\* Nobody is told of a report before it is in the index (reports.save comes first, and its
\* failure ends the handler), and a report notified by mail and WhatsApp is in the index
\* until a reset.
ToldAfterSaved == \A n \in sent : n[2] \in rows \/ resets > 0

\* "... continuing without blocking" (requirement 7.5): the handler comes to an end whatever
\* fails, so the one event loop that runs it synchronously is given back.
HandlersEnd == \A r \in Reports : step[r] # "none" ~> step[r] \in {"done", "failed"}
=============================================================================
