------------------------------ MODULE AiDialog ------------------------------
(***************************************************************************)
(* One caller's dialogs with the AI in the TwiML flow: the webhooks of     *)
(* src/src/routes/ai.py and the conversation and collected info that they  *)
(* keep in Redis (session_store.py). A call has a pre-screening dialog,    *)
(* which may lead to the operator, and a callback dialog if the operator   *)
(* is not available. OperatorTransfer models what goes on in the room;     *)
(* here it only sends the caller back.                                     *)
(*                                                                         *)
(* The one gunicorn worker handles requests in the order they arrive. A    *)
(* request is handled even if its caller has hung up or has been           *)
(* redirected meanwhile: its TwiML is dropped, what it stored stays.       *)
(***************************************************************************)
EXTENDS Integers, Sequences

CONSTANTS
  Failures,         \* what may fail: "redis", "llm", "db"; "expiry": keys may expire
  MaxConversation,  \* messages that Redis keeps of a conversation
  MaxTurns,         \* bound: messages of a dialog after which the caller is silent
  MaxRedirects      \* bound: REST redirects out of the callback dialog

ASSUME FailuresAssumption == Failures \subseteq {"redis", "llm", "db", "expiry"}
ASSUME MaxConversationAssumption == MaxConversation \in Nat \ {0, 1}
ASSUME BoundsAssumption == MaxTurns \in Nat /\ MaxRedirects \in Nat

VARIABLES
  place,      \* where the caller is
  kind,       \* topic and demo_id of the caller's URLs
  requests,   \* requests to ai_gather and ai_respond, the oldest first
  operator,   \* the transfer to the operator
  redirects,  \* REST redirects so far
  kept,       \* what outlives a request
  asked,      \* history: what the caller chose in the menu
  briefed,    \* history: an operator has been briefed
  expired     \* history: keys of the session expired

vars == <<place, kind, requests, operator, redirects, kept, asked, briefed, expired>>

\* "demoTopic" and "conversational" are the two types of demo, "callback" the
\* topic schedule_callback.
Kinds == {"topic", "demoTopic", "conversational", "callback"}

\* The digits to dial; a request under way; a Gather; goodbye before hanging up;
\* the operator's room; the media stream; and hung up.
Places == {"menu", "waiting", "listening", "closing", "room", "streaming", "gone"}

Requests == [handler : {"gather", "respond"}, kind : Kinds, live : BOOLEAN]

Messages == [role : {"system", "user", "assistant"}, dialog : Nat, n : Nat]

\* session_store's collected info. `contact`: name and phone are known.
Infos == [contact : BOOLEAN, notified : BOOLEAN, topic : Kinds \cup {"", "direct"},
          conversation : Seq(Messages), briefing : BOOLEAN]

Reports == [kind : Kinds, dialog : Nat, topic : Kinds \cup {"", "direct"},
            conversation : Seq(Messages), briefing : BOOLEAN]

\* What outlives a request. Redis: the conversation, empty if its key does not
\* exist, and the info. Elsewhere: the WhatsApp alerts of the pre-screening and
\* the reports. `said` is a history: the messages of each dialog.
KeptStates == [conversation : Seq(Messages), info : Infos, alerts : Nat,
               reports : Seq(Reports), said : Seq(Seq(Messages))]

FreshInfo == [contact |-> FALSE, notified |-> FALSE, topic |-> "",
              conversation |-> <<>>, briefing |-> FALSE]

Init ==
  /\ place = "menu"
  /\ kind = "topic"
  /\ requests = <<>>
  /\ operator = "idle"
  /\ redirects = 0
  /\ kept = [conversation |-> <<>>, info |-> FreshInfo, alerts |-> 0,
             reports |-> <<>>, said |-> <<>>]
  /\ asked = "nothing"
  /\ briefed = FALSE
  /\ expired = FALSE

-----------------------------------------------------------------------------
(***************************************************************************)
(* The steps of a request: each takes `kept` one write further.            *)
(***************************************************************************)

\* set_conversation keeps the last messages.
Capped(messages) ==
  SubSeq(messages, IF Len(messages) <= MaxConversation THEN 1
                   ELSE Len(messages) - MaxConversation + 1, Len(messages))

\* The system prompt of dialog d.
Prompt(d) == [role |-> "system", dialog |-> d, n |-> 0]

\* A new conversation holds its system prompt.
Prompted(s) ==
  [s EXCEPT !.conversation = <<Prompt(Len(s.said) + 1)>>, !.said = Append(@, <<>>)]

Says(s, role) ==
  LET d == Len(s.said)
      m == [role |-> role, dialog |-> d, n |-> Len(s.said[d]) + 1]
  IN  [s EXCEPT !.conversation = Capped(Append(@, m)), !.said[d] = Append(@, m)]

Exchange(s) == Says(Says(s, "user"), "assistant")

\* Fault: the alert sent in the pre-screening dialog is forgotten.
ForgetsAlert(s, k) ==
  [s EXCEPT !.info.notified = FALSE, !.info.topic = IF @ = "" THEN k ELSE @]

\* Fault: the callback dialog's topic replaces the one the caller asked about.
ForgetsTopic(s, k) == [s EXCEPT !.info.topic = k]

\* ai_gather starts from what earlier dialogs of the call found out.
Merged(s, k) == [s EXCEPT !.info.topic = IF @ = "" THEN k ELSE @]

\* The LLM opens a conversational demo at a trigger phrase.
Greeted(s, k) == IF k = "conversational" THEN Exchange(s) ELSE Says(s, "assistant")

\* ai_respond, finding no conversation, starts from nothing.
Reset(s, k) == [s EXCEPT !.info = [FreshInfo EXCEPT !.topic = k]]

\* Fault: the question is stored before the LLM is asked.
StoresQuestion(s) == Says(s, "user")

\* The LLM failed.
Unanswered(s) == s

\* Fault: the info holds only what this answer brought.
InformedAnew(s, contact) == [s EXCEPT !.info = [contact |-> contact]]

Informed(s, contact) == [s EXCEPT !.info.contact = @ \/ contact]

Alerts(s) == s.info.contact /\ ~s.info.notified

Noted(s) == [s EXCEPT !.info.notified = @ \/ s.info.contact]

\* Sent only if Alerts held.
Alerted(s) == [s EXCEPT !.alerts = @ + 1]

\* Fault: the conversation stays when the dialog ends.
Stays(s) == s

Popped(s) == [s EXCEPT !.conversation = <<>>]

\* The system prompt is nowhere but at the head.
Spoken(messages) ==
  IF messages # <<>> /\ Head(messages).role = "system" THEN Tail(messages) ELSE messages

Saved(s, messages) == [s EXCEPT !.info.conversation = Spoken(messages)]

\* Fault: read once the info has been overwritten.
ReadsLate(before, after) == after.info.conversation

\* The pre-screening conversation of a callback report.
PreScreening(before, after) == before.info.conversation

Reported(s, k, conversation) ==
  [s EXCEPT !.reports = Append(@, [kind |-> k, dialog |-> Len(s.said),
     topic |-> s.info.topic, conversation |-> conversation, briefing |-> s.info.briefing])]

-----------------------------------------------------------------------------
(***************************************************************************)
(* Requests and their answers.                                             *)
(***************************************************************************)
Request(handler, k) == [handler |-> handler, kind |-> k, live |-> TRUE]

\* Twilio waits for the answers no more.
Dropped(queue) == [i \in DOMAIN queue |-> [queue[i] EXCEPT !.live = FALSE]]

\* Fault: an answer that nobody waits for moves the caller.
AnswersLate(next) ==
  /\ requests' = Tail(requests)
  /\ place' = next
  /\ operator' = IF next = "room" THEN "calling" ELSE operator

\* The TwiML of the oldest request takes the caller to `next`.
Answer(next) ==
  /\ requests' = Tail(requests)
  /\ place' = IF Head(requests).live THEN next ELSE place
  /\ operator' = IF Head(requests).live /\ next = "room" THEN "calling" ELSE operator

\* A conversational demo deleted during the call is handled as any other topic.
Seen(k) == IF k = "conversational" THEN {k, "topic"} ELSE {k}

Handles(handler) == requests # <<>> /\ Head(requests).handler = handler

\* ai_gather, up to the end of its handler or to the write that fails.
GatherSteps(topic, k) ==
  IF kept.conversation # <<>> THEN <<kept, kept, kept, kept>>
  ELSE LET prompted == Prompted(kept)
           merged == Merged(prompted, topic)
       IN  <<kept, prompted, merged, Greeted(merged, k)>>

AiGather ==
  /\ Handles("gather")
  /\ \E k \in Seen(Head(requests).kind) :
       LET steps == GatherSteps(Head(requests).kind, k) IN
         \/ /\ kept' = steps[4]
            /\ \/ Answer("listening")
               \/ k = "conversational" /\ Answer("streaming")
         \/ /\ "redis" \in Failures
            /\ \E i \in 1..4 : kept' = steps[i]
            /\ Answer("closing")
         \/ /\ "db" \in Failures
            /\ kept' \in {steps[1], steps[3]}
            /\ Answer("closing")
  /\ UNCHANGED <<kind, redirects, asked, briefed, expired>>

\* ai_respond until the LLM is asked.
BeforeAnswer(topic) ==
  IF kept.conversation # <<>> THEN <<kept, kept, kept>>
  ELSE LET prompted == Prompted(kept) IN <<kept, prompted, Reset(prompted, topic)>>

\* The answer is stored, the info updated and the alert sent.
AnswerSteps(s, contact) ==
  LET answered == Exchange(s)
      informed == Informed(answered, contact)
      noted    == Noted(informed)
  IN  <<answered, informed, noted, IF Alerts(informed) THEN Alerted(noted) ELSE noted>>

\* The end of the dialog: the conversation moves to the info, and a dialog that
\* no operator follows is reported.
EndSteps(s, k) ==
  LET popped == Popped(s)
      saved  == Saved(popped, s.conversation)
  IN  <<popped, saved,
        IF k = "conversational" THEN Reported(saved, k, saved.info.conversation)
        ELSE IF k = "callback"
             THEN Reported(saved, k, PreScreening(s, saved) \o saved.info.conversation)
        ELSE saved>>

\* After the goodbye.
Leads(s, k) == IF k \in {"topic", "demoTopic"} /\ s.info.contact THEN "room" ELSE "closing"

AiRespond ==
  /\ Handles("respond")
  /\ \E k \in Seen(Head(requests).kind), contact \in BOOLEAN, ends \in BOOLEAN :
       LET asking == BeforeAnswer(Head(requests).kind)
           answer == AnswerSteps(asking[3], contact)
           end    == EndSteps(answer[4], k)
       IN  \/ ~ends /\ kept' = answer[4] /\ Answer("listening")
           \/ ends /\ kept' = end[3] /\ Answer(Leads(end[3], k))
           \/ "llm" \in Failures /\ kept' = Unanswered(asking[3]) /\ Answer("closing")
           \/ /\ "redis" \in Failures
              /\ \/ \E i \in 1..3 : kept' = asking[i]
                 \/ \E i \in 1..4 : kept' = answer[i]
                 \/ ends /\ \E i \in 1..2 : kept' = end[i]
              /\ Answer("closing")
           \/ /\ "db" \in Failures
              /\ kept' \in {asking[1], answer[2], answer[3], IF ends THEN end[2] ELSE answer[3]}
              /\ Answer("closing")
  /\ UNCHANGED <<kind, redirects, asked, briefed, expired>>

-----------------------------------------------------------------------------
(***************************************************************************)
(* The caller and the operator.                                            *)
(***************************************************************************)

\* The menus lead to a topic, or with a code to a demo.
Menu(k) ==
  /\ place = "menu"
  /\ place' = "waiting"
  /\ kind' = k
  /\ asked' = k
  /\ requests' = Append(requests, Request("gather", k))
  /\ UNCHANGED <<operator, redirects, kept, briefed, expired>>

\* main_menu passes a whitelisted caller on to the operator.
DirectTransfer ==
  /\ place = "menu"
  /\ place' = "room"
  /\ operator' = "calling"
  /\ asked' = "direct"
  /\ kept' = [kept EXCEPT !.info = [FreshInfo EXCEPT !.contact = TRUE, !.topic = "direct"]]
  /\ UNCHANGED <<kind, requests, redirects, briefed, expired>>

\* The caller says something, or nothing: ai_gather is requested again.
Speaks ==
  /\ place = "listening"
  /\ place' = "waiting"
  /\ \/ /\ kept.said = <<>> \/ Len(kept.said[Len(kept.said)]) < MaxTurns
        /\ requests' = Append(requests, Request("respond", kind))
     \/ requests' = Append(requests, Request("gather", kind))
  /\ UNCHANGED <<kind, operator, redirects, kept, asked, briefed, expired>>

\* The call ends, by the caller, by the TwiML, by the operator.
Goes ==
  /\ place # "gone"
  /\ place' = "gone"
  /\ requests' = Dropped(requests)
  /\ UNCHANGED <<kind, operator, redirects, kept, asked, briefed, expired>>

\* no_availability, after the hold music or a REST redirect from the room.
NoAvailability ==
  /\ place = "room"
  /\ place' = "waiting"
  /\ kind' = "callback"
  /\ requests' = Append(requests, Request("gather", "callback"))
  /\ UNCHANGED <<operator, redirects, kept, asked, briefed, expired>>

\* operator_status of an attempt that went on meanwhile redirects the caller out
\* of the callback dialog: back to the room, or to its beginning.
Redirected ==
  /\ operator = "calling"
  /\ redirects < MaxRedirects
  /\ place \in {"waiting", "listening", "closing"}
  /\ redirects' = redirects + 1
  /\ \/ /\ place' = "room"
        /\ requests' = Dropped(requests)
     \/ /\ place' = "waiting"
        /\ requests' = Append(Dropped(requests), Request("gather", "callback"))
  /\ UNCHANGED <<kind, operator, kept, asked, briefed, expired>>

\* operator_briefing.
Briefed ==
  /\ operator = "calling"
  /\ ~kept.info.briefing
  /\ kept' = [kept EXCEPT !.info.briefing = TRUE]
  /\ briefed' = TRUE
  /\ UNCHANGED <<place, kind, requests, operator, redirects, asked, expired>>

\* Two hours of silence, once in a call. The conversation was stored before the
\* info.
Expire ==
  /\ "expiry" \in Failures
  /\ ~expired
  /\ place = "listening"
  /\ \E info \in {kept.info, FreshInfo} :
       kept' = [kept EXCEPT !.conversation = <<>>, !.info = info]
  /\ expired' = TRUE
  /\ UNCHANGED <<place, kind, requests, operator, redirects, asked, briefed>>

\* The call is over and every request has been handled.
Terminated ==
  /\ place = "gone"
  /\ requests = <<>>
  /\ UNCHANGED vars

Next ==
  \/ \E k \in Kinds \ {"callback"} : Menu(k)
  \/ DirectTransfer \/ Speaks \/ Goes
  \/ AiGather \/ AiRespond
  \/ NoAvailability \/ Redirected \/ Briefed \/ Expire
  \/ Terminated

Spec == Init /\ [][Next]_vars

-----------------------------------------------------------------------------
(***************************************************************************)
(* Properties.                                                             *)
(***************************************************************************)

\* Every variable holds a value of its type.
TypeOK ==
  /\ place \in Places
  /\ kind \in Kinds
  /\ requests \in Seq(Requests)
  /\ operator \in {"idle", "calling"}
  /\ redirects \in Nat
  /\ kept \in KeptStates
  /\ asked \in Kinds \cup {"nothing", "direct"}
  /\ briefed \in BOOLEAN
  /\ expired \in BOOLEAN

\* "solo una vez": the WhatsApp alert of a call is sent at most once, in however
\* many dialogs the caller gives name and phone.
AlertedOnce == kept.alerts <= 1 \/ expired

\* Questions and answers alternate, and the last message is no question.
Alternates(m) ==
  /\ \A i \in 2..Len(m) :
       \/ m[i].role = "user" /\ m[i-1].role # "user"
       \/ m[i].role = "assistant" /\ m[i-1].role # "assistant"
  /\ m # <<>> => m[Len(m)].role # "user"

\* The questions and answers that the LLM is shown alternate: no question is
\* left without its answer, whatever failed.
ConversationAlternates == Alternates(kept.conversation)

\* A report has its own dialog, after at most one earlier dialog, each as it was
\* held: nothing twice, nothing of a dialog that was not over, no system prompt.
Faithful(s, r) ==
  LET own == Capped(s.said[r.dialog]) IN
    \/ r.conversation = own
    \/ \E d \in 1..(r.dialog - 1) : r.conversation = Capped(s.said[d]) \o own

ReportsAreFaithful == \A i \in DOMAIN kept.reports : Faithful(kept, kept.reports[i])

\* What a call's callback report must have: the pre-screening, then the callback
\* dialog, under the topic the caller asked about.
TellsAll(r) ==
  /\ r.conversation = IF asked = "direct" THEN Capped(kept.said[1])
                      ELSE Capped(kept.said[1]) \o Capped(kept.said[2])
  /\ r.topic = asked

\* Unless the operator's calls interfere with the callback dialog.
CallbackReportTellsAll ==
  redirects = 0 /\ ~expired =>
    \A i \in DOMAIN kept.reports :
      kept.reports[i].kind = "callback" => TellsAll(kept.reports[i])

\* What is known of the caller is never forgotten: not by the next dialog, which
\* starts over with the rest of the info, nor by a request that fails half way.
KeepsInfo(before, after) ==
  /\ before.contact => after.contact
  /\ before.notified => after.notified
  /\ before.briefing => after.briefing
  /\ before.topic # "" => after.topic = before.topic

InfoSurvives == [][expired' \/ KeepsInfo(kept.info, kept'.info)]_vars

(***************************************************************************)
(* The inductive invariant behind these properties, proved in              *)
(* AiDialog_proofs and AiDialogReports_proofs.                             *)
(***************************************************************************)

\* The caller waits for the latest request only, so an utterance is handled
\* before anything else can touch its conversation.
UtterancesComeFirst ==
  /\ \A i \in DOMAIN requests : requests[i].handler = "respond" => i = 1
  /\ \A i \in DOMAIN requests :
       requests[i].live => i = Len(requests) /\ place = "waiting"
  /\ place \in {"menu", "listening", "closing", "streaming"} => requests = <<>>

\* ai_respond finds the conversation that the caller heard.
ConversationIsThere ==
  /\ kept.conversation # <<>> => kept.said # <<>>
  /\ place = "listening" \/ Handles("respond") => kept.conversation # <<>> \/ expired

\* The alert is sent after it has been noted.
AlertsAreNoted ==
  \/ kept.alerts = 0
  \/ kept.alerts = 1 /\ kept.info.notified
  \/ expired

\* Nothing is known before the menu.
MenuComesFirst ==
  place = "menu" => kept.info = FreshInfo /\ kept.alerts = 0 /\ operator = "idle"

\* Dialog d has been held, and nothing will be added to it.
Over(s, d) == d \in DOMAIN s.said /\ (d < Len(s.said) \/ s.conversation = <<>>)

\* The conversation is the current dialog after its prompt, as far as the cap
\* lets it.
Ongoing(s) ==
  /\ \A d \in DOMAIN s.said : \A i \in DOMAIN s.said[d] : s.said[d][i].role # "system"
  /\ s.conversation # <<>> =>
       s.conversation = Capped(<<Prompt(Len(s.said))>> \o s.said[Len(s.said)])

\* The info and the reports hold dialogs that are over.
Closed(s) ==
  /\ s.info.conversation # <<>> =>
       \E d \in DOMAIN s.said : Over(s, d) /\ s.info.conversation = Capped(s.said[d])
  /\ \A i \in DOMAIN s.reports :
       Over(s, s.reports[i].dialog) /\ Faithful(s, s.reports[i])

Recorded(s) == Ongoing(s) /\ Closed(s)

\* A request is being handled or the caller is about to make one.
Underway == requests # <<>> \/ place = "listening"

\* The dialogs before this one, if the operator's calls do not interfere.
Earlier == IF kind = "callback" /\ asked # "direct" THEN 1 ELSE 0

CallbackReports(s) == {i \in DOMAIN s.reports : s.reports[i].kind = "callback"}

\* What a dialog starts from and leaves behind while it is under way.
DialogInOrder ==
  Underway =>
    /\ Len(requests) <= 1
    /\ requests # <<>> => Head(requests).kind = kind
    /\ kind # "callback" => asked = kind
    /\ kind = "callback" => asked # "nothing"
    /\ Len(kept.said) = IF kept.conversation = <<>> THEN Earlier ELSE Earlier + 1
    /\ kept.info.conversation = IF Earlier = 1 THEN Capped(kept.said[1]) ELSE <<>>
    /\ \/ kept.info.topic = asked
       \/ kept.info.topic = "" /\ kept.conversation = <<>> /\ kind # "callback"

\* In the room the pre-screening is over and in the info.
RoomInOrder ==
  place = "room" =>
    /\ kind # "callback" /\ asked # "nothing" /\ requests = <<>>
    /\ kept.conversation = <<>> /\ kept.info.topic = asked
    /\ IF asked = "direct" THEN kept.said = <<>> /\ kept.info.conversation = <<>>
       ELSE Len(kept.said) = 1 /\ kept.info.conversation = Capped(kept.said[1])

\* The callback dialog is the last one, and ends with its report.
CallbackComesLast ==
  /\ place = "menu" =>
       kind # "callback" /\ kept.said = <<>> /\ kept.conversation = <<>>
  /\ Underway \/ place \in {"menu", "room"} => CallbackReports(kept) = {}
  /\ \A i \in CallbackReports(kept) : TellsAll(kept.reports[i])

DialogsInOrder ==
  redirects = 0 /\ ~expired => DialogInOrder /\ RoomInOrder /\ CallbackComesLast

\* Of the requests and the alert.
RequestsInOrder ==
  /\ UtterancesComeFirst
  /\ ConversationIsThere
  /\ AlertsAreNoted
  /\ MenuComesFirst

Inductive ==
  /\ RequestsInOrder
  /\ ConversationAlternates
  /\ Recorded(kept)
  /\ DialogsInOrder

=============================================================================
