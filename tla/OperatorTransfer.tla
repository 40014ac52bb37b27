-------------------------- MODULE OperatorTransfer --------------------------
(***************************************************************************)
(* One caller's transfer to a human operator: the webhooks of              *)
(* src/src/routes/operator.py, the room flags of session_store.py and the  *)
(* two kinds of calls Twilio runs meanwhile:                               *)
(*                                                                         *)
(*   - the caller, who waits in a conference room with hold music;         *)
(*   - up to three calls to the operator, one after the other. The one     *)
(*     who answers hears a briefing and joins the room, which starts the   *)
(*     conference; when either leaves, it ends for both.                   *)
(*                                                                         *)
(* The webhooks are stateless: all they know of the room is in Redis and   *)
(* in their URL's parameters. One handler runs at a time (entrypoint.sh    *)
(* starts one gunicorn worker), so a handler is one action; people and     *)
(* Twilio act between any two of them.                                     *)
(***************************************************************************)
EXTENDS Naturals, FiniteSets

CONSTANT Failures  \* what may fail: Twilio's REST API, Redis, the database

ASSUME FailuresAssumption == Failures \subseteq {"twilio", "redis", "db"}

Attempts == 1..3   \* the calls to the operator
None == 0

VARIABLES
  \* Twilio: the calls
  caller,       \* where the caller is
  op,           \* how far each call to the operator got
  answeredBy,   \* AnsweredBy of each briefing request
  requests,     \* briefing requests under way
  reported,     \* attempts whose status callback has been handled
  \* Redis: the room
  failed,       \* room:failed
  briefed,      \* room:briefed
  machineCount, \* room:machine
  outbound,     \* outbound: the attempt, or None
  noted,        \* operator_briefing is in the caller's collected info
  \* history variables: they record, no action reads them
  unplaced,     \* a handler saw an attempt to place or record a call fail
  lost,         \* a Redis error cut a handler short
  cut,          \* a database error did: of the hold music, or of a briefing or a
                \* status callback in the middle
  unheard,      \* attempts whose briefing failed before it did anything
  abandoned     \* an operator answered and left without meeting the caller

callVars  == <<caller, op, answeredBy, requests, reported>>
roomVars  == <<failed, briefed, machineCount, outbound, noted>>
ghostVars == <<unplaced, lost, cut, unheard, abandoned>>
vars      == <<callVars, roomVars, ghostVars>>

\* The caller asks for the operator, executes the TwiML that leads to the room,
\* waits there, with hold music or (once that has failed) in silence, follows the
\* hold music's redirect out of it, talks, makes an appointment with the AI, is
\* thanked, or is gone.
CallerPlaces == {"requesting", "dialing", "hold", "silence", "leaving", "talking",
                 "callback", "thanked", "gone"}

OnHold == caller \in {"hold", "silence", "leaving"}

Over(a) == op[a] \in {"no-answer", "completed"}
Live(a) == op[a] \in {"ringing", "answered", "briefing", "conference"}

InConference == {a \in Attempts : op[a] = "conference"}

Init ==
  /\ caller = "requesting"
  /\ op = [a \in Attempts |-> "none"]
  /\ answeredBy = [a \in Attempts |-> "nobody"]
  /\ requests = {}
  /\ reported = {}
  /\ failed = FALSE
  /\ briefed = FALSE
  /\ machineCount = 0
  /\ outbound = None
  /\ noted = FALSE
  /\ unplaced = FALSE
  /\ lost = FALSE
  /\ cut = FALSE
  /\ unheard = {}
  /\ abandoned = FALSE

-----------------------------------------------------------------------------
(***************************************************************************)
(* Placing a call to the operator: calls.create, then add_outbound_call;   *)
(* if either raises, mark_failed_room. Twilio's answer may be lost after   *)
(* it has placed the call. Having no number to call is like Twilio's       *)
(* refusal.                                                                *)
(***************************************************************************)
Ringing(a) == [op EXCEPT ![a] = "ringing"]

Placed(a) ==
  /\ op' = Ringing(a)
  /\ outbound' = a
  /\ UNCHANGED <<failed, unplaced, lost>>

\* `marked`: whether Redis took the failed flag
NotPlaced(a, marked) ==
  /\ \/ "twilio" \in Failures /\ op' \in {op, Ringing(a)}
     \/ "redis" \in Failures /\ op' = Ringing(a)
  /\ marked \/ "redis" \in Failures
  /\ failed' = (failed \/ marked)
  /\ unplaced' = TRUE
  /\ lost' = (lost \/ ~marked)

\* connect_operator: the caller is sent to the room and the operator is called.
\* Without the failed flag's help the caller is turned away, and so they are when the
\* number to call cannot be read from the database.
ConnectOperator ==
  /\ caller = "requesting"
  /\ \/ /\ Placed(1)
        /\ caller' = "dialing"
     \/ \E marked \in BOOLEAN :
          /\ NotPlaced(1, marked)
          /\ caller' = IF marked THEN "dialing" ELSE "gone"
          /\ UNCHANGED outbound
     \/ /\ "db" \in Failures
        /\ caller' = "gone"
        /\ UNCHANGED <<op, failed, outbound, unplaced, lost>>
  /\ UNCHANGED <<answeredBy, requests, reported, briefed, machineCount, noted>>
  /\ UNCHANGED <<cut, unheard, abandoned>>

-----------------------------------------------------------------------------
(***************************************************************************)
(* The caller.                                                             *)
(***************************************************************************)

\* The TwiML of connect_operator or operator_busy_retry reaches its Dial.
CallerEnters ==
  /\ caller = "dialing"
  /\ caller' = IF InConference = {} THEN "hold" ELSE "talking"
  /\ UNCHANGED <<op, answeredBy, requests, reported, roomVars, ghostVars>>

\* operator_hold_music, requested again at the end of each loop of the music.
\* Unless the room failed, it only loops. What to play is read from the database: when
\* that fails, Twilio has no music to play and nothing to request again.
HoldMusic ==
  /\ caller = "hold"
  /\ \/ /\ failed
        /\ failed' = FALSE
        /\ caller' = "leaving"
        /\ UNCHANGED cut
     \/ /\ "redis" \in Failures
        /\ caller' = "gone"
        /\ UNCHANGED <<failed, cut>>
     \/ /\ "db" \in Failures /\ ~failed
        /\ caller' = "silence"
        /\ cut' = TRUE
        /\ UNCHANGED failed
  /\ UNCHANGED <<op, answeredBy, requests, reported, unplaced, lost, unheard, abandoned>>
  /\ UNCHANGED <<briefed, machineCount, outbound, noted>>

\* The redirect through no_availability to the AI's callback scheduling.
LeaveHold ==
  /\ caller = "leaving"
  /\ caller' = "callback"
  /\ UNCHANGED <<op, answeredBy, requests, reported, roomVars, ghostVars>>

\* The caller hangs up, or the TwiML ends the call, or a webhook of the caller's own
\* call fails (operator_busy_retry and main read the database). A conference ends with it.
CallerGoes ==
  /\ caller # "gone"
  /\ caller' = "gone"
  /\ op' = [a \in Attempts |->
              IF caller = "talking" /\ op[a] = "conference" THEN "completed" ELSE op[a]]
  /\ UNCHANGED <<answeredBy, requests, reported, roomVars, ghostVars>>

-----------------------------------------------------------------------------
(***************************************************************************)
(* The operator's phone.                                                   *)
(***************************************************************************)

\* 25 seconds without an answer, busy, or a failed call; or an answer cut off
\* before Twilio has told a person from a machine.
NotAnswered(a) ==
  /\ op[a] = "ringing"
  /\ op' \in {[op EXCEPT ![a] = s] : s \in {"no-answer", "completed"}}
  /\ UNCHANGED <<caller, answeredBy, requests, reported, roomVars, ghostVars>>

\* A person or a machine answers: Twilio requests the briefing.
Answered(a, who) ==
  /\ op[a] = "ringing"
  /\ op' = [op EXCEPT ![a] = "answered"]
  /\ answeredBy' = [answeredBy EXCEPT ![a] = who]
  /\ requests' = requests \cup {a}
  /\ UNCHANGED <<caller, reported, roomVars, ghostVars>>

\* The briefing's TwiML reaches its Dial: the operator joins the room.
Joins(a) ==
  /\ op[a] = "briefing"
  /\ op' = [op EXCEPT ![a] = "conference"]
  /\ caller' = IF OnHold THEN "talking" ELSE caller
  /\ UNCHANGED <<answeredBy, requests, reported, roomVars, ghostVars>>

\* The operator hangs up. The end of the conference takes the caller to
\* meeting_ended.
HangsUp(a) ==
  /\ op[a] \in {"answered", "briefing", "conference"}
  /\ op' = [op EXCEPT ![a] = "completed"]
  /\ LET met == op[a] = "conference" /\ caller = "talking" IN
       /\ caller' = IF met THEN "thanked" ELSE caller
       /\ abandoned' = (abandoned \/ (answeredBy[a] = "human" /\ ~met))
  /\ UNCHANGED <<answeredBy, requests, reported, roomVars, unplaced, lost, cut, unheard>>

-----------------------------------------------------------------------------
(***************************************************************************)
(* operator_briefing. It ends the operator's call, or reads the briefing   *)
(* out, if they are still there.                                           *)
(***************************************************************************)
GoesOn(a, next) ==
  op' = IF op[a] = "answered" THEN [op EXCEPT ![a] = next] ELSE op

\* Fault: the first machine is enough.
OneMachine(n) == n >= 1

TwoMachines(n) == n >= 2

MachineBriefing(a) ==
  /\ answeredBy[a] = "machine"
  /\ GoesOn(a, "completed")
  /\ \/ /\ TwoMachines(machineCount + 1)
        /\ machineCount' = 0
        /\ failed' = TRUE
     \/ /\ ~TwoMachines(machineCount + 1)
        /\ machineCount' = machineCount + 1
        /\ UNCHANGED failed
     \/ /\ "redis" \in Failures
        /\ \/ machineCount' = machineCount
           \/ machineCount' \in {machineCount + 1, 0} /\ TwoMachines(machineCount + 1)
        /\ UNCHANGED failed
  /\ UNCHANGED <<briefed, noted, lost, cut, unheard>>

HumanBriefing(a) ==
  /\ answeredBy[a] = "human"
  /\ \/ /\ briefed' = TRUE
        /\ machineCount' = 0
        /\ noted' = TRUE
        /\ GoesOn(a, "briefing")
        /\ UNCHANGED <<lost, cut>>
     \/ /\ "redis" \in Failures
        /\ \/ UNCHANGED <<briefed, machineCount>>
           \/ briefed' = TRUE /\ machineCount' \in {machineCount, 0}
        /\ GoesOn(a, "completed")
        /\ lost' = TRUE
        /\ UNCHANGED <<noted, cut>>
     \/ /\ "db" \in Failures   \* get_topics, once the room is briefed
        /\ briefed' = TRUE
        /\ machineCount' = 0
        /\ GoesOn(a, "completed")
        /\ cut' = TRUE
        /\ UNCHANGED <<noted, lost>>
  /\ UNCHANGED <<failed, unheard>>

\* get_voice, before anything is done: Twilio ends the call
NoVoice(a) ==
  /\ "db" \in Failures
  /\ GoesOn(a, "completed")
  /\ unheard' = unheard \cup {a}
  /\ UNCHANGED <<failed, briefed, machineCount, noted, lost, cut>>

OperatorBriefing(a) ==
  /\ a \in requests
  /\ requests' = requests \ {a}
  /\ MachineBriefing(a) \/ HumanBriefing(a) \/ NoVoice(a)
  /\ UNCHANGED <<caller, answeredBy, reported, outbound, unplaced, abandoned>>

-----------------------------------------------------------------------------
(***************************************************************************)
(* operator_status, requested once the operator's call is over.            *)
(***************************************************************************)

\* Fault: a completed call counts as unanswered whatever the briefed flag says.
AlwaysUnanswered(a) == op[a] = "no-answer" \/ op[a] = "completed"

IsNoAnswer(a) == op[a] = "no-answer" \/ (op[a] = "completed" /\ ~briefed)

\* Fault: a place that the model of the call does not have.
MisdirectedTo(place) == {"elsewhere", place}

\* calls(caller_sid).update: a REST redirect of the caller, whose errors are
\* swallowed. (No conference is under way then: see ServedCallersStayServed.)
RedirectedTo(place) ==
  IF caller = "gone" THEN {caller}
  ELSE IF "twilio" \in Failures THEN {caller, place}
  ELSE {place}

\* Fault: every retry is announced.
AlwaysAnnounced(a) == a < 3

\* Attempt 3 follows an announcement: the caller leaves the room for
\* operator_busy_retry, which leads back to it.
Announced(a) == a = 2

\* The number to call is read from the database after the briefed flag is cleared and the
\* announcement sent. When that fails, the handler ends: no call, and no failed flag.
Retry(a) ==
  /\ a < 3
  /\ caller' \in IF Announced(a) THEN RedirectedTo("dialing") ELSE {caller}
  /\ \/ Placed(a + 1) /\ UNCHANGED cut
     \/ \E marked \in BOOLEAN : NotPlaced(a + 1, marked) /\ outbound' = None /\ UNCHANGED cut
     \/ /\ "db" \in Failures
        /\ outbound' = None
        /\ cut' = TRUE
        /\ UNCHANGED <<op, failed, unplaced, lost>>

\* Fault: only the REST redirect is tried.
OnlyRedirects ==
  /\ caller' \in RedirectedTo("callback")
  /\ UNCHANGED <<failed, lost>>

\* The failed flag for the hold music to find, and the REST redirect.
GiveUp ==
  \/ /\ failed' = TRUE
     /\ caller' \in RedirectedTo("callback")
     /\ UNCHANGED lost
  \/ /\ "redis" \in Failures
     /\ lost' = TRUE
     /\ UNCHANGED <<failed, caller>>

OperatorStatus(a) ==
  /\ Over(a)
  /\ a \notin requests \cup reported
  /\ reported' = reported \cup {a}
  /\ \/ /\ IsNoAnswer(a)
        /\ briefed' = FALSE
        /\ \/ Retry(a)
           \/ a = 3 /\ GiveUp /\ outbound' = None /\ UNCHANGED <<op, unplaced, cut>>
     \/ /\ ~IsNoAnswer(a)
        /\ briefed' = FALSE
        /\ outbound' = None
        /\ UNCHANGED <<caller, op, failed, unplaced, lost, cut>>
     \/ /\ "redis" \in Failures
        /\ lost' = TRUE
        /\ outbound' \in {outbound, None}
        /\ UNCHANGED <<caller, op, briefed, failed, unplaced, cut>>
  /\ UNCHANGED <<answeredBy, requests, machineCount, noted, unheard, abandoned>>

-----------------------------------------------------------------------------
\* Everyone has hung up and every callback has been handled.
Terminated ==
  /\ caller = "gone"
  /\ requests = {}
  /\ \A a \in Attempts : op[a] = "none" \/ a \in reported
  /\ UNCHANGED vars

OperatorCall(a) ==
  \/ NotAnswered(a) \/ Joins(a) \/ HangsUp(a) \/ OperatorBriefing(a) \/ OperatorStatus(a)
  \/ \E who \in {"human", "machine"} : Answered(a, who)

Next ==
  \/ ConnectOperator \/ CallerEnters \/ HoldMusic \/ LeaveHold \/ CallerGoes
  \/ \E a \in Attempts : OperatorCall(a)
  \/ Terminated

(***************************************************************************)
(* Fairness. Twilio executes its TwiML, loops the hold music, rings for 25 *)
(* seconds, requests the webhooks and is answered. A briefing ends.        *)
(* Nothing makes the caller or an operator in the room hang up, nor the    *)
(* hold music fail.                                                        *)
(***************************************************************************)
Fairness ==
  /\ WF_vars(ConnectOperator) /\ WF_vars(CallerEnters)
  /\ WF_vars(failed /\ HoldMusic) /\ WF_vars(LeaveHold)
  /\ \A a \in Attempts :
       /\ WF_vars(op[a] = "ringing" /\ OperatorCall(a))
       /\ WF_vars(OperatorBriefing(a))
       /\ WF_vars(Joins(a) \/ (op[a] = "briefing" /\ HangsUp(a)))
       /\ WF_vars(OperatorStatus(a))

Safety == Init /\ [][Next]_vars

Spec == Safety /\ Fairness

-----------------------------------------------------------------------------
(***************************************************************************)
(* Properties.                                                             *)
(***************************************************************************)

\* Every variable holds a value of its type.
TypeOK ==
  /\ caller \in CallerPlaces
  /\ op \in [Attempts -> {"none", "ringing", "answered", "briefing", "conference",
                          "no-answer", "completed"}]
  /\ answeredBy \in [Attempts -> {"nobody", "human", "machine"}]
  /\ requests \subseteq Attempts
  /\ reported \subseteq Attempts
  /\ failed \in BOOLEAN
  /\ briefed \in BOOLEAN
  /\ machineCount \in Nat
  /\ outbound \in Attempts \cup {None}
  /\ noted \in BOOLEAN
  /\ unplaced \in BOOLEAN
  /\ lost \in BOOLEAN
  /\ cut \in BOOLEAN
  /\ unheard \subseteq Attempts
  /\ abandoned \in BOOLEAN

\* Two machines answered, and no person in between whose briefing could begin.
VoicemailTwice ==
  \E a, b \in Attempts :
    /\ a < b
    /\ answeredBy[a] = "machine" /\ answeredBy[b] = "machine"
    /\ \A c \in Attempts : a < c /\ c < b => answeredBy[c] # "human" \/ c \in unheard

\* There is a reason to give up on the operator: the attempts are used up, two
\* machines answered, or a call could not be placed.
GaveUp == 3 \in reported \/ VoicemailTwice \/ unplaced

\* The room is flagged failed, and the caller sent from the hold music to the
\* callback scheduling, for a reason: however many webhooks, retries and
\* redirects have crossed.
CallbackIsJustified ==
  failed \/ caller \in {"leaving", "callback"} => GaveUp \/ lost

\* A caller who talks to the operator, or has, is never redirected: not by the
\* status callback of the call just ended, nor by a flag an earlier attempt
\* left behind.
ServedCallersStayServed ==
  [][(caller \in {"talking", "thanked"}) => caller' \in {"talking", "thanked", "gone"}]_vars

\* The transfer as its caller, the AI's dialogs and the operator see it.
Where ==
  CASE caller = "requesting" -> "asking"
    [] caller \in {"dialing", "hold", "silence", "leaving"} -> "room"
    [] caller \in {"talking", "thanked"} -> "served"
    [] caller = "callback" -> "callback"
    [] OTHER -> "over"

PlacedCalls == {a \in Attempts : op[a] # "none"}

Transfer == INSTANCE TransferLifecycle WITH
  Last <- 3, where <- Where, placed <- PlacedCalls, concluded <- reported, noted <- noted

\* However webhooks, retries and redirects cross, and whatever fails in the middle
\* of one: one call to the operator at a time, no call before the status callback
\* of the one before, at most two redirects out of the callback dialog, nobody
\* put through or marked as briefed by a call that is over.
ImplementsTransfer == Transfer!Spec

\* Nobody waits on hold forever, unless an operator answered and left before meeting
\* the caller, or Redis or the database failed in the middle of a handler. A machine, a
\* call that cannot be placed, a redirect that Twilio refuses or a briefing that cannot
\* begin never are the end of it.
HoldEnds == OnHold ~> (~OnHold \/ abandoned \/ lost \/ cut)

(***************************************************************************)
(* The inductive invariant behind them, proved in OperatorTransfer_proofs. *)
(***************************************************************************)

\* An attempt follows the status callback of every earlier one: the operator
\* has at most one call for this caller.
AttemptsInOrder ==
  /\ \A a, b \in Attempts : a < b /\ op[b] # "none" => a \in reported
  /\ \A a \in reported : Over(a)

\* No call is placed before the caller asks for the operator.
NothingBeforeRequest == caller = "requesting" => \A a \in Attempts : op[a] = "none"

\* A briefing request is under way until its status callback may come.
RequestsAreOpen == \A a \in requests : op[a] \in {"answered", "completed"} /\ a \notin reported

\* The briefed flag is up while an operator is on the way to the caller.
BriefedOnTheWay == \A a \in Attempts : op[a] \in {"briefing", "conference"} => briefed

\* The caller's place agrees with the conference.
ConferenceIsShared ==
  /\ OnHold => InConference = {}
  /\ caller = "talking" => InConference # {}

\* Whoever served the caller did so in the last attempt, and its status callback
\* will find the briefed flag up.
ServedInLastAttempt ==
  caller \in {"talking", "thanked"} =>
    \E a \in Attempts :
      /\ op[a] \in {"conference", "completed"}
      /\ a \in reported \/ briefed
      /\ \A b \in Attempts : a < b => op[b] = "none"

\* Who answered is known of answered calls only.
AnsweredCalls ==
  \A a \in Attempts : answeredBy[a] # "nobody" => op[a] \notin {"none", "ringing"}

\* The count stands for machines no person has answered after.
CountedMachines ==
  machineCount > 0 =>
    \/ lost
    \/ \E a \in Attempts :
         /\ answeredBy[a] = "machine"
         /\ a \notin requests
         /\ \A c \in Attempts : a < c /\ answeredBy[c] = "human" => c \in requests \cup unheard

Inductive ==
  /\ AttemptsInOrder
  /\ NothingBeforeRequest
  /\ RequestsAreOpen
  /\ BriefedOnTheWay
  /\ ConferenceIsShared
  /\ ServedInLastAttempt
  /\ AnsweredCalls
  /\ CountedMachines
  /\ CallbackIsJustified

-----------------------------------------------------------------------------
(***************************************************************************)
(* What a comment of the code says and the code does not do.               *)
(***************************************************************************)

\* operator.py 258: a completed call is one the operator left "antes de unirse a
\* la conferencia", and is retried.
NobodyIsLeftOnHold == OnHold ~> ~OnHold

=============================================================================
