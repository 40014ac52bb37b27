----------------------- MODULE OperatorTransfer_proofs -----------------------
(***************************************************************************)
(* Theorems about the transfer to the operator, whatever of Twilio, Redis  *)
(* and the database fails: types, the inductive invariant, what it gives to the       *)
(* caller, and that the transfer implements TransferLifecycle. The         *)
(* argument: an attempt follows the status callbacks of all the earlier    *)
(* ones, so the call that is going on is the last one and the briefed flag *)
(* speaks of it.                                                           *)
(***************************************************************************)
EXTENDS OperatorTransfer, TLAPS

CallerStep == CallerEnters \/ HoldMusic \/ LeaveHold \/ CallerGoes

PhoneStep(a) ==
  NotAnswered(a) \/ Joins(a) \/ HangsUp(a) \/ \E who \in {"human", "machine"} : Answered(a, who)

-----------------------------------------------------------------------------
(***************************************************************************)
(* Types.                                                                  *)
(***************************************************************************)

LEMMA InitTypes == Init => TypeOK
<1> SUFFICES ASSUME Init PROVE TypeOK
  OBVIOUS
<1>1. op \in [Attempts -> {"none", "ringing", "answered", "briefing", "conference",
                           "no-answer", "completed"}]
  BY DEF Init
<1>2. answeredBy \in [Attempts -> {"nobody", "human", "machine"}]
  BY DEF Init
<1>3. machineCount \in Nat /\ caller \in CallerPlaces
  BY DEF Init, CallerPlaces
<1> QED  BY <1>1, <1>2, <1>3 DEF Init, TypeOK

\* A call rings only as the attempt it is.
LEMMA RingingTypes ==
  ASSUME TypeOK, NEW a \in Attempts
  PROVE  Ringing(a) \in [Attempts -> {"none", "ringing", "answered", "briefing", "conference",
                                      "no-answer", "completed"}]
BY DEF TypeOK, Ringing

LEMMA CallerTypes == TypeOK /\ CallerStep => TypeOK'
<1> SUFFICES ASSUME TypeOK, CallerStep PROVE TypeOK'
  OBVIOUS
<1> USE DEF TypeOK, CallerPlaces, roomVars, ghostVars
<1>1. CASE CallerEnters  BY <1>1 DEF CallerEnters
<1>2. CASE HoldMusic  BY <1>2 DEF HoldMusic
<1>3. CASE LeaveHold  BY <1>3 DEF LeaveHold
<1>4. CASE CallerGoes
  <2>1. op' \in [Attempts -> {"none", "ringing", "answered", "briefing", "conference",
                              "no-answer", "completed"}]
    BY <1>4 DEF CallerGoes
  <2> QED  BY <1>4, <2>1 DEF CallerGoes
<1> QED  BY <1>1, <1>2, <1>3, <1>4 DEF CallerStep

LEMMA PhoneTypes == ASSUME TypeOK, NEW a \in Attempts, PhoneStep(a) PROVE TypeOK'
<1> USE DEF TypeOK, CallerPlaces, roomVars, ghostVars
<1>1. CASE NotAnswered(a)  BY <1>1 DEF NotAnswered
<1>2. CASE Joins(a)  BY <1>2 DEF Joins
<1>3. CASE HangsUp(a)  BY <1>3 DEF HangsUp
<1>4. ASSUME NEW who \in {"human", "machine"}, Answered(a, who) PROVE TypeOK'
  BY <1>4 DEF Answered
<1> QED  BY <1>1, <1>2, <1>3, <1>4 DEF PhoneStep

LEMMA BriefingTypes == ASSUME TypeOK, NEW a \in Attempts, OperatorBriefing(a) PROVE TypeOK'
<1>1. op' \in [Attempts -> {"none", "ringing", "answered", "briefing", "conference",
                            "no-answer", "completed"}]
  BY DEF OperatorBriefing, MachineBriefing, HumanBriefing, NoVoice, GoesOn, TypeOK
<1>2. machineCount' \in Nat
  <2>1. machineCount' \in {machineCount, machineCount + 1, 0}
    BY DEF OperatorBriefing, MachineBriefing, HumanBriefing, NoVoice
  <2> QED  BY <2>1 DEF TypeOK
<1>3. failed' \in BOOLEAN /\ briefed' \in BOOLEAN /\ noted' \in BOOLEAN /\ lost' \in BOOLEAN
      /\ cut' \in BOOLEAN /\ unheard' \subseteq Attempts
  BY DEF OperatorBriefing, MachineBriefing, HumanBriefing, NoVoice, TypeOK
<1> QED  BY <1>1, <1>2, <1>3 DEF OperatorBriefing, TypeOK

LEMMA StatusTypes == ASSUME TypeOK, NEW a \in Attempts, OperatorStatus(a) PROVE TypeOK'
<1>1. CASE Retry(a) /\ briefed' = FALSE
  <2>1. a + 1 \in Attempts
    BY <1>1 DEF Retry, Attempts
  <2>2. caller' \in CallerPlaces
    BY <1>1 DEF Retry, Announced, RedirectedTo, TypeOK, CallerPlaces
  <2>3. \/ Placed(a + 1)
        \/ \E marked \in BOOLEAN : NotPlaced(a + 1, marked) /\ outbound' = None
        \/ outbound' = None /\ UNCHANGED <<op, failed, unplaced, lost>>
    BY <1>1 DEF Retry
  <2>4. op' \in {op, Ringing(a + 1)} /\ outbound' \in Attempts \cup {None}
    BY <2>1, <2>3 DEF Placed, NotPlaced
  <2>5. failed' \in BOOLEAN /\ unplaced' \in BOOLEAN /\ lost' \in BOOLEAN
    BY <2>3 DEF Placed, NotPlaced, TypeOK
  <2>6. cut' \in BOOLEAN
    BY <1>1 DEF Retry, TypeOK
  <2> QED  BY <1>1, <2>1, <2>2, <2>4, <2>5, <2>6, RingingTypes DEF OperatorStatus, TypeOK
<1>2. CASE ~(Retry(a) /\ briefed' = FALSE)
  BY <1>2 DEF OperatorStatus, GiveUp, RedirectedTo, TypeOK, CallerPlaces
<1> QED  BY <1>1, <1>2

LEMMA ConnectTypes == TypeOK /\ ConnectOperator => TypeOK'
<1> SUFFICES ASSUME TypeOK, ConnectOperator PROVE TypeOK'
  OBVIOUS
<1>1. 1 \in Attempts
  BY DEF Attempts
<1>2. op' \in {op, Ringing(1)} /\ outbound' \in Attempts \cup {None}
  BY <1>1 DEF ConnectOperator, Placed, NotPlaced, TypeOK
<1>3. failed' \in BOOLEAN /\ unplaced' \in BOOLEAN /\ lost' \in BOOLEAN
      /\ caller' \in {"dialing", "gone"}
  BY DEF ConnectOperator, Placed, NotPlaced, TypeOK
<1> QED  BY <1>1, <1>2, <1>3, RingingTypes DEF ConnectOperator, TypeOK, CallerPlaces

\* The steps that change something, by who takes them.
LEMMA StepCases ==
  ASSUME [Next]_vars
  PROVE  \/ ConnectOperator \/ CallerStep \/ UNCHANGED vars
         \/ \E a \in Attempts : PhoneStep(a) \/ OperatorBriefing(a) \/ OperatorStatus(a)
BY DEF Next, OperatorCall, CallerStep, PhoneStep, Terminated

\* Every variable keeps its type, whatever fails.
THEOREM TypeCorrect == Spec => []TypeOK
<1>1. TypeOK /\ [Next]_vars => TypeOK'
  <2> SUFFICES ASSUME TypeOK, [Next]_vars PROVE TypeOK'
    OBVIOUS
  <2>1. CASE UNCHANGED vars
    BY <2>1 DEF vars, callVars, roomVars, ghostVars, TypeOK
  <2> QED  BY <2>1, StepCases, ConnectTypes, CallerTypes, PhoneTypes, BriefingTypes, StatusTypes
<1> QED  BY <1>1, InitTypes, PTL DEF Spec, Safety

-----------------------------------------------------------------------------
(***************************************************************************)
(* The calls to the operator.                                              *)
(***************************************************************************)

\* What a status callback changes of the calls: nothing, or the next attempt
\* rings.
LEMMA StatusRings ==
  ASSUME TypeOK, NEW a \in Attempts, OperatorStatus(a)
  PROVE  \/ op' = op
         \/ IsNoAnswer(a) /\ briefed' = FALSE /\ a < 3 /\ a + 1 \in Attempts /\ op' = Ringing(a + 1)
<1>1. CASE Retry(a) /\ IsNoAnswer(a) /\ briefed' = FALSE
  <2>1. a < 3 /\ a + 1 \in Attempts
    BY <1>1 DEF Retry, Attempts
  <2> QED  BY <1>1, <2>1 DEF Retry, Placed, NotPlaced
<1>2. CASE ~(Retry(a) /\ IsNoAnswer(a) /\ briefed' = FALSE)
  BY <1>2 DEF OperatorStatus
<1> QED  BY <1>1, <1>2

\* What a briefing changes of the calls: its own, if somebody still listens.
LEMMA BriefingMoves ==
  ASSUME TypeOK, NEW a \in Attempts, OperatorBriefing(a)
  PROVE  \/ op' = op
         \/ op[a] = "answered" /\ op' = [op EXCEPT ![a] = "completed"]
         \/ op[a] = "answered" /\ op' = [op EXCEPT ![a] = "briefing"] /\ briefed'
BY DEF OperatorBriefing, MachineBriefing, HumanBriefing, NoVoice, GoesOn

\* Placing the first call changes nothing else of the calls.
LEMMA ConnectRings ==
  ASSUME ConnectOperator
  PROVE  op' \in {op, Ringing(1)} /\ 1 \in Attempts
BY DEF ConnectOperator, Placed, NotPlaced, Attempts

\* The call that is going on is the last one.
LEMMA LiveIsLast ==
  ASSUME AttemptsInOrder, NEW a \in Attempts, a \notin reported
  PROVE  \A b \in Attempts : a < b => op[b] = "none"
BY DEF AttemptsInOrder

LEMMA OrderStep ==
  ASSUME TypeOK, AttemptsInOrder, NothingBeforeRequest, [Next]_vars
  PROVE  AttemptsInOrder'
<1> USE DEF TypeOK, AttemptsInOrder, Over
<1>1. CASE UNCHANGED vars
  BY <1>1 DEF vars, callVars
<1>2. CASE ConnectOperator
  <2>1. reported' = reported /\ op' \in {op, Ringing(1)} /\ \A a \in Attempts : op[a] = "none"
    BY <1>2, ConnectRings DEF ConnectOperator, NothingBeforeRequest
  <2>2. \A a, b \in Attempts : a < b => b # 1
    BY DEF Attempts
  <2> QED  BY <2>1, <2>2 DEF Ringing
<1>3. CASE CallerStep
  BY <1>3 DEF CallerStep, CallerEnters, HoldMusic, LeaveHold, CallerGoes
<1>4. ASSUME NEW a \in Attempts, PhoneStep(a) PROVE AttemptsInOrder'
  BY <1>4 DEF PhoneStep, NotAnswered, Joins, HangsUp, Answered
<1>5. ASSUME NEW a \in Attempts, OperatorBriefing(a) PROVE AttemptsInOrder'
  BY <1>5, BriefingMoves DEF OperatorBriefing
<1>6. ASSUME NEW a \in Attempts, OperatorStatus(a) PROVE AttemptsInOrder'
  <2>1. reported' = reported \cup {a} /\ Over(a) /\ a \notin reported
    BY <1>6 DEF OperatorStatus
  <2>2. CASE op' = op
    BY <2>1, <2>2
  <2>3. CASE op' = Ringing(a + 1) /\ a + 1 \in Attempts
    <3>1. op[a + 1] = "none"
      BY <2>1, <2>3, LiveIsLast DEF Attempts
    <3>2. a + 1 \notin reported'
      BY <2>1, <3>1 DEF Attempts
    <3>3. \A c \in Attempts : c < a => c \in reported
      BY <2>1
    <3>4. \A c \in Attempts : c < a + 1 => c \in reported'
      BY <2>1, <3>3 DEF Attempts
    <3> QED  BY <2>1, <2>3, <3>1, <3>2, <3>4 DEF Ringing
  <2> QED  BY <1>6, <2>2, <2>3, StatusRings
<1> QED  BY <1>1, <1>2, <1>3, <1>4, <1>5, <1>6, StepCases

LEMMA RequestStep ==
  ASSUME TypeOK, NothingBeforeRequest, [Next]_vars
  PROVE  NothingBeforeRequest'
<1> USE DEF TypeOK, NothingBeforeRequest
<1>1. CASE UNCHANGED vars
  BY <1>1 DEF vars, callVars
<1>2. CASE ConnectOperator
  BY <1>2 DEF ConnectOperator
<1>3. CASE CallerStep
  BY <1>3 DEF CallerStep, CallerEnters, HoldMusic, LeaveHold, CallerGoes
<1>4. ASSUME NEW a \in Attempts, PhoneStep(a) PROVE NothingBeforeRequest'
  BY <1>4 DEF PhoneStep, NotAnswered, Joins, HangsUp, Answered, OnHold
<1>5. ASSUME NEW a \in Attempts, OperatorBriefing(a) PROVE NothingBeforeRequest'
  BY <1>5, BriefingMoves DEF OperatorBriefing
<1>6. ASSUME NEW a \in Attempts, OperatorStatus(a) PROVE NothingBeforeRequest'
  <2>1. Over(a)
    BY <1>6 DEF OperatorStatus
  <2>2. caller # "requesting"
    BY <2>1 DEF Over
  <2> QED  BY <1>6, <2>2 DEF OperatorStatus, Retry, GiveUp, RedirectedTo
<1> QED  BY <1>1, <1>2, <1>3, <1>4, <1>5, <1>6, StepCases

LEMMA OpenStep ==
  ASSUME TypeOK, AttemptsInOrder, NothingBeforeRequest, RequestsAreOpen, [Next]_vars
  PROVE  RequestsAreOpen'
<1> USE DEF TypeOK, RequestsAreOpen
<1>1. CASE UNCHANGED vars
  BY <1>1 DEF vars, callVars
<1>2. CASE ConnectOperator
  BY <1>2, ConnectRings DEF ConnectOperator, NothingBeforeRequest, Ringing
<1>3. CASE CallerStep
  BY <1>3 DEF CallerStep, CallerEnters, HoldMusic, LeaveHold, CallerGoes
<1>4. ASSUME NEW a \in Attempts, PhoneStep(a) PROVE RequestsAreOpen'
  BY <1>4 DEF PhoneStep, NotAnswered, Joins, HangsUp, Answered, AttemptsInOrder, Over
<1>5. ASSUME NEW a \in Attempts, OperatorBriefing(a) PROVE RequestsAreOpen'
  BY <1>5, BriefingMoves DEF OperatorBriefing
<1>6. ASSUME NEW a \in Attempts, OperatorStatus(a) PROVE RequestsAreOpen'
  <2>1. /\ reported' = reported \cup {a} /\ a \notin requests \cup reported
        /\ requests' = requests
    BY <1>6 DEF OperatorStatus
  <2>2. a + 1 \in Attempts => op[a + 1] = "none"
    BY <2>1, LiveIsLast DEF Attempts
  <2> QED  BY <1>6, <2>1, <2>2, StatusRings DEF Ringing
<1> QED  BY <1>1, <1>2, <1>3, <1>4, <1>5, <1>6, StepCases

-----------------------------------------------------------------------------
(***************************************************************************)
(* The conference.                                                         *)
(***************************************************************************)

LEMMA BriefedStep ==
  ASSUME TypeOK, AttemptsInOrder, NothingBeforeRequest, BriefedOnTheWay, [Next]_vars
  PROVE  BriefedOnTheWay'
<1> USE DEF TypeOK, BriefedOnTheWay
<1>1. CASE UNCHANGED vars
  BY <1>1 DEF vars, callVars, roomVars
<1>2. CASE ConnectOperator
  BY <1>2, ConnectRings DEF ConnectOperator, NothingBeforeRequest, Ringing
<1>3. CASE CallerStep
  BY <1>3 DEF CallerStep, CallerEnters, HoldMusic, LeaveHold, CallerGoes, roomVars
<1>4. ASSUME NEW a \in Attempts, PhoneStep(a) PROVE BriefedOnTheWay'
  BY <1>4 DEF PhoneStep, NotAnswered, Joins, HangsUp, Answered, roomVars
<1>5. ASSUME NEW a \in Attempts, OperatorBriefing(a) PROVE BriefedOnTheWay'
  <2>1. briefed' \/ briefed' = briefed
    BY <1>5 DEF OperatorBriefing, MachineBriefing, HumanBriefing, NoVoice
  <2> QED  BY <1>5, <2>1, BriefingMoves
<1>6. ASSUME NEW a \in Attempts, OperatorStatus(a) PROVE BriefedOnTheWay'
  <2>1. Over(a) /\ a \notin reported
    BY <1>6 DEF OperatorStatus
  <2>2. \A b \in Attempts : a < b => op[b] = "none"
    BY <2>1, LiveIsLast
  <2>3. \A b \in Attempts : b < a => Over(b)
    BY <2>1 DEF AttemptsInOrder, Over
  <2>4. \A b \in Attempts : op[b] \notin {"briefing", "conference"}
    BY <2>1, <2>2, <2>3 DEF Over, Attempts
  <2>5. \A b \in Attempts : op'[b] \notin {"briefing", "conference"}
    BY <1>6, <2>4, StatusRings DEF Ringing
  <2> QED  BY <2>5
<1> QED  BY <1>1, <1>2, <1>3, <1>4, <1>5, <1>6, StepCases

LEMMA ConferenceStep ==
  ASSUME TypeOK, AttemptsInOrder, NothingBeforeRequest, ConferenceIsShared, [Next]_vars
  PROVE  ConferenceIsShared'
<1> USE DEF TypeOK, ConferenceIsShared, OnHold, InConference
<1>1. CASE UNCHANGED vars
  BY <1>1 DEF vars, callVars
<1>2. CASE ConnectOperator
  BY <1>2 DEF ConnectOperator
<1>3. CASE CallerStep
  BY <1>3 DEF CallerStep, CallerEnters, HoldMusic, LeaveHold, CallerGoes
<1>4. ASSUME NEW a \in Attempts, PhoneStep(a) PROVE ConferenceIsShared'
  <2>1. CASE NotAnswered(a) \/ \E who \in {"human", "machine"} : Answered(a, who)
    <3>1. caller' = caller /\ \A b \in Attempts : op'[b] = "conference" <=> op[b] = "conference"
      BY <2>1 DEF NotAnswered, Answered
    <3> QED  BY <3>1
  <2>2. CASE Joins(a)
    <3>1. op'[a] = "conference" /\ caller' \notin {"hold", "silence", "leaving"}
      BY <2>2 DEF Joins
    <3> QED  BY <3>1
  <2>3. CASE HangsUp(a)
    <3>1. op' = [op EXCEPT ![a] = "completed"]
      BY <2>3 DEF HangsUp
    <3>2. CASE op[a] = "conference" /\ caller = "talking"
      BY <2>3, <3>2 DEF HangsUp
    <3>3. CASE ~(op[a] = "conference" /\ caller = "talking")
      <4>1. caller' = caller
        BY <2>3, <3>3 DEF HangsUp
      <4> QED  BY <3>1, <3>3, <4>1
    <3> QED  BY <3>2, <3>3
  <2> QED  BY <1>4, <2>1, <2>2, <2>3 DEF PhoneStep
<1>5. ASSUME NEW a \in Attempts, OperatorBriefing(a) PROVE ConferenceIsShared'
  <2>1. caller' = caller /\ \A b \in Attempts : op'[b] = "conference" <=> op[b] = "conference"
    BY <1>5, BriefingMoves DEF OperatorBriefing
  <2> QED  BY <2>1
<1>6. ASSUME NEW a \in Attempts, OperatorStatus(a) PROVE ConferenceIsShared'
  <2>1. a \notin reported
    BY <1>6 DEF OperatorStatus
  <2>2. a + 1 \in Attempts => op[a + 1] = "none"
    BY <2>1, LiveIsLast DEF Attempts
  <2>3. \A b \in Attempts : op'[b] = "conference" <=> op[b] = "conference"
    BY <1>6, <2>2, StatusRings DEF Ringing
  <2>4. caller' = caller \/ caller' \in {"dialing", "callback"}
    BY <1>6 DEF OperatorStatus, Retry, GiveUp, RedirectedTo
  <2> QED  BY <2>3, <2>4
<1> QED  BY <1>1, <1>2, <1>3, <1>4, <1>5, <1>6, StepCases

\* Once someone has met the caller there is nothing left for a status callback
\* to retry.
LEMMA ServedIsNotRetried ==
  ASSUME TypeOK, AttemptsInOrder, ServedInLastAttempt, caller \in {"talking", "thanked"},
         NEW a \in Attempts, OperatorStatus(a)
  PROVE  ~IsNoAnswer(a) /\ op[a] = "completed" /\ \A b \in Attempts : a < b => op[b] = "none"
<1>1. PICK w \in Attempts :
         /\ op[w] \in {"conference", "completed"}
         /\ w \in reported \/ briefed
         /\ \A b \in Attempts : w < b => op[b] = "none"
  BY DEF ServedInLastAttempt
<1>2. Over(a) /\ a \notin reported
  BY DEF OperatorStatus
<1>3. ~(w < a)
  BY <1>1, <1>2 DEF Over
<1>4. ~(a < w)
  BY <1>1, <1>2, LiveIsLast
<1>5. a = w
  BY <1>3, <1>4 DEF Attempts
<1> QED  BY <1>1, <1>2, <1>5 DEF Over, IsNoAnswer

LEMMA ServedStep ==
  ASSUME TypeOK, AttemptsInOrder, RequestsAreOpen, BriefedOnTheWay, ConferenceIsShared,
         ServedInLastAttempt, [Next]_vars
  PROVE  ServedInLastAttempt'
<1> USE DEF TypeOK
<1> DEFINE LastServes(w) ==
      /\ op[w] \in {"conference", "completed"}
      /\ w \in reported \/ briefed
      /\ \A b \in Attempts : w < b => op[b] = "none"
<1>a. caller \in {"talking", "thanked"} => \E w \in Attempts : LastServes(w)
  BY DEF ServedInLastAttempt
<1>b. ASSUME NEW w \in Attempts, LastServes(w)' PROVE ServedInLastAttempt'
  BY <1>b DEF ServedInLastAttempt
<1> HIDE DEF LastServes
\* An operator in the room serves whoever enters it.
<1>c. ASSUME NEW a \in Attempts, op[a] \in {"briefing", "conference"}
      PROVE  briefed /\ \A b \in Attempts : a < b => op[b] = "none"
  <2>1. a \notin reported
    BY <1>c DEF AttemptsInOrder, Over
  <2> QED  BY <1>c, <2>1, LiveIsLast DEF BriefedOnTheWay
<1>1. CASE UNCHANGED vars
  BY <1>1, <1>a DEF vars, callVars, roomVars, LastServes, ServedInLastAttempt
<1>2. CASE ConnectOperator
  BY <1>2 DEF ConnectOperator, ServedInLastAttempt
<1>3. CASE CallerStep
  <2>1. CASE CallerEnters
    <3>1. CASE InConference = {}
      BY <2>1, <3>1 DEF CallerEnters, ServedInLastAttempt
    <3>2. CASE InConference # {}
      <4>1. PICK a \in Attempts : op[a] = "conference"
        BY <3>2 DEF InConference
      <4>2. LastServes(a)'
        BY <2>1, <4>1, <1>c DEF CallerEnters, roomVars, LastServes
      <4> QED  BY <4>2, <1>b
    <3> QED  BY <3>1, <3>2
  <2>2. CASE HoldMusic \/ LeaveHold \/ CallerGoes
    BY <2>2 DEF HoldMusic, LeaveHold, CallerGoes, ServedInLastAttempt
  <2> QED  BY <1>3, <2>1, <2>2 DEF CallerStep
<1>4. ASSUME NEW a \in Attempts, PhoneStep(a) PROVE ServedInLastAttempt'
  <2>1. CASE Joins(a) /\ OnHold
    <3>1. LastServes(a)'
      BY <2>1, <1>c DEF Joins, roomVars, LastServes
    <3> QED  BY <3>1, <1>b
  <2>2. CASE caller \notin {"talking", "thanked"} /\ ~(Joins(a) /\ OnHold)
    BY <1>4, <2>2 DEF PhoneStep, NotAnswered, Joins, HangsUp, Answered, ServedInLastAttempt
  <2>3. CASE caller \in {"talking", "thanked"}
    <3>1. PICK w \in Attempts : LastServes(w)
      BY <2>3, <1>a
    <3>2. ~(w < a) /\ (a = w => op[a] = "conference")
      BY <1>4, <3>1 DEF PhoneStep, NotAnswered, Joins, HangsUp, Answered, LastServes
    <3>3. reported' = reported /\ briefed' = briefed
      BY <1>4 DEF PhoneStep, NotAnswered, Joins, HangsUp, Answered, roomVars
    <3>4. \A b \in Attempts : b # a => op'[b] = op[b]
      BY <1>4 DEF PhoneStep, NotAnswered, Joins, HangsUp, Answered
    <3>5. op'[w] \in {"conference", "completed"}
      BY <1>4, <3>1, <3>2, <3>4 DEF PhoneStep, NotAnswered, Joins, HangsUp, Answered, LastServes
    <3>6. LastServes(w)'
      BY <3>1, <3>2, <3>3, <3>4, <3>5 DEF LastServes
    <3> QED  BY <3>6, <1>b
  <2> QED  BY <2>1, <2>2, <2>3
<1>5. ASSUME NEW a \in Attempts, OperatorBriefing(a) PROVE ServedInLastAttempt'
  <2>1. caller' = caller /\ reported' = reported /\ a \in requests
    BY <1>5 DEF OperatorBriefing
  <2>2. CASE caller \notin {"talking", "thanked"}
    BY <2>1, <2>2 DEF ServedInLastAttempt
  <2>3. CASE caller \in {"talking", "thanked"}
    <3>1. PICK w \in Attempts : LastServes(w)
      BY <2>3, <1>a
    <3>2. op[a] \in {"answered", "completed"}
      BY <2>1 DEF RequestsAreOpen
    <3>3. briefed' \/ briefed' = briefed
      BY <1>5 DEF OperatorBriefing, MachineBriefing, HumanBriefing, NoVoice
    <3>4. \A b \in Attempts : op[b] # "answered" => op'[b] = op[b]
      BY <1>5, BriefingMoves
    <3>5. LastServes(w)'
      BY <2>1, <3>1, <3>3, <3>4 DEF LastServes
    <3> QED  BY <3>5, <1>b
  <2> QED  BY <2>2, <2>3
<1>6. ASSUME NEW a \in Attempts, OperatorStatus(a) PROVE ServedInLastAttempt'
  <2>1. CASE caller \notin {"talking", "thanked"}
    <3>1. caller' \notin {"talking", "thanked"}
      BY <1>6, <2>1 DEF OperatorStatus, Retry, GiveUp, RedirectedTo
    <3> QED  BY <3>1 DEF ServedInLastAttempt
  <2>2. CASE caller \in {"talking", "thanked"}
    <3>1. ~IsNoAnswer(a) /\ op[a] = "completed" /\ \A b \in Attempts : a < b => op[b] = "none"
      BY <1>6, <2>2, ServedIsNotRetried
    <3>2. op' = op /\ a \in reported'
      BY <1>6, <3>1, StatusRings DEF OperatorStatus
    <3>3. LastServes(a)'
      BY <3>1, <3>2 DEF LastServes
    <3> QED  BY <3>3, <1>b
  <2> QED  BY <2>1, <2>2
<1> QED  BY <1>1, <1>2, <1>3, <1>4, <1>5, <1>6, StepCases

-----------------------------------------------------------------------------
(***************************************************************************)
(* Who answered, and the machines counted.                                 *)
(***************************************************************************)

LEMMA AnsweredStep ==
  ASSUME TypeOK, AttemptsInOrder, NothingBeforeRequest, AnsweredCalls, [Next]_vars
  PROVE  AnsweredCalls'
<1> USE DEF TypeOK, AnsweredCalls
<1>1. CASE UNCHANGED vars
  BY <1>1 DEF vars, callVars
<1>2. CASE ConnectOperator
  BY <1>2, ConnectRings DEF ConnectOperator, NothingBeforeRequest, Ringing
<1>3. CASE CallerStep
  BY <1>3 DEF CallerStep, CallerEnters, HoldMusic, LeaveHold, CallerGoes
<1>4. ASSUME NEW a \in Attempts, PhoneStep(a) PROVE AnsweredCalls'
  BY <1>4 DEF PhoneStep, NotAnswered, Joins, HangsUp, Answered
<1>5. ASSUME NEW a \in Attempts, OperatorBriefing(a) PROVE AnsweredCalls'
  BY <1>5, BriefingMoves DEF OperatorBriefing
<1>6. ASSUME NEW a \in Attempts, OperatorStatus(a) PROVE AnsweredCalls'
  <2>1. a \notin reported /\ answeredBy' = answeredBy
    BY <1>6 DEF OperatorStatus
  <2>2. a + 1 \in Attempts => op[a + 1] = "none"
    BY <2>1, LiveIsLast DEF Attempts
  <2>3. CASE op' = op
    BY <2>1, <2>3
  <2>4. CASE a + 1 \in Attempts /\ op' = Ringing(a + 1)
    <3>1. answeredBy[a + 1] = "nobody"
      BY <2>2, <2>4
    <3>2. ASSUME NEW b \in Attempts, b # a + 1 PROVE op'[b] = op[b]
      BY <2>4, <3>2 DEF Ringing
    <3>3. QED  BY <2>1, <3>1, <3>2
  <2>5. op' = op \/ (a + 1 \in Attempts /\ op' = Ringing(a + 1))
    BY <1>6, StatusRings
  <2> QED  BY <2>3, <2>4, <2>5
<1> QED  BY <1>1, <1>2, <1>3, <1>4, <1>5, <1>6, StepCases

\* A handler cut short stays so.
LEMMA LostStays == ASSUME TypeOK, [Next]_vars, lost PROVE lost'
<1>1. CASE UNCHANGED vars
  BY <1>1 DEF vars, ghostVars
<1>2. CASE ConnectOperator
  BY <1>2 DEF ConnectOperator, Placed, NotPlaced
<1>3. CASE CallerStep
  BY <1>3 DEF CallerStep, CallerEnters, HoldMusic, LeaveHold, CallerGoes, ghostVars
<1>4. ASSUME NEW a \in Attempts, PhoneStep(a) PROVE lost'
  BY <1>4 DEF PhoneStep, NotAnswered, Joins, HangsUp, Answered, ghostVars
<1>5. ASSUME NEW a \in Attempts, OperatorBriefing(a) PROVE lost'
  BY <1>5 DEF OperatorBriefing, MachineBriefing, HumanBriefing, NoVoice
<1>6. ASSUME NEW a \in Attempts, OperatorStatus(a) PROVE lost'
  BY <1>6 DEF OperatorStatus, Retry, Placed, NotPlaced, GiveUp
<1> QED  BY <1>1, <1>2, <1>3, <1>4, <1>5, <1>6, StepCases

\* What a step may do to who answered and to the requests, other than a
\* briefing: nothing, or a ringing call is answered.
LEMMA AnswerCases ==
  ASSUME TypeOK, [Next]_vars
  PROVE  \/ answeredBy' = answeredBy /\ requests' = requests
         \/ \E a \in Attempts : OperatorBriefing(a)
         \/ \E a \in Attempts, who \in {"human", "machine"} :
              /\ op[a] = "ringing"
              /\ answeredBy' = [answeredBy EXCEPT ![a] = who]
              /\ requests' = requests \cup {a}
<1>1. CASE UNCHANGED vars
  BY <1>1 DEF vars, callVars
<1>2. CASE ConnectOperator
  BY <1>2 DEF ConnectOperator
<1>3. CASE CallerStep
  BY <1>3 DEF CallerStep, CallerEnters, HoldMusic, LeaveHold, CallerGoes
<1>4. ASSUME NEW a \in Attempts, NotAnswered(a) \/ Joins(a) \/ HangsUp(a) \/ OperatorStatus(a)
      PROVE  answeredBy' = answeredBy /\ requests' = requests
  BY <1>4 DEF NotAnswered, Joins, HangsUp, OperatorStatus
<1>5. ASSUME NEW a \in Attempts, NEW who \in {"human", "machine"}, Answered(a, who)
      PROVE  /\ op[a] = "ringing"
             /\ answeredBy' = [answeredBy EXCEPT ![a] = who]
             /\ requests' = requests \cup {a}
  BY <1>5 DEF Answered
<1> QED  BY <1>1, <1>2, <1>3, <1>4, <1>5, StepCases DEF PhoneStep

\* Machines are counted by briefings only.
LEMMA CountCases ==
  ASSUME [Next]_vars
  PROVE  machineCount' = machineCount \/ \E a \in Attempts : OperatorBriefing(a)
<1>1. CASE UNCHANGED vars
  BY <1>1 DEF vars, roomVars
<1>2. CASE ConnectOperator
  BY <1>2 DEF ConnectOperator
<1>3. CASE CallerStep
  BY <1>3 DEF CallerStep, CallerEnters, HoldMusic, LeaveHold, CallerGoes, roomVars
<1>4. ASSUME NEW a \in Attempts, PhoneStep(a) \/ OperatorStatus(a)
      PROVE  machineCount' = machineCount
  BY <1>4 DEF PhoneStep, NotAnswered, Joins, HangsUp, Answered, OperatorStatus, roomVars
<1> QED  BY <1>1, <1>2, <1>3, <1>4, StepCases

\* A machine counted, and no person briefed since.
Counted(a) ==
  /\ answeredBy[a] = "machine"
  /\ a \notin requests
  /\ \A c \in Attempts : a < c /\ answeredBy[c] = "human" => c \in requests \cup unheard

\* A briefing that failed at its beginning stays so.
LEMMA UnheardStay == ASSUME [Next]_vars PROVE unheard \subseteq unheard'
<1>1. CASE UNCHANGED vars
  BY <1>1 DEF vars, ghostVars
<1>2. CASE ConnectOperator
  BY <1>2 DEF ConnectOperator
<1>3. CASE CallerStep
  BY <1>3 DEF CallerStep, CallerEnters, HoldMusic, LeaveHold, CallerGoes, ghostVars
<1>4. ASSUME NEW a \in Attempts, PhoneStep(a) PROVE unheard' = unheard
  BY <1>4 DEF PhoneStep, NotAnswered, Joins, HangsUp, Answered, ghostVars
<1>5. ASSUME NEW a \in Attempts, OperatorBriefing(a) PROVE unheard \subseteq unheard'
  BY <1>5 DEF OperatorBriefing, MachineBriefing, HumanBriefing, NoVoice
<1>6. ASSUME NEW a \in Attempts, OperatorStatus(a) PROVE unheard' = unheard
  BY <1>6 DEF OperatorStatus
<1> QED  BY <1>1, <1>2, <1>3, <1>4, <1>5, <1>6, StepCases

LEMMA CountStep ==
  ASSUME TypeOK, AttemptsInOrder, RequestsAreOpen, AnsweredCalls, CountedMachines, [Next]_vars
  PROVE  CountedMachines'
<1> USE DEF TypeOK
<1>1. ASSUME NEW w \in Attempts, Counted(w)' PROVE CountedMachines'
  BY <1>1 DEF Counted, CountedMachines
<1>2. CASE lost'
  BY <1>2 DEF CountedMachines
<1>3. ASSUME NEW b \in Attempts, OperatorBriefing(b), ~lost' PROVE CountedMachines'
  <2>1. b \in requests /\ b \notin reported /\ requests' = requests \ {b}
        /\ answeredBy' = answeredBy
    BY <1>3 DEF OperatorBriefing, RequestsAreOpen
  <2>2. CASE HumanBriefing(b)
    <3>1. machineCount' = 0
      BY <1>3, <2>2 DEF HumanBriefing
    <3> QED  BY <3>1 DEF CountedMachines
  <2>3. CASE MachineBriefing(b)
    <3>1. \A c \in Attempts : b < c => answeredBy[c] = "nobody"
      BY <2>1, LiveIsLast DEF AnsweredCalls
    <3>2. answeredBy[b] = "machine"
      BY <2>3 DEF MachineBriefing
    <3>3. Counted(b)'
      BY <2>1, <3>1, <3>2 DEF Counted
    <3> QED  BY <1>1, <3>3
  <2>4. CASE NoVoice(b)
    <3>1. machineCount' = machineCount /\ lost' = lost /\ unheard' = unheard \cup {b}
      BY <2>4 DEF NoVoice
    <3>2. CASE machineCount > 0
      <4>1. PICK w \in Attempts : Counted(w)
        BY <1>3, <3>1, <3>2 DEF CountedMachines, Counted
      <4>2. Counted(w)'
        BY <2>1, <3>1, <4>1 DEF Counted
      <4> QED  BY <1>1, <4>2
    <3> QED  BY <3>1, <3>2 DEF CountedMachines
  <2> QED  BY <1>3, <2>2, <2>3, <2>4 DEF OperatorBriefing
<1>4. CASE ~lost' /\ ~\E a \in Attempts : OperatorBriefing(a)
  <2>1. machineCount' = machineCount
    BY <1>4, CountCases
  <2>2. CASE machineCount > 0
    <3>1. PICK w \in Attempts : Counted(w)
      BY <1>4, <2>2, LostStays DEF CountedMachines, Counted
    <3>2. CASE answeredBy' = answeredBy /\ requests' = requests
      <4>1. Counted(w)'
        BY <3>1, <3>2, UnheardStay DEF Counted
      <4> QED  BY <1>1, <4>1
    <3>3. ASSUME NEW a \in Attempts, NEW who \in {"human", "machine"},
                 op[a] = "ringing", answeredBy' = [answeredBy EXCEPT ![a] = who],
                 requests' = requests \cup {a}
          PROVE  CountedMachines'
      <4>1. a # w
        BY <3>1, <3>3 DEF Counted, AnsweredCalls
      <4>2. Counted(w)'
        BY <3>1, <3>3, <4>1, UnheardStay DEF Counted
      <4> QED  BY <1>1, <4>2
    <3> QED  BY <1>4, <3>2, <3>3, AnswerCases
  <2> QED  BY <2>1, <2>2 DEF CountedMachines
<1> QED  BY <1>2, <1>3, <1>4

-----------------------------------------------------------------------------
(***************************************************************************)
(* Giving up.                                                              *)
(***************************************************************************)

\* A reason to give up remains one: nobody answers the phone between two
\* machines any more.
LEMMA VoicemailStays ==
  ASSUME TypeOK, AttemptsInOrder, AnsweredCalls, VoicemailTwice, [Next]_vars
  PROVE  VoicemailTwice'
<1> USE DEF TypeOK
<1>1. PICK a \in Attempts, b \in Attempts :
         /\ a < b
         /\ answeredBy[a] = "machine" /\ answeredBy[b] = "machine"
         /\ \A c \in Attempts : a < c /\ c < b => answeredBy[c] # "human" \/ c \in unheard
  BY DEF VoicemailTwice
<1>2. CASE answeredBy' = answeredBy
  BY <1>1, <1>2, UnheardStay DEF VoicemailTwice
<1>3. ASSUME NEW d \in Attempts, NEW who \in {"human", "machine"},
             op[d] = "ringing", answeredBy' = [answeredBy EXCEPT ![d] = who]
      PROVE  VoicemailTwice'
  <2>1. d # a /\ d # b
    BY <1>1, <1>3 DEF AnsweredCalls
  <2>2. op[b] # "none"
    BY <1>1 DEF AnsweredCalls
  <2>3. ~(d < b)
    BY <1>3, <2>2 DEF AttemptsInOrder, Over
  <2>4. \A c \in Attempts : c < b => answeredBy'[c] = answeredBy[c]
    BY <1>3, <2>3
  <2>5. answeredBy'[b] = answeredBy[b] /\ answeredBy'[a] = answeredBy[a]
    BY <1>3, <2>1
  <2> QED  BY <1>1, <2>4, <2>5, UnheardStay DEF VoicemailTwice
<1>4. ASSUME NEW d \in Attempts, OperatorBriefing(d) PROVE answeredBy' = answeredBy
  BY <1>4 DEF OperatorBriefing
<1> QED  BY <1>2, <1>3, <1>4, AnswerCases

LEMMA GaveUpStays ==
  ASSUME TypeOK, AttemptsInOrder, AnsweredCalls, GaveUp, [Next]_vars
  PROVE  GaveUp'
<1>1. reported \subseteq reported' /\ (unplaced => unplaced')
  <2>1. CASE UNCHANGED vars
    BY <2>1 DEF vars, callVars, ghostVars
  <2>2. CASE ConnectOperator
    BY <2>2 DEF ConnectOperator, Placed, NotPlaced
  <2>3. CASE CallerStep
    BY <2>3 DEF CallerStep, CallerEnters, HoldMusic, LeaveHold, CallerGoes, ghostVars
  <2>4. ASSUME NEW a \in Attempts, PhoneStep(a) PROVE reported \subseteq reported' /\ (unplaced => unplaced')
    BY <2>4 DEF PhoneStep, NotAnswered, Joins, HangsUp, Answered, ghostVars
  <2>5. ASSUME NEW a \in Attempts, OperatorBriefing(a) PROVE reported \subseteq reported' /\ (unplaced => unplaced')
    BY <2>5 DEF OperatorBriefing
  <2>6. ASSUME NEW a \in Attempts, OperatorStatus(a) PROVE reported \subseteq reported' /\ (unplaced => unplaced')
    BY <2>6 DEF OperatorStatus, Retry, Placed, NotPlaced, GiveUp
  <2> QED  BY <2>1, <2>2, <2>3, <2>4, <2>5, <2>6, StepCases
<1> QED  BY <1>1, VoicemailStays DEF GaveUp

LEMMA CallbackStep ==
  ASSUME TypeOK, AttemptsInOrder, RequestsAreOpen, AnsweredCalls, CountedMachines,
         CallbackIsJustified, [Next]_vars
  PROVE  CallbackIsJustified'
<1> USE DEF TypeOK
<1>1. ASSUME (failed \/ caller \in {"leaving", "callback"}) \/
             ~(failed' \/ caller' \in {"leaving", "callback"})
      PROVE  CallbackIsJustified'
  BY <1>1, GaveUpStays, LostStays DEF CallbackIsJustified
<1>2. CASE UNCHANGED vars
  BY <1>1, <1>2 DEF vars, callVars, roomVars
<1>3. CASE ConnectOperator
  <2>1. CASE Placed(1) /\ caller' = "dialing"
    BY <1>1, <2>1 DEF Placed
  <2>2. ASSUME NEW marked \in BOOLEAN, NotPlaced(1, marked) PROVE CallbackIsJustified'
    BY <2>2 DEF NotPlaced, CallbackIsJustified, GaveUp
  <2>3. CASE caller' = "gone" /\ failed' = failed
    BY <1>1, <2>3
  <2> QED  BY <1>3, <2>1, <2>2, <2>3 DEF ConnectOperator
<1>4. CASE CallerStep
  BY <1>1, <1>4 DEF CallerStep, CallerEnters, HoldMusic, LeaveHold, CallerGoes, roomVars
<1>5. ASSUME NEW a \in Attempts, PhoneStep(a) PROVE CallbackIsJustified'
  BY <1>1, <1>5 DEF PhoneStep, NotAnswered, Joins, HangsUp, Answered, roomVars
<1>6. ASSUME NEW b \in Attempts, OperatorBriefing(b) PROVE CallbackIsJustified'
  <2>1. /\ b \in requests /\ b \notin reported /\ caller' = caller
        /\ answeredBy' = answeredBy /\ op[b] # "none"
    BY <1>6 DEF OperatorBriefing, RequestsAreOpen
  <2>2. CASE failed' = failed
    BY <1>1, <2>1, <2>2
  <2>3. CASE answeredBy[b] = "machine" /\ machineCount > 0 /\ ~lost
    <3>1. PICK w \in Attempts : Counted(w)
      BY <2>3 DEF CountedMachines, Counted
    <3>2. op[w] # "none" /\ w # b
      BY <2>1, <3>1 DEF AnsweredCalls, Counted
    <3>3. ~(b < w)
      BY <2>1, <3>2, LiveIsLast
    <3>4. w < b
      BY <3>2, <3>3 DEF Attempts
    <3>5. \A c \in Attempts : w < c /\ c < b => answeredBy[c] # "human" \/ c \in unheard
      <4>1. \A c \in Attempts : c < b => c \in reported
        BY <2>1 DEF AttemptsInOrder
      <4> QED  BY <3>1, <4>1 DEF Counted, RequestsAreOpen
    <3>6. VoicemailTwice
      BY <2>3, <3>1, <3>4, <3>5 DEF VoicemailTwice, Counted
    <3> QED  BY <3>6, VoicemailStays DEF CallbackIsJustified, GaveUp
  <2>4. CASE lost
    BY <2>4, LostStays DEF CallbackIsJustified
  <2>5. \/ failed' = failed
        \/ answeredBy[b] = "machine" /\ machineCount + 1 >= 2
    BY <1>6 DEF OperatorBriefing, MachineBriefing, HumanBriefing, NoVoice, TwoMachines
  <2> QED  BY <2>2, <2>3, <2>4, <2>5
<1>7. ASSUME NEW a \in Attempts, OperatorStatus(a) PROVE CallbackIsJustified'
  <2>1. CASE Retry(a)
    <3>1. caller' \notin {"leaving", "callback"} \/ caller' = caller
      BY <2>1 DEF Retry, Announced, RedirectedTo
    <3>2. CASE Placed(a + 1)
      BY <1>1, <3>1, <3>2 DEF Placed
    <3>3. ASSUME NEW marked \in BOOLEAN, NotPlaced(a + 1, marked) PROVE CallbackIsJustified'
      BY <3>3 DEF NotPlaced, CallbackIsJustified, GaveUp
    <3>4. CASE failed' = failed
      BY <1>1, <3>1, <3>4
    <3> QED  BY <2>1, <3>2, <3>3, <3>4 DEF Retry
  <2>2. CASE a = 3
    BY <1>7, <2>2 DEF OperatorStatus, CallbackIsJustified, GaveUp
  <2>3. CASE UNCHANGED <<caller, failed>>
    BY <1>1, <2>3
  <2> QED  BY <1>7, <2>1, <2>2, <2>3 DEF OperatorStatus
<1> QED  BY <1>2, <1>3, <1>4, <1>5, <1>6, <1>7, StepCases

-----------------------------------------------------------------------------
(***************************************************************************)
(* The invariant and what follows from it.                                 *)
(***************************************************************************)

LEMMA InitInductive == Init => Inductive
<1> SUFFICES ASSUME Init PROVE Inductive
  OBVIOUS
<1> USE DEF Init
<1>1. AttemptsInOrder /\ NothingBeforeRequest /\ RequestsAreOpen /\ BriefedOnTheWay
  BY DEF AttemptsInOrder, NothingBeforeRequest, RequestsAreOpen, BriefedOnTheWay
<1>2. ConferenceIsShared /\ ServedInLastAttempt /\ AnsweredCalls
  BY DEF ConferenceIsShared, OnHold, ServedInLastAttempt, AnsweredCalls
<1>3. CountedMachines /\ CallbackIsJustified
  BY DEF CountedMachines, CallbackIsJustified
<1> QED  BY <1>1, <1>2, <1>3 DEF Inductive

\* The inductive invariant: attempts follow the status callbacks of the earlier
\* ones, the briefed flag speaks of the call under way, and so do the count of
\* machines, the conference and the caller's place.
THEOREM InductiveInvariant == Spec => []Inductive
<1>1. TypeOK /\ Inductive /\ [Next]_vars => Inductive'
  <2> SUFFICES ASSUME TypeOK, Inductive, [Next]_vars PROVE Inductive'
    OBVIOUS
  <2> USE DEF Inductive
  <2>1. AttemptsInOrder' /\ NothingBeforeRequest' /\ RequestsAreOpen'
    BY OrderStep, RequestStep, OpenStep
  <2>2. BriefedOnTheWay' /\ ConferenceIsShared' /\ ServedInLastAttempt'
    BY BriefedStep, ConferenceStep, ServedStep
  <2>3. AnsweredCalls' /\ CountedMachines' /\ CallbackIsJustified'
    BY AnsweredStep, CountStep, CallbackStep
  <2> QED  BY <2>1, <2>2, <2>3
<1>2. Spec => []TypeOK
  BY TypeCorrect
<1> QED  BY <1>1, <1>2, InitInductive, PTL DEF Spec, Safety

\* A caller is offered the callback, or the room flagged failed, only when the
\* attempts are used up, two machines answered in a row, a call could not be
\* placed, or Redis failed in the middle of a handler.
THEOREM GivingUpIsJustified == Spec => []CallbackIsJustified
<1>1. Inductive => CallbackIsJustified
  BY DEF Inductive
<1> QED  BY <1>1, InductiveInvariant, PTL

\* A caller who talks to the operator, or has, is never redirected.
THEOREM ServedStayServed == Spec => ServedCallersStayServed
<1> DEFINE Stays ==
      caller \in {"talking", "thanked"} => caller' \in {"talking", "thanked", "gone"}
<1>1. TypeOK /\ Inductive /\ [Next]_vars => [Stays]_vars
  <2> SUFFICES ASSUME TypeOK, Inductive, [Next]_vars, caller \in {"talking", "thanked"}
               PROVE  caller' \in {"talking", "thanked", "gone"}
    OBVIOUS
  <2>1. CASE UNCHANGED vars
    BY <2>1 DEF vars, callVars
  <2>2. CASE ConnectOperator
    BY <2>2 DEF ConnectOperator
  <2>3. CASE CallerStep
    BY <2>3 DEF CallerStep, CallerEnters, HoldMusic, LeaveHold, CallerGoes
  <2>4. ASSUME NEW a \in Attempts, PhoneStep(a) PROVE caller' \in {"talking", "thanked"}
    BY <2>4 DEF PhoneStep, NotAnswered, Joins, HangsUp, Answered, OnHold
  <2>5. ASSUME NEW a \in Attempts, OperatorBriefing(a) PROVE caller' = caller
    BY <2>5 DEF OperatorBriefing
  <2>6. ASSUME NEW a \in Attempts, OperatorStatus(a) PROVE caller' = caller
    <3>1. ~IsNoAnswer(a)
      BY <2>6, ServedIsNotRetried DEF Inductive
    <3> QED  BY <2>6, <3>1 DEF OperatorStatus
  <2> QED  BY <2>1, <2>2, <2>3, <2>4, <2>5, <2>6, StepCases
<1> QED  BY <1>1, TypeCorrect, InductiveInvariant, PTL DEF Spec, Safety, ServedCallersStayServed

-----------------------------------------------------------------------------
(***************************************************************************)
(* Refinement: TransferLifecycle, step by step.                            *)
(***************************************************************************)

\* An attempt that has been placed and is not over is under way.
LEMMA LiveIsUnderWay ==
  ASSUME AttemptsInOrder, NEW a \in Attempts, op[a] # "none", ~Over(a) \/ a \notin reported
  PROVE  a \in Transfer!UnderWay
BY DEF AttemptsInOrder, Transfer!UnderWay, PlacedCalls

\* What leaves the calls placed, their status callbacks and the note alone, and
\* the caller where they are for the abstract transfer.
LEMMA Stutters ==
  ASSUME PlacedCalls' = PlacedCalls, reported' = reported, noted' = noted, Where' = Where
  PROVE  UNCHANGED Transfer!vars
BY DEF Transfer!vars

LEMMA ConnectRefines ==
  ASSUME TypeOK, Inductive, ConnectOperator
  PROVE  Transfer!Ask
<1>1. caller = "requesting" /\ \A a \in Attempts : op[a] = "none"
  BY DEF ConnectOperator, Inductive, NothingBeforeRequest
<1>2. reported' = reported /\ noted' = noted /\ caller' \in {"dialing", "gone"}
  BY DEF ConnectOperator
<1>3. Where = "asking" /\ Where' \in {"room", "over"}
  BY <1>1, <1>2 DEF Where
<1>4. PlacedCalls' \in {{}, {1}}
  BY <1>1, ConnectRings DEF PlacedCalls, Ringing, TypeOK
<1> QED  BY <1>2, <1>3, <1>4 DEF Transfer!Ask

LEMMA CallerRefines ==
  ASSUME TypeOK, Inductive, CallerStep
  PROVE  [Transfer!Next]_(Transfer!vars)
<1>1. PlacedCalls' = PlacedCalls /\ reported' = reported /\ noted' = noted
  BY DEF CallerStep, CallerEnters, HoldMusic, LeaveHold, CallerGoes, roomVars, PlacedCalls, TypeOK
<1>2. CASE CallerEnters
  <2>1. CASE InConference = {}
    BY <1>1, <1>2, <2>1, Stutters DEF CallerEnters, Where
  <2>2. ASSUME NEW a \in InConference PROVE Transfer!Meet
    <3>1. a \in Transfer!UnderWay
      BY LiveIsUnderWay DEF InConference, Over, Inductive
    <3> QED  BY <1>1, <1>2, <2>2, <3>1 DEF CallerEnters, Where, Transfer!Meet
  <2> QED  BY <2>1, <2>2 DEF Transfer!Next
<1>3. CASE HoldMusic
  <2>1. CASE caller' = "leaving"
    BY <1>1, <1>3, <2>1, Stutters DEF HoldMusic, Where
  <2>2. CASE caller' = "gone"
    BY <1>1, <1>3, <2>2 DEF HoldMusic, Where, Transfer!Next, Transfer!Leave
  <2>3. CASE caller' = "silence"
    BY <1>1, <1>3, <2>3, Stutters DEF HoldMusic, Where
  <2> QED  BY <1>3, <2>1, <2>2, <2>3 DEF HoldMusic
<1>4. CASE LeaveHold
  BY <1>1, <1>4 DEF LeaveHold, Where, Transfer!Next, Transfer!Dismiss
<1>5. CASE CallerGoes
  <2>1. Where # "over" /\ Where' = "over"
    BY <1>5 DEF CallerGoes, Where, TypeOK, CallerPlaces
  <2> QED  BY <1>1, <2>1 DEF Transfer!Next, Transfer!Leave
<1> QED  BY <1>2, <1>3, <1>4, <1>5 DEF CallerStep

LEMMA PhoneRefines ==
  ASSUME TypeOK, Inductive, NEW a \in Attempts, PhoneStep(a)
  PROVE  [Transfer!Next]_(Transfer!vars)
<1>1. PlacedCalls' = PlacedCalls /\ reported' = reported /\ noted' = noted
  BY DEF PhoneStep, NotAnswered, Joins, HangsUp, Answered, roomVars, PlacedCalls, TypeOK
<1>2. CASE Joins(a) /\ OnHold
  <2>1. a \in Transfer!UnderWay
    BY <1>2, LiveIsUnderWay DEF Joins, Over, Inductive
  <2> QED  BY <1>1, <1>2, <2>1 DEF Joins, OnHold, Where, Transfer!Next, Transfer!Meet
<1>3. CASE ~(Joins(a) /\ OnHold)
  <2>1. Where' = Where
    BY <1>3 DEF PhoneStep, NotAnswered, Joins, HangsUp, Answered, Where
  <2> QED  BY <1>1, <2>1, Stutters
<1> QED  BY <1>2, <1>3

LEMMA BriefingRefines ==
  ASSUME TypeOK, Inductive, NEW a \in Attempts, OperatorBriefing(a)
  PROVE  [Transfer!Next]_(Transfer!vars)
<1>1. reported' = reported /\ Where' = Where
  BY DEF OperatorBriefing, Where
<1>2. PlacedCalls' = PlacedCalls
  BY BriefingMoves DEF PlacedCalls, TypeOK
<1>3. CASE noted' = noted
  BY <1>1, <1>2, <1>3, Stutters
<1>4. CASE noted' # noted
  <2>1. noted' = TRUE /\ ~noted
    BY <1>4 DEF OperatorBriefing, MachineBriefing, HumanBriefing, NoVoice, TypeOK
  <2>2. a \in Transfer!UnderWay
    BY LiveIsUnderWay DEF OperatorBriefing, Inductive, RequestsAreOpen
  <2> QED  BY <1>1, <1>2, <2>1, <2>2 DEF Transfer!Next, Transfer!Brief
<1> QED  BY <1>3, <1>4

\* A status callback moves a caller who waits, after the second and the third
\* attempt; one who has been served has no attempt left to wait for.
LEMMA StatusMoves ==
  ASSUME TypeOK, Inductive, NEW a \in Attempts, OperatorStatus(a)
  PROVE  \/ Where' = Where
         \/ Where \in {"room", "callback"} /\ a = 2 /\ Where' = "room"
         \/ Where \in {"room", "callback"} /\ a = 3 /\ Where' = "callback"
<1>1. CASE caller' = caller
  BY <1>1 DEF Where
<1>2. CASE caller' # caller
  <2>1. IsNoAnswer(a)
    BY <1>2 DEF OperatorStatus
  <2>2. caller \notin {"talking", "thanked"}
    BY <2>1, ServedIsNotRetried DEF Inductive
  <2>3. caller # "requesting"
    BY DEF OperatorStatus, Over, Inductive, NothingBeforeRequest
  <2>4. /\ caller # "gone"
        /\ \/ a = 2 /\ caller' = "dialing"
           \/ a = 3 /\ caller' = "callback"
    <3>1. CASE Retry(a)
      <4>1. a = 2 /\ caller' \in RedirectedTo("dialing")
        BY <1>2, <3>1 DEF Retry, Announced
      <4> QED  BY <1>2, <4>1 DEF RedirectedTo
    <3>2. CASE a = 3 /\ GiveUp
      <4>1. caller' \in RedirectedTo("callback")
        BY <1>2, <3>2 DEF GiveUp
      <4> QED  BY <1>2, <3>2, <4>1 DEF RedirectedTo
    <3> QED  BY <1>2, <3>1, <3>2 DEF OperatorStatus
  <2>5. Where \in {"room", "callback"}
    BY <2>2, <2>3, <2>4 DEF Where, TypeOK, CallerPlaces
  <2> QED  BY <2>4, <2>5 DEF Where
<1> QED  BY <1>1, <1>2

LEMMA StatusRefines ==
  ASSUME TypeOK, Inductive, NEW a \in Attempts, OperatorStatus(a)
  PROVE  Transfer!Conclude(a) /\ a \in 1..3
<1>1. Over(a) /\ a \notin reported /\ reported' = reported \cup {a} /\ noted' = noted
  BY DEF OperatorStatus
<1>2. a \in Transfer!UnderWay
  BY <1>1, LiveIsUnderWay DEF Over, Inductive
<1>3. PlacedCalls' = PlacedCalls \/ (a < 3 /\ PlacedCalls' = PlacedCalls \cup {a + 1})
  <2>1. CASE op' = op
    BY <2>1 DEF PlacedCalls
  <2>2. CASE a < 3 /\ a + 1 \in Attempts /\ op' = Ringing(a + 1)
    <3>1. \A b \in Attempts : op'[b] = IF b = a + 1 THEN "ringing" ELSE op[b]
      BY <2>2 DEF Ringing, TypeOK
    <3> QED  BY <2>2, <3>1 DEF PlacedCalls
  <2> QED  BY <2>1, <2>2, StatusRings
<1>4. \/ Where' = Where
      \/ Transfer!Waiting /\ a = 3 - 1 /\ Where' = "room"
      \/ Transfer!Waiting /\ a = 3 /\ Where' = "callback"
  BY StatusMoves DEF Transfer!Waiting
<1> QED  BY <1>1, <1>2, <1>3, <1>4 DEF Transfer!Conclude, Attempts

\* Every step of a transfer is one of TransferLifecycle or changes nothing of it:
\* one call to the operator at a time, each after the status callback of the one
\* before, two redirects out of the callback dialog at most, and nobody put
\* through or marked as briefed by a call that is over.
THEOREM TransferRefines == Spec => ImplementsTransfer
<1>1. Init => Transfer!Init
  BY DEF Init, Transfer!Init, Where, PlacedCalls
<1>2. TypeOK /\ Inductive /\ [Next]_vars => [Transfer!Next]_(Transfer!vars)
  <2> SUFFICES ASSUME TypeOK, Inductive, [Next]_vars
               PROVE  [Transfer!Next]_(Transfer!vars)
    OBVIOUS
  <2>1. CASE UNCHANGED vars
    <3>1. PlacedCalls' = PlacedCalls /\ Where' = Where
      BY <2>1 DEF vars, callVars, PlacedCalls, Where
    <3> QED  BY <2>1, <3>1, Stutters DEF vars, callVars, roomVars
  <2>2. CASE ConnectOperator
    BY <2>2, ConnectRefines DEF Transfer!Next
  <2>3. CASE CallerStep
    BY <2>3, CallerRefines
  <2>4. ASSUME NEW a \in Attempts, PhoneStep(a) PROVE [Transfer!Next]_(Transfer!vars)
    BY <2>4, PhoneRefines
  <2>5. ASSUME NEW a \in Attempts, OperatorBriefing(a) PROVE [Transfer!Next]_(Transfer!vars)
    BY <2>5, BriefingRefines
  <2>6. ASSUME NEW a \in Attempts, OperatorStatus(a) PROVE [Transfer!Next]_(Transfer!vars)
    BY <2>6, StatusRefines DEF Transfer!Next
  <2> QED  BY <2>1, <2>2, <2>3, <2>4, <2>5, <2>6, StepCases
<1> QED  BY <1>1, <1>2, TypeCorrect, InductiveInvariant, PTL
         DEF Spec, Safety, ImplementsTransfer, Transfer!Spec

=============================================================================
