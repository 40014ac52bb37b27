--------------------------- MODULE AiDialog_proofs ---------------------------
(***************************************************************************)
(* Theorems about the dialogs of a call, for every cap of the conversation *)
(* and whatever fails: types, the one alert, and what is never forgotten   *)
(* of the caller. AiDialogReports_proofs goes on from here.                *)
(***************************************************************************)
EXTENDS AiDialog, SequenceTheorems, TLAPS

-----------------------------------------------------------------------------
(***************************************************************************)
(* What the steps of a request do to `kept`.                               *)
(***************************************************************************)

\* A capped conversation is one, and not empty unless there was none.
LEMMA CappedType ==
  ASSUME NEW m \in Seq(Messages)
  PROVE  Capped(m) \in Seq(Messages) /\ (m # <<>> => Capped(m) # <<>>)
<1> DEFINE first == IF Len(m) <= MaxConversation THEN 1 ELSE Len(m) - MaxConversation + 1
<1>1. Len(m) \in Nat /\ MaxConversation \in Nat /\ MaxConversation > 1
  BY MaxConversationAssumption
<1>2. first \in 1..(Len(m) + 1) /\ (Len(m) > 0 => first <= Len(m))
  BY <1>1
<1>3. Len(m) \in (first - 1)..Len(m)
  BY <1>1, <1>2
<1>4. SubSeq(m, first, Len(m)) \in Seq(Messages)
      /\ Len(SubSeq(m, first, Len(m))) = Len(m) - first + 1
  <2> HIDE DEF first
  <2> QED  BY <1>2, <1>3, SubSeqProperties
<1>5. m # <<>> => Len(SubSeq(m, first, Len(m))) > 0
  <2>1. m # <<>> => Len(m) > 0
    BY EmptySeq
  <2> HIDE DEF first
  <2>2. first \in Int
    BY <1>2
  <2> QED  BY <1>1, <1>2, <1>4, <2>1, <2>2
<1>6. Capped(m) = SubSeq(m, first, Len(m))
  BY DEF Capped
<1> QED
  <2> HIDE DEF first
  <2>1. Len(<<>>) = 0
    OBVIOUS
  <2> QED  BY <1>4, <1>5, <1>6, <2>1

\* Roles, and the empty info.
LEMMA FreshInfoType == FreshInfo \in Infos
BY DEF FreshInfo, Infos

LEMMA PromptedStep ==
  ASSUME NEW s \in KeptStates
  PROVE  /\ Prompted(s) \in KeptStates
         /\ Prompted(s).said # <<>> /\ Prompted(s).conversation # <<>>
         /\ Prompted(s).info = s.info /\ Prompted(s).alerts = s.alerts
<1> DEFINE m == Prompt(Len(s.said) + 1)
           c == <<m>>
           d == Append(s.said, <<>>)
<1>1. s.said \in Seq(Seq(Messages)) /\ Len(s.said) \in Nat
  BY DEF KeptStates
<1>2. m \in Messages
  BY <1>1 DEF Messages, Prompt
<1>3. c \in Seq(Messages) /\ c # <<>>
  <2> HIDE DEF m
  <2> QED  BY <1>2
<1>4. d \in Seq(Seq(Messages)) /\ d # <<>>
  BY <1>1
<1>5. Prompted(s) = [s EXCEPT !.conversation = c, !.said = d]
  BY DEF Prompted
<1> QED
  <2> HIDE DEF c, d
  <2> QED  BY <1>3, <1>4, <1>5 DEF KeptStates

LEMMA SaysStep ==
  ASSUME NEW s \in KeptStates, s.said # <<>>, NEW role \in {"user", "assistant"}
  PROVE  /\ Says(s, role) \in KeptStates
         /\ Says(s, role).said # <<>> /\ Says(s, role).conversation # <<>>
         /\ Says(s, role).info = s.info /\ Says(s, role).alerts = s.alerts
<1> DEFINE d == Len(s.said)
           m == [role |-> role, dialog |-> d, n |-> Len(s.said[d]) + 1]
           c == Capped(Append(s.conversation, m))
           t == [s.said EXCEPT ![d] = Append(@, m)]
<1>1. s.said \in Seq(Seq(Messages)) /\ d \in Nat /\ s.conversation \in Seq(Messages)
  BY DEF KeptStates
<1>2. d \in 1..Len(s.said)
  BY <1>1, EmptySeq
<1>3. s.said[d] \in Seq(Messages) /\ Len(s.said[d]) \in Nat
  BY <1>1, <1>2
<1>4. m \in Messages
  BY <1>1, <1>3 DEF Messages
<1>5. c \in Seq(Messages) /\ c # <<>>
  <2> HIDE DEF m
  <2>1. Append(s.conversation, m) \in Seq(Messages) /\ Append(s.conversation, m) # <<>>
    BY <1>1, <1>4, AppendProperties
  <2> QED  BY <2>1, CappedType
<1>6. t \in Seq(Seq(Messages)) /\ t # <<>>
  <2> HIDE DEF m, d
  <2>1. Append(s.said[d], m) \in Seq(Messages)
    BY <1>3, <1>4
  <2>2. t \in Seq(Seq(Messages)) /\ Len(t) = Len(s.said)
    BY <1>1, <1>2, <2>1, ExceptSeq
  <2> QED  BY <1>2, <2>2
<1>7. Says(s, role) = [s EXCEPT !.conversation = c, !.said = t]
  BY DEF Says
<1> QED
  <2> HIDE DEF c, t
  <2> QED  BY <1>5, <1>6, <1>7 DEF KeptStates

LEMMA ExchangeStep ==
  ASSUME NEW s \in KeptStates, s.said # <<>>
  PROVE  /\ Exchange(s) \in KeptStates
         /\ Exchange(s).said # <<>> /\ Exchange(s).conversation # <<>>
         /\ Exchange(s).info = s.info /\ Exchange(s).alerts = s.alerts
<1> DEFINE asked1 == Says(s, "user")
<1>1. asked1 \in KeptStates /\ asked1.said # <<>> /\ asked1.info = s.info
      /\ asked1.alerts = s.alerts
  BY SaysStep
<1> HIDE DEF asked1
<1>2. Exchange(s) = Says(asked1, "assistant")
  BY DEF Exchange, asked1
<1> QED  BY <1>1, <1>2, SaysStep

\* A step that only changes the info, keeps what is known and sends no alert.
LEMMA InfoSteps ==
  ASSUME NEW s \in KeptStates, NEW k \in Kinds, NEW contact \in BOOLEAN
  PROVE  /\ Merged(s, k) \in KeptStates /\ KeepsInfo(s.info, Merged(s, k).info)
         /\ Reset(s, k) \in KeptStates
         /\ Informed(s, contact) \in KeptStates /\ KeepsInfo(s.info, Informed(s, contact).info)
         /\ Noted(s) \in KeptStates /\ KeepsInfo(s.info, Noted(s).info)
<1>1. /\ s.info.contact \in BOOLEAN /\ s.info.notified \in BOOLEAN
      /\ s.info.topic \in Kinds \cup {"", "direct"} /\ s.info \in Infos
  BY DEF KeptStates, Infos
<1>2. Merged(s, k) \in KeptStates /\ KeepsInfo(s.info, Merged(s, k).info)
  BY <1>1 DEF Merged, KeptStates, Infos, KeepsInfo
<1>3. Reset(s, k) \in KeptStates
  BY FreshInfoType DEF Reset, KeptStates, Infos
<1>4. Informed(s, contact) \in KeptStates /\ KeepsInfo(s.info, Informed(s, contact).info)
  BY <1>1 DEF Informed, KeptStates, Infos, KeepsInfo
<1>5. Noted(s) \in KeptStates /\ KeepsInfo(s.info, Noted(s).info)
  BY <1>1 DEF Noted, KeptStates, Infos, KeepsInfo
<1> QED  BY <1>2, <1>3, <1>4, <1>5

\* The end of a dialog: a conversation without its prompt is one.
LEMMA SpokenType == ASSUME NEW m \in Seq(Messages) PROVE Spoken(m) \in Seq(Messages)
BY HeadTailProperties DEF Spoken

LEMMA EndingSteps ==
  ASSUME NEW s \in KeptStates, NEW k \in Kinds, NEW m \in Seq(Messages)
  PROVE  /\ Popped(s) \in KeptStates /\ Popped(s).info = s.info /\ Popped(s).alerts = s.alerts
         /\ Popped(s).conversation = <<>>
         /\ Saved(s, m) \in KeptStates /\ KeepsInfo(s.info, Saved(s, m).info)
         /\ Saved(s, m).alerts = s.alerts /\ Saved(s, m).conversation = s.conversation
         /\ Saved(s, m).info.notified = s.info.notified
         /\ Reported(s, k, m) \in KeptStates /\ Reported(s, k, m).info = s.info
         /\ Reported(s, k, m).alerts = s.alerts
         /\ Reported(s, k, m).conversation = s.conversation
<1>1. Popped(s) \in KeptStates /\ Popped(s).info = s.info /\ Popped(s).alerts = s.alerts
      /\ Popped(s).conversation = <<>>
  BY EmptySeq DEF Popped, KeptStates
<1>2. /\ Saved(s, m) \in KeptStates /\ KeepsInfo(s.info, Saved(s, m).info)
      /\ Saved(s, m).alerts = s.alerts /\ Saved(s, m).conversation = s.conversation
      /\ Saved(s, m).info.notified = s.info.notified
  BY SpokenType DEF Saved, KeptStates, Infos, KeepsInfo
<1>3. /\ Reported(s, k, m) \in KeptStates /\ Reported(s, k, m).info = s.info
      /\ Reported(s, k, m).alerts = s.alerts
      /\ Reported(s, k, m).conversation = s.conversation
  <2> DEFINE r == [kind |-> k, dialog |-> Len(s.said), topic |-> s.info.topic,
                   conversation |-> m, briefing |-> s.info.briefing]
  <2>1. Len(s.said) \in Nat /\ s.reports \in Seq(Reports)
    BY LenProperties DEF KeptStates
  <2>2. r \in Reports
    BY <2>1 DEF Reports, KeptStates, Infos
  <2>3. Reported(s, k, m) = [s EXCEPT !.reports = Append(@, r)]
    BY DEF Reported
  <2> HIDE DEF r
  <2>4. Append(s.reports, r) \in Seq(Reports)
    BY <2>1, <2>2, AppendProperties
  <2> QED  BY <2>3, <2>4 DEF KeptStates
<1> QED  BY <1>1, <1>2, <1>3

-----------------------------------------------------------------------------
(***************************************************************************)
(* Requests.                                                               *)
(***************************************************************************)
WellKept(s) == s \in KeptStates /\ (s.conversation # <<>> => s.said # <<>>)

\* An alert sent has been noted.
Noticed(s) == s.alerts = 0 \/ (s.alerts = 1 /\ s.info.notified)

\* What a request may make of s, whichever of its writes fails.
Follows(s, t) ==
  /\ WellKept(t)
  /\ KeepsInfo(s.info, t.info)
  /\ Noticed(s) => Noticed(t)

LEMMA FollowsTransitive ==
  ASSUME NEW s, NEW t, NEW u, Follows(s, t), Follows(t, u)
  PROVE  Follows(s, u)
BY DEF Follows, KeepsInfo

LEMMA GatherFollows ==
  ASSUME WellKept(kept), NEW topic \in Kinds, NEW k \in Kinds
  PROVE  /\ \A i \in 1..4 : Follows(kept, GatherSteps(topic, k)[i])
         /\ GatherSteps(topic, k)[4].conversation # <<>>
<1>1. Follows(kept, kept)
  BY DEF Follows, KeepsInfo
<1>2. CASE kept.conversation # <<>>
  BY <1>1, <1>2 DEF GatherSteps
<1>3. CASE kept.conversation = <<>>
  <2> DEFINE p == Prompted(kept)
             m == Merged(p, topic)
             g == Greeted(m, k)
  <2>1. /\ p \in KeptStates /\ p.said # <<>> /\ p.conversation # <<>>
        /\ p.info = kept.info /\ p.alerts = kept.alerts
    BY PromptedStep DEF WellKept
  <2>2. /\ m \in KeptStates /\ KeepsInfo(p.info, m.info) /\ m.info.notified = p.info.notified
        /\ m.said = p.said /\ m.alerts = p.alerts
    <3> HIDE DEF p
    <3>1. m \in KeptStates /\ KeepsInfo(p.info, m.info)
      BY <2>1, InfoSteps
    <3>2. m.said = p.said /\ m.alerts = p.alerts /\ m.info.notified = p.info.notified
      BY <2>1 DEF Merged, KeptStates, Infos
    <3> QED  BY <3>1, <3>2
  <2>3. /\ g \in KeptStates /\ g.said # <<>> /\ g.conversation # <<>>
        /\ g.info = m.info /\ g.alerts = m.alerts
    <3> HIDE DEF m
    <3> QED  BY <2>1, <2>2, SaysStep, ExchangeStep DEF Greeted
  <2>4. GatherSteps(topic, k) = <<kept, p, m, g>>
    BY <1>3 DEF GatherSteps
  <2> HIDE DEF p, m, g
  <2>5. Follows(kept, p)
    BY <2>1 DEF Follows, WellKept, KeepsInfo, Noticed
  <2>6. Follows(p, m)
    BY <2>1, <2>2 DEF Follows, WellKept, Noticed
  <2>7. Follows(m, g)
    BY <2>3 DEF Follows, WellKept, KeepsInfo, Noticed
  <2>8. Follows(kept, m) /\ Follows(kept, g)
    BY <2>5, <2>6, <2>7, FollowsTransitive
  <2> QED  BY <1>1, <2>3, <2>4, <2>5, <2>8
<1> QED  BY <1>2, <1>3

LEMMA BeforeAnswerFollows ==
  ASSUME WellKept(kept), NEW topic \in Kinds
  PROVE  /\ \A i \in 1..3 : WellKept(BeforeAnswer(topic)[i])
         /\ BeforeAnswer(topic)[3].said # <<>>
         /\ kept.conversation # <<>> => \A i \in 1..3 : BeforeAnswer(topic)[i] = kept
<1>1. CASE kept.conversation # <<>>
  BY <1>1 DEF BeforeAnswer, WellKept
<1>2. CASE kept.conversation = <<>>
  <2> DEFINE p == Prompted(kept)
             r == Reset(p, topic)
  <2>1. p \in KeptStates /\ p.said # <<>> /\ p.conversation # <<>>
    BY PromptedStep DEF WellKept
  <2>2. r \in KeptStates /\ r.said # <<>>
    <3> HIDE DEF p
    <3>1. r.said = p.said
      BY <2>1 DEF Reset, KeptStates
    <3> QED  BY <2>1, <3>1, InfoSteps
  <2>3. BeforeAnswer(topic) = <<kept, p, r>>
    BY <1>2 DEF BeforeAnswer
  <2> HIDE DEF p, r
  <2> QED  BY <1>2, <2>1, <2>2, <2>3 DEF WellKept
<1> QED  BY <1>1, <1>2

LEMMA AnswerFollows ==
  ASSUME NEW s \in KeptStates, s.said # <<>>, NEW contact \in BOOLEAN
  PROVE  /\ \A i \in 1..4 : Follows(s, AnswerSteps(s, contact)[i])
         /\ AnswerSteps(s, contact)[4].conversation # <<>>
<1> DEFINE e == Exchange(s)
           m == Informed(e, contact)
           n == Noted(m)
           a == Alerted(n)
<1>1. /\ e \in KeptStates /\ e.said # <<>> /\ e.conversation # <<>>
      /\ e.info = s.info /\ e.alerts = s.alerts
  BY ExchangeStep
<1>2. /\ m \in KeptStates /\ KeepsInfo(e.info, m.info) /\ m.alerts = e.alerts
      /\ m.said = e.said /\ m.conversation = e.conversation
  <2> HIDE DEF e
  <2>1. m.alerts = e.alerts /\ m.said = e.said /\ m.conversation = e.conversation
    BY <1>1 DEF Informed, KeptStates
  <2>2. "topic" \in Kinds
    BY DEF Kinds
  <2> QED  BY <1>1, <2>1, <2>2, InfoSteps
<1>3. /\ n \in KeptStates /\ KeepsInfo(m.info, n.info) /\ n.alerts = m.alerts
      /\ n.said = m.said /\ n.conversation = m.conversation
      /\ (m.info.contact => n.info.notified)
  <2> HIDE DEF m
  <2>1. n.alerts = m.alerts /\ n.said = m.said /\ n.conversation = m.conversation
        /\ (m.info.contact => n.info.notified)
    BY <1>2 DEF Noted, KeptStates, Infos
  <2>2. "topic" \in Kinds
    BY DEF Kinds
  <2> QED  BY <1>2, <2>1, <2>2, InfoSteps
<1>4. /\ a \in KeptStates /\ a.info = n.info /\ a.alerts = n.alerts + 1
      /\ a.said = n.said /\ a.conversation = n.conversation
  <2>1. n \in KeptStates /\ n.alerts + 1 \in Nat
    BY <1>3 DEF KeptStates
  <2> HIDE DEF n
  <2> QED  BY <2>1 DEF Alerted, KeptStates
<1>5. AnswerSteps(s, contact) = <<e, m, n, IF Alerts(m) THEN a ELSE n>>
  BY DEF AnswerSteps
<1> HIDE DEF e, m, n, a
<1>6. Follows(s, e)
  BY <1>1 DEF Follows, WellKept, KeepsInfo, Noticed
<1>7. Follows(e, m) /\ Follows(m, n)
  BY <1>1, <1>2, <1>3 DEF Follows, WellKept, KeepsInfo, Noticed
<1>8. Follows(s, m) /\ Follows(s, n)
  BY <1>6, <1>7, FollowsTransitive
<1>9. Alerts(m) => Follows(m, a)
  <2>1. WellKept(a) /\ KeepsInfo(m.info, a.info)
    BY <1>1, <1>2, <1>3, <1>4 DEF WellKept
  <2>2. ASSUME Alerts(m), Noticed(m) PROVE Noticed(a)
    <3>1. m.alerts = 0 /\ n.info.notified
      BY <1>3, <2>2 DEF Alerts, Noticed
    <3> QED  BY <1>3, <1>4, <3>1 DEF Noticed
  <2> QED  BY <2>1, <2>2 DEF Follows
<1>10. Alerts(m) => Follows(s, a)
  BY <1>8, <1>9, FollowsTransitive
<1> QED  BY <1>1, <1>2, <1>3, <1>4, <1>5, <1>6, <1>8, <1>10

LEMMA EndFollows ==
  ASSUME NEW s \in KeptStates, NEW k \in Kinds
  PROVE  \A i \in 1..3 : Follows(s, EndSteps(s, k)[i])
<1> DEFINE p == Popped(s)
           v == Saved(p, s.conversation)
           merged == PreScreening(s, v) \o v.info.conversation
           r == Reported(v, k, v.info.conversation)
           c == Reported(v, k, merged)
<1>1. /\ p \in KeptStates /\ p.info = s.info /\ p.alerts = s.alerts
      /\ p.conversation = <<>> /\ s.conversation \in Seq(Messages)
      /\ s.info.conversation \in Seq(Messages)
  BY EndingSteps, EmptySeq DEF KeptStates, Infos
<1>2. /\ v \in KeptStates /\ KeepsInfo(p.info, v.info) /\ v.alerts = p.alerts
      /\ v.conversation = <<>> /\ v.info.notified = p.info.notified
  <2> HIDE DEF p
  <2> QED  BY <1>1, EndingSteps
<1>3. v.info.conversation \in Seq(Messages) /\ merged \in Seq(Messages)
  <2> HIDE DEF v
  <2>1. v.info.conversation \in Seq(Messages)
    BY <1>2 DEF KeptStates, Infos
  <2> QED  BY <1>1, <2>1, ConcatProperties DEF PreScreening
<1>4. \A x \in {r, c} : /\ x \in KeptStates /\ x.info = v.info /\ x.alerts = v.alerts
                        /\ x.conversation = <<>>
  <2> HIDE DEF v, merged
  <2> QED  BY <1>2, <1>3, EndingSteps
<1>5. EndSteps(s, k) = <<p, v, IF k = "conversational" THEN r
                               ELSE IF k = "callback" THEN c ELSE v>>
  BY DEF EndSteps
<1> HIDE DEF p, v, r, c
<1>6. Follows(s, p)
  BY <1>1 DEF Follows, WellKept, KeepsInfo, Noticed
<1>7. Follows(s, v)
  BY <1>1, <1>2 DEF Follows, WellKept, KeepsInfo, Noticed
<1>8. Follows(s, r) /\ Follows(s, c)
  BY <1>1, <1>2, <1>4 DEF Follows, WellKept, KeepsInfo, Noticed
<1> QED  BY <1>5, <1>6, <1>7, <1>8

LEMMA HeadType ==
  ASSUME TypeOK, requests # <<>>
  PROVE  Head(requests).kind \in Kinds
<1>1. Head(requests) \in Requests
  BY HeadTailProperties DEF TypeOK
<1> QED  BY <1>1 DEF Requests

\* Both handlers: what they store, and where their TwiML takes the caller.
LEMMA GatherKept ==
  ASSUME TypeOK, WellKept(kept), AiGather
  PROVE  /\ Follows(kept, kept')
         /\ \E next \in Places \ {"menu", "waiting", "gone"} :
              Answer(next) /\ (next = "listening" => kept'.conversation # <<>>)
         /\ UNCHANGED <<kind, redirects, asked, briefed, expired>>
<1>1. Head(requests).kind \in Kinds
  BY HeadType DEF AiGather, Handles
<1>2. PICK k \in Seen(Head(requests).kind) :
        LET steps == GatherSteps(Head(requests).kind, k) IN
          \/ /\ kept' = steps[4]
             /\ Answer("listening") \/ Answer("streaming")
          \/ (\E i \in 1..4 : kept' = steps[i]) /\ Answer("closing")
  BY DEF AiGather
<1>3. k \in Kinds
  BY <1>1, <1>2 DEF Seen, Kinds
<1>4. /\ \A i \in 1..4 : Follows(kept, GatherSteps(Head(requests).kind, k)[i])
      /\ GatherSteps(Head(requests).kind, k)[4].conversation # <<>>
  BY <1>1, <1>3, GatherFollows
<1>5. Follows(kept, kept')
  BY <1>2, <1>4
<1>6. \E next \in Places \ {"menu", "waiting", "gone"} :
        Answer(next) /\ (next = "listening" => kept'.conversation # <<>>)
  BY <1>2, <1>4 DEF Places
<1>7. UNCHANGED <<kind, redirects, asked, briefed, expired>>
  BY DEF AiGather
<1> QED  BY <1>5, <1>6, <1>7

LEMMA RespondKept ==
  ASSUME TypeOK, WellKept(kept), AiRespond
  PROVE  /\ WellKept(kept')
         /\ kept.conversation # <<>> => Follows(kept, kept')
         /\ \E next \in Places \ {"menu", "waiting", "gone"} :
              Answer(next) /\ (next = "listening" => kept'.conversation # <<>>)
         /\ UNCHANGED <<kind, redirects, asked, briefed, expired>>
<1> DEFINE topic == Head(requests).kind
           asking == BeforeAnswer(topic)
           answer(contact) == AnswerSteps(asking[3], contact)
           end(contact, k) == EndSteps(answer(contact)[4], k)
<1>1. topic \in Kinds
  BY HeadType DEF AiRespond, Handles
<1>a. PICK k \in Seen(topic), contact \in BOOLEAN, ends \in BOOLEAN :
        \/ ~ends /\ kept' = answer(contact)[4] /\ Answer("listening")
        \/ ends /\ kept' = end(contact, k)[3] /\ Answer(Leads(end(contact, k)[3], k))
        \/ "llm" \in Failures /\ kept' = Unanswered(asking[3]) /\ Answer("closing")
        \/ /\ "redis" \in Failures
           /\ \/ \E i \in 1..3 : kept' = asking[i]
              \/ \E i \in 1..4 : kept' = answer(contact)[i]
              \/ ends /\ \E i \in 1..2 : kept' = end(contact, k)[i]
           /\ Answer("closing")
        \/ /\ "db" \in Failures
           /\ kept' \in {asking[1], answer(contact)[2], answer(contact)[3],
                         IF ends THEN end(contact, k)[2] ELSE answer(contact)[3]}
           /\ Answer("closing")
  BY Zenon DEF AiRespond
<1>2. \/ kept' = answer(contact)[4] /\ Answer("listening")
      \/ kept' = end(contact, k)[3] /\ Answer(Leads(end(contact, k)[3], k))
      \/ /\ \/ \E i \in 1..3 : kept' = asking[i]
            \/ \E i \in 1..4 : kept' = answer(contact)[i]
            \/ \E i \in 1..3 : kept' = end(contact, k)[i]
         /\ Answer("closing")
  <2> HIDE DEF asking, answer, end
  <2> QED  BY <1>a DEF Unanswered
<1>3. k \in Kinds
  BY <1>1, <1>a DEF Seen, Kinds
<1>4. /\ \A i \in 1..3 : WellKept(asking[i])
      /\ asking[3].said # <<>>
      /\ kept.conversation # <<>> => \A i \in 1..3 : asking[i] = kept
  BY <1>1, BeforeAnswerFollows
<1> HIDE DEF asking
<1>5. /\ \A i \in 1..4 : Follows(asking[3], answer(contact)[i])
      /\ answer(contact)[4].conversation # <<>>
  BY <1>4, AnswerFollows DEF WellKept
<1> HIDE DEF answer
<1>6. \A i \in 1..3 : Follows(answer(contact)[4], end(contact, k)[i])
  <2>1. answer(contact)[4] \in KeptStates
    BY <1>5 DEF Follows, WellKept
  <2> QED  BY <1>3, <2>1, EndFollows
<1> HIDE DEF end
<1>7. \A i \in 1..3 : Follows(asking[3], end(contact, k)[i])
  BY <1>5, <1>6, FollowsTransitive
<1>8. (\E i \in 1..3 : kept' = asking[i]) \/ Follows(asking[3], kept')
  BY <1>2, <1>5, <1>7
<1>9. WellKept(kept')
  BY <1>4, <1>8 DEF Follows
<1>10. kept.conversation # <<>> => Follows(kept, kept')
  <2>1. Follows(kept, kept)
    BY DEF Follows, KeepsInfo
  <2> QED  BY <1>4, <1>8, <2>1
<1>11. \E next \in Places \ {"menu", "waiting", "gone"} :
         Answer(next) /\ (next = "listening" => kept'.conversation # <<>>)
  <2>1. Leads(end(contact, k)[3], k) \in {"room", "closing"}
    BY DEF Leads
  <2> QED  BY <1>2, <1>5, <2>1 DEF Places
<1>12. UNCHANGED <<kind, redirects, asked, briefed, expired>>
  BY DEF AiRespond
<1> QED  BY <1>9, <1>10, <1>11, <1>12

\* Requests that nobody waits for keep their places in the queue.
LEMMA DroppedType ==
  ASSUME NEW q \in Seq(Requests)
  PROVE  /\ Dropped(q) \in Seq(Requests) /\ DOMAIN Dropped(q) = DOMAIN q
         /\ \A i \in DOMAIN q : ~Dropped(q)[i].live /\ Dropped(q)[i].handler = q[i].handler
<1>1. Len(q) \in Nat /\ DOMAIN q = 1..Len(q) /\ \A i \in 1..Len(q) : q[i] \in Requests
  BY LenProperties
<1>2. \A i \in 1..Len(q) : [q[i] EXCEPT !.live = FALSE] \in Requests
  BY <1>1 DEF Requests
<1>3. Dropped(q) \in [1..Len(q) -> Requests]
  BY <1>1, <1>2 DEF Dropped
<1>4. Dropped(q) \in Seq(Requests)
  BY <1>1, <1>3, SeqDef
<1>5. \A i \in DOMAIN q : ~Dropped(q)[i].live /\ Dropped(q)[i].handler = q[i].handler
  BY <1>1 DEF Dropped, Requests
<1> QED  BY <1>1, <1>3, <1>4, <1>5

LEMMA RequestType ==
  ASSUME NEW handler \in {"gather", "respond"}, NEW k \in Kinds
  PROVE  Request(handler, k) \in Requests
BY DEF Request, Requests

-----------------------------------------------------------------------------
(***************************************************************************)
(* Types.                                                                  *)
(***************************************************************************)

\* The caller's and the operator's steps, which store nothing of a dialog.
PhoneStep ==
  \/ \E k \in Kinds \ {"callback"} : Menu(k)
  \/ DirectTransfer \/ Speaks \/ Goes
  \/ NoAvailability \/ Redirected \/ Briefed \/ Expire

LEMMA StepCases ==
  ASSUME [Next]_vars
  PROVE  PhoneStep \/ AiGather \/ AiRespond \/ UNCHANGED vars
BY DEF Next, PhoneStep, Terminated

LEMMA AnswerTypes ==
  ASSUME TypeOK, requests # <<>>, NEW next \in Places, Answer(next)
  PROVE  place' \in Places /\ requests' \in Seq(Requests) /\ operator' \in {"idle", "calling"}
BY HeadTailProperties DEF TypeOK, Answer

LEMMA PhoneTypes == ASSUME TypeOK, WellKept(kept), PhoneStep PROVE TypeOK' /\ WellKept(kept')
<1> USE DEF TypeOK
<1>0. "callback" \in Kinds /\ {"menu", "waiting", "listening", "closing", "room", "gone"} \subseteq Places
  BY DEF Kinds, Places
<1>1. ASSUME NEW k \in Kinds, Menu(k) PROVE TypeOK' /\ WellKept(kept')
  BY <1>0, <1>1, RequestType, AppendProperties DEF Menu, WellKept
<1>2. CASE DirectTransfer
  <2> DEFINE info == [FreshInfo EXCEPT !.contact = TRUE, !.topic = "direct"]
  <2>1. info \in Infos
    BY FreshInfoType DEF Infos
  <2> HIDE DEF info
  <2>2. kept' = [kept EXCEPT !.info = info]
    BY <1>2 DEF DirectTransfer, info
  <2>3. WellKept(kept')
    BY <2>1, <2>2 DEF WellKept, KeptStates
  <2> QED  BY <1>0, <1>2, <2>3 DEF DirectTransfer, WellKept
<1>3. CASE Speaks
  <2>1. requests' \in Seq(Requests)
    BY <1>3, RequestType, AppendProperties DEF Speaks
  <2> QED  BY <1>0, <1>3, <2>1 DEF Speaks, WellKept
<1>4. CASE Goes
  BY <1>0, <1>4, DroppedType DEF Goes, WellKept
<1>5. CASE NoAvailability
  BY <1>0, <1>5, RequestType, AppendProperties DEF NoAvailability, WellKept
<1>6. CASE Redirected
  <2>1. requests' \in Seq(Requests)
    BY <1>0, <1>6, RequestType, DroppedType, AppendProperties DEF Redirected
  <2> QED  BY <1>0, <1>6, <2>1 DEF Redirected, WellKept
<1>7. CASE Briefed
  <2>1. WellKept(kept')
    BY <1>7 DEF Briefed, WellKept, KeptStates, Infos
  <2> QED  BY <1>7, <2>1 DEF Briefed, WellKept
<1>8. CASE Expire
  <2>1. PICK info \in Infos : kept' = [kept EXCEPT !.conversation = <<>>, !.info = info]
    BY <1>8, FreshInfoType DEF Expire, KeptStates
  <2>2. WellKept(kept')
    BY <2>1, EmptySeq DEF WellKept, KeptStates
  <2> QED  BY <1>8, <2>2 DEF Expire, WellKept
<1> QED  BY <1>1, <1>2, <1>3, <1>4, <1>5, <1>6, <1>7, <1>8 DEF PhoneStep

LEMMA TypeStep ==
  ASSUME TypeOK, WellKept(kept), [Next]_vars
  PROVE  TypeOK' /\ WellKept(kept')
<1>1. CASE PhoneStep
  BY <1>1, PhoneTypes
<1>2. CASE AiGather
  <2>1. requests # <<>>
    BY <1>2 DEF AiGather, Handles
  <2> QED  BY <1>2, <2>1, GatherKept, AnswerTypes DEF TypeOK, Follows, WellKept
<1>3. CASE AiRespond
  <2>1. requests # <<>>
    BY <1>3 DEF AiRespond, Handles
  <2> QED  BY <1>3, <2>1, RespondKept, AnswerTypes DEF TypeOK, WellKept
<1>4. CASE UNCHANGED vars
  BY <1>4 DEF vars, TypeOK, WellKept
<1> QED  BY <1>1, <1>2, <1>3, <1>4, StepCases

LEMMA InitTypes == Init => TypeOK /\ WellKept(kept)
<1> SUFFICES ASSUME Init PROVE TypeOK /\ WellKept(kept)
  OBVIOUS
<1>1. kept \in KeptStates
  BY FreshInfoType, EmptySeq DEF Init, KeptStates
<1>2. requests \in Seq(Requests)
  BY EmptySeq DEF Init
<1>3. place \in Places /\ kind \in Kinds /\ redirects \in Nat
  BY DEF Init, Places, Kinds
<1> QED  BY <1>1, <1>2, <1>3 DEF Init, TypeOK, WellKept

\* Every variable keeps its type, for every cap and whatever fails.
THEOREM TypeCorrect == Spec => []TypeOK
<1> DEFINE Typed == TypeOK /\ WellKept(kept)
<1>1. Typed /\ [Next]_vars => Typed'
  BY TypeStep DEF WellKept
<1>2. Init => Typed
  BY InitTypes
<1>3. Typed => TypeOK
  OBVIOUS
<1> HIDE DEF Typed
<1> QED  BY <1>1, <1>2, <1>3, PTL DEF Spec

-----------------------------------------------------------------------------
(***************************************************************************)
(* The inductive invariant.                                                *)
(***************************************************************************)

\* What a handled request does to the queue and to the caller: no utterance is
\* left, and whoever waits waits for a later request.
LEMMA HandledStep ==
  ASSUME TypeOK, WellKept(kept), UtterancesComeFirst, AiGather \/ AiRespond
  PROVE  /\ requests # <<>> /\ UNCHANGED expired
         /\ requests' \in Seq(Requests)
         /\ \A i \in DOMAIN requests' :
              /\ requests'[i].handler # "respond"
              /\ requests'[i].live => i = Len(requests') /\ place' = "waiting"
         /\ place' # "menu"
         /\ place' \in {"listening", "closing", "streaming"} => requests' = <<>>
         /\ place' = "listening" => kept'.conversation # <<>>
<1>1. requests # <<>>
  BY DEF AiGather, AiRespond, Handles
<1>2. UNCHANGED expired
  BY DEF AiGather, AiRespond
<1>3. PICK next \in Places \ {"menu", "waiting", "gone"} :
        Answer(next) /\ (next = "listening" => kept'.conversation # <<>>)
  BY GatherKept, RespondKept
<1>4. /\ requests \in Seq(Requests) /\ Len(requests) \in Nat \ {0}
      /\ requests' \in Seq(Requests) /\ Len(requests') = Len(requests) - 1
      /\ DOMAIN requests = 1..Len(requests) /\ DOMAIN requests' = 1..Len(requests')
      /\ \A i \in 1..Len(requests') : requests'[i] = requests[i + 1]
      /\ Head(requests) = requests[1]
  BY <1>1, <1>3, HeadTailProperties, EmptySeq, LenProperties DEF TypeOK, Answer
<1>5. \A i \in DOMAIN requests' : requests'[i].handler # "respond"
  <2> SUFFICES ASSUME NEW i \in DOMAIN requests' PROVE requests'[i].handler # "respond"
    OBVIOUS
  <2>1. i + 1 \in DOMAIN requests /\ i + 1 # 1 /\ requests'[i] = requests[i + 1]
    BY <1>4
  <2> QED  BY <2>1 DEF UtterancesComeFirst
<1>6. CASE Head(requests).live
  <2>1. Len(requests') = 0
    BY <1>4, <1>6 DEF UtterancesComeFirst
  <2>2. requests' = <<>> /\ DOMAIN requests' = {}
    BY <1>4, <2>1, EmptySeq
  <2>3. place' = next
    BY <1>3, <1>6 DEF Answer
  <2> QED  BY <1>1, <1>2, <1>3, <1>4, <2>2, <2>3
<1>7. CASE ~Head(requests).live
  <2>1. place' = place /\ place \notin {"menu", "listening", "closing", "streaming"}
    BY <1>1, <1>3, <1>7 DEF Answer, UtterancesComeFirst
  <2>2. ASSUME NEW i \in DOMAIN requests', requests'[i].live
        PROVE  i = Len(requests') /\ place' = "waiting"
    <3>1. i + 1 \in DOMAIN requests /\ requests'[i] = requests[i + 1]
      BY <1>4
    <3>2. i + 1 = Len(requests) /\ place = "waiting"
      BY <2>2, <3>1 DEF UtterancesComeFirst
    <3> QED  BY <1>4, <2>1, <3>2
  <2> QED  BY <1>1, <1>2, <1>4, <1>5, <2>1, <2>2
<1> QED  BY <1>6, <1>7

\* A request that arrives is the last one.
LEMMA AppendedRequest ==
  ASSUME NEW q \in Seq(Requests), NEW r \in Requests
  PROVE  /\ DOMAIN Append(q, r) = 1..(Len(q) + 1) /\ Len(Append(q, r)) = Len(q) + 1
         /\ Len(q) \in Nat /\ DOMAIN q = 1..Len(q)
         /\ \A i \in DOMAIN q : Append(q, r)[i] = q[i]
         /\ Append(q, r)[Len(q) + 1] = r
BY AppendProperties, LenProperties

LEMMA UtterancesStep ==
  ASSUME TypeOK, WellKept(kept), UtterancesComeFirst, [Next]_vars
  PROVE  UtterancesComeFirst'
<1> USE DEF TypeOK
<1>1. CASE AiGather \/ AiRespond
  BY <1>1, HandledStep DEF UtterancesComeFirst
<1>2. CASE UNCHANGED <<requests, place>>
  BY <1>2 DEF UtterancesComeFirst
<1>3. ASSUME NEW q \in Seq(Requests), NEW handler \in {"gather", "respond"}, NEW k \in Kinds,
             requests' = Append(q, Request(handler, k)), place' = "waiting",
             \A i \in DOMAIN q : ~q[i].live /\ (q[i].handler = "respond" => i = 1),
             handler = "respond" => q = <<>>
      PROVE  UtterancesComeFirst'
  <2> DEFINE r == Request(handler, k)
  <2>1. r \in Requests /\ r.handler = handler
    BY RequestType DEF Request
  <2> HIDE DEF r
  <2>2. /\ DOMAIN requests' = 1..(Len(q) + 1) /\ Len(requests') = Len(q) + 1
        /\ Len(q) \in Nat /\ DOMAIN q = 1..Len(q)
        /\ \A i \in DOMAIN q : requests'[i] = q[i]
        /\ requests'[Len(q) + 1] = r
    BY <1>3, <2>1, AppendedRequest DEF r
  <2>3. q = <<>> => Len(q) = 0
    BY EmptySeq
  <2>4. \A i \in DOMAIN requests' : i = Len(q) + 1 \/ i \in DOMAIN q
    BY <2>2
  <2> QED  BY <1>3, <2>1, <2>2, <2>3, <2>4 DEF UtterancesComeFirst
<1>4. \A i \in DOMAIN <<>> : FALSE
  OBVIOUS
<1>5. ASSUME NEW k \in Kinds, Menu(k) PROVE UtterancesComeFirst'
  <2>1. requests = <<>>
    BY <1>5 DEF Menu, UtterancesComeFirst
  <2> QED  BY <1>3, <1>4, <1>5, <2>1 DEF Menu
<1>6. CASE DirectTransfer
  BY <1>6, <1>4 DEF DirectTransfer, UtterancesComeFirst
<1>7. CASE Speaks
  <2>1. requests = <<>>
    BY <1>7 DEF Speaks, UtterancesComeFirst
  <2> QED  BY <1>3, <1>4, <1>7, <2>1 DEF Speaks
<1>8. /\ Dropped(requests) \in Seq(Requests)
      /\ \A i \in DOMAIN Dropped(requests) :
           ~Dropped(requests)[i].live /\ (Dropped(requests)[i].handler = "respond" => i = 1)
  BY DroppedType DEF UtterancesComeFirst
<1>9. CASE requests' = Dropped(requests) /\ place' \in {"gone", "room"}
  BY <1>8, <1>9 DEF UtterancesComeFirst
<1>10. CASE NoAvailability
  <2>1. "callback" \in Kinds
    BY DEF Kinds
  <2>2. \A i \in DOMAIN requests :
          ~requests[i].live /\ (requests[i].handler = "respond" => i = 1)
    BY <1>10 DEF NoAvailability, UtterancesComeFirst
  <2> QED  BY <1>3, <1>10, <2>1, <2>2 DEF NoAvailability
<1>11. CASE Redirected
  <2>1. "callback" \in Kinds
    BY DEF Kinds
  <2> QED  BY <1>3, <1>8, <1>9, <1>11, <2>1 DEF Redirected
<1>12. CASE Goes \/ Briefed \/ Expire \/ UNCHANGED vars
  BY <1>2, <1>9, <1>12 DEF Goes, Briefed, Expire, vars
<1> QED  BY <1>1, <1>5, <1>6, <1>7, <1>10, <1>11, <1>12, StepCases DEF PhoneStep

LEMMA ConversationStep ==
  ASSUME TypeOK, WellKept(kept), UtterancesComeFirst, ConversationIsThere, [Next]_vars
  PROVE  ConversationIsThere'
<1> USE DEF TypeOK
<1>0. kept'.conversation # <<>> => kept'.said # <<>>
  BY TypeStep DEF WellKept
<1>1. CASE AiGather \/ AiRespond
  <2>1. ~Handles("respond")'
    <3>1. CASE requests' = <<>>
      BY <3>1 DEF Handles
    <3>2. CASE requests' # <<>>
      <4>1. 1 \in DOMAIN requests' /\ Head(requests') = requests'[1]
        BY <1>1, <3>2, HandledStep, EmptySeq, LenProperties
      <4> QED  BY <1>1, <4>1, HandledStep DEF Handles
    <3> QED  BY <3>1, <3>2
  <2> QED  BY <1>0, <1>1, <2>1, HandledStep DEF ConversationIsThere
<1>2. ASSUME UNCHANGED <<kept, expired>>, place' # "listening",
             Handles("respond")' => Handles("respond") \/ place = "listening"
      PROVE  ConversationIsThere'
  BY <1>0, <1>2 DEF ConversationIsThere
<1>3. ASSUME NEW q \in Seq(Requests), NEW k \in Kinds,
             requests' = Append(q, Request("gather", k)), q # <<>> => Head(q).handler # "respond"
      PROVE  ~Handles("respond")'
  <2>1. Request("gather", k) \in Requests /\ Request("gather", k).handler = "gather"
    BY RequestType DEF Request
  <2>2. Head(requests') = IF q = <<>> THEN Request("gather", k) ELSE Head(q)
    BY <1>3, <2>1, AppendProperties, EmptySeq, LenProperties
  <2> QED  BY <1>3, <2>1, <2>2 DEF Handles
<1>4. /\ Dropped(requests) \in Seq(Requests)
      /\ Dropped(requests) # <<>> => /\ requests # <<>>
                                     /\ Head(Dropped(requests)).handler = Head(requests).handler
  <2>1. Dropped(requests) \in Seq(Requests) /\ DOMAIN Dropped(requests) = DOMAIN requests
        /\ \A i \in DOMAIN requests : Dropped(requests)[i].handler = requests[i].handler
    BY DroppedType
  <2>2. Dropped(requests) # <<>> => 1 \in DOMAIN requests
    BY <2>1, EmptySeq, LenProperties
  <2>3. 1 \in DOMAIN requests => requests # <<>>
    OBVIOUS
  <2> QED  BY <2>1, <2>2, <2>3
<1>5. ASSUME NEW k \in Kinds, Menu(k) PROVE ConversationIsThere'
  <2>1. requests = <<>>
    BY <1>5 DEF Menu, UtterancesComeFirst
  <2> QED  BY <1>2, <1>3, <1>5, <2>1 DEF Menu
<1>6. CASE DirectTransfer
  <2>1. requests' = <<>> /\ place' = "room"
    BY <1>6 DEF DirectTransfer, UtterancesComeFirst
  <2> QED  BY <1>0, <2>1 DEF ConversationIsThere, Handles
<1>7. CASE Speaks
  BY <1>2, <1>7 DEF Speaks
<1>8. CASE requests' = Dropped(requests) /\ place' \in {"gone", "room"} /\ UNCHANGED <<kept, expired>>
  BY <1>2, <1>4, <1>8 DEF Handles
<1>9. CASE NoAvailability
  <2>1. "callback" \in Kinds
    BY DEF Kinds
  <2>2. Handles("respond")' => Handles("respond")
    BY <1>3, <1>9, <2>1 DEF NoAvailability, Handles
  <2> QED  BY <1>2, <1>9, <2>2 DEF NoAvailability
<1>10. CASE Redirected
  <2>1. "callback" \in Kinds
    BY DEF Kinds
  <2>2. ASSUME requests' = Append(Dropped(requests), Request("gather", "callback"))
        PROVE  Handles("respond")' => Handles("respond")
    BY <1>3, <1>4, <2>1, <2>2 DEF Handles
  <2> QED  BY <1>2, <1>8, <1>10, <2>2 DEF Redirected
<1>11. CASE Briefed
  <2>1. kept'.conversation = kept.conversation
    BY <1>11 DEF Briefed, KeptStates
  <2> QED  BY <1>0, <1>11, <2>1 DEF Briefed, ConversationIsThere, Handles
<1>12. CASE Expire
  BY <1>0, <1>12 DEF Expire, ConversationIsThere
<1>13. CASE UNCHANGED vars
  BY <1>13 DEF vars, ConversationIsThere, Handles
<1>14. CASE Goes
  BY <1>8, <1>14 DEF Goes
<1> QED  BY <1>1, <1>5, <1>6, <1>7, <1>9, <1>10, <1>11, <1>12, <1>13, <1>14, StepCases DEF PhoneStep

\* Nothing is known in the beginning.
LEMMA FreshInfoKept == \A info : KeepsInfo(FreshInfo, info)
<1>1. FreshInfo.contact = FALSE /\ FreshInfo.notified = FALSE /\ FreshInfo.briefing = FALSE
  BY DEF FreshInfo
<1>2. FreshInfo.topic = ""
  BY DEF FreshInfo
<1> QED  BY <1>1, <1>2 DEF KeepsInfo

\* What a step makes of the info and the alerts, unless keys expired.
LEMMA KeptStep ==
  ASSUME TypeOK, WellKept(kept), ConversationIsThere, MenuComesFirst, [Next]_vars
  PROVE  \/ expired'
         \/ /\ KeepsInfo(kept.info, kept'.info)
            /\ Noticed(kept) => Noticed(kept')
<1> USE DEF TypeOK
<1>1. CASE AiGather
  BY <1>1, GatherKept DEF Follows
<1>2. CASE AiRespond
  <2>1. kept.conversation # <<>> \/ expired'
    BY <1>2 DEF AiRespond, ConversationIsThere
  <2> QED  BY <1>2, <2>1, RespondKept DEF Follows
<1>3. CASE DirectTransfer
  <2>1. /\ kept.info = FreshInfo /\ kept.alerts = 0
        /\ kept' = [kept EXCEPT !.info = [FreshInfo EXCEPT !.contact = TRUE, !.topic = "direct"]]
    BY <1>3 DEF DirectTransfer, MenuComesFirst
  <2>2. kept'.alerts = 0 /\ kept'.info = [FreshInfo EXCEPT !.contact = TRUE, !.topic = "direct"]
    BY <2>1 DEF KeptStates
  <2>5. KeepsInfo(kept.info, kept'.info)
    <3>1. KeepsInfo(FreshInfo, kept'.info)
      BY FreshInfoKept
    <3> QED  BY <2>1, <3>1
  <2>4. Noticed(kept')
    BY <2>2 DEF Noticed
  <2> QED  BY <2>4, <2>5
<1>4. CASE Briefed
  BY <1>4 DEF Briefed, KeepsInfo, Noticed, KeptStates, Infos
<1>5. CASE Expire
  BY <1>5 DEF Expire
<1>6. CASE UNCHANGED kept
  BY <1>6 DEF KeepsInfo, Noticed
<1> QED  BY <1>1, <1>2, <1>3, <1>4, <1>5, <1>6, StepCases
         DEF PhoneStep, Menu, Speaks, Goes, NoAvailability, Redirected, vars

LEMMA MenuStep ==
  ASSUME TypeOK, WellKept(kept), UtterancesComeFirst, MenuComesFirst, [Next]_vars
  PROVE  MenuComesFirst'
<1>1. CASE AiGather \/ AiRespond
  BY <1>1, HandledStep DEF MenuComesFirst
<1>2. CASE PhoneStep
  BY <1>2 DEF PhoneStep, Menu, DirectTransfer, Speaks, Goes, NoAvailability, Redirected, Briefed,
              Expire, MenuComesFirst
<1>3. CASE UNCHANGED vars
  BY <1>3 DEF vars, MenuComesFirst
<1> QED  BY <1>1, <1>2, <1>3, StepCases

LEMMA ExpiredStays == [Next]_vars /\ expired => expired'
BY StepCases DEF PhoneStep, Menu, DirectTransfer, Speaks, Goes, NoAvailability, Redirected, Briefed,
                 Expire, AiGather, AiRespond, vars

LEMMA OrderStep ==
  ASSUME TypeOK, WellKept(kept), RequestsInOrder, [Next]_vars
  PROVE  RequestsInOrder'
<1> USE DEF RequestsInOrder
<1>1. UtterancesComeFirst' /\ ConversationIsThere' /\ MenuComesFirst'
  BY UtterancesStep, ConversationStep, MenuStep
<1>2. AlertsAreNoted'
  <2>1. \/ expired'
        \/ Noticed(kept) => Noticed(kept')
    BY KeptStep
  <2>2. expired => expired'
    BY ExpiredStays
  <2>3. AlertsAreNoted => Noticed(kept) \/ expired
    BY DEF AlertsAreNoted, Noticed
  <2>4. Noticed(kept') \/ expired' => AlertsAreNoted'
    BY DEF AlertsAreNoted, Noticed
  <2> QED  BY <2>1, <2>2, <2>3, <2>4
<1> QED  BY <1>1, <1>2

LEMMA InitOrder == Init => RequestsInOrder
<1> SUFFICES ASSUME Init PROVE RequestsInOrder
  OBVIOUS
<1>1. requests = <<>> /\ kept.conversation = <<>> /\ kept.info = FreshInfo /\ kept.alerts = 0
      /\ place = "menu" /\ operator = "idle"
  BY DEF Init
<1> QED  BY <1>1 DEF RequestsInOrder, UtterancesComeFirst, ConversationIsThere, AlertsAreNoted,
                     MenuComesFirst, Handles

\* The requests of a call are handled in order: a caller waits for the latest
\* request only, so ai_respond finds the conversation that the caller heard, and
\* an alert sent has been noted in the info.
LEMMA AlwaysInOrder == Spec => [](TypeOK /\ WellKept(kept) /\ RequestsInOrder)
<1> DEFINE Invariant == TypeOK /\ WellKept(kept) /\ RequestsInOrder
<1>1. Invariant /\ [Next]_vars => Invariant'
  BY TypeStep, OrderStep DEF WellKept
<1>2. Init => Invariant
  BY InitTypes, InitOrder
<1> HIDE DEF Invariant
<1>3. Spec => []Invariant
  BY <1>1, <1>2, PTL DEF Spec
<1> QED  BY <1>3 DEF Invariant

\* The alert of a call is sent at most once, whichever request fails half way and
\* however many dialogs the operator's calls lead to.
THEOREM OneAlert == Spec => []AlertedOnce
<1>1. TypeOK /\ WellKept(kept) /\ RequestsInOrder => AlertedOnce
  BY DEF TypeOK, KeptStates, RequestsInOrder, AlertsAreNoted, AlertedOnce
<1> QED  BY <1>1, AlwaysInOrder, PTL

\* What is known of the caller survives every request, also a request that fails
\* half way, one whose caller is gone, and the start of the callback dialog.
THEOREM NothingIsForgotten == Spec => InfoSurvives
<1> DEFINE Invariant == TypeOK /\ WellKept(kept) /\ RequestsInOrder
           Step == expired' \/ KeepsInfo(kept.info, kept'.info)
<1>1. Invariant /\ [Next]_vars => Invariant'
  BY TypeStep, OrderStep DEF WellKept
<1>2. Init => Invariant
  BY InitTypes, InitOrder
<1>3. Invariant /\ [Next]_vars => [Step]_vars
  BY KeptStep DEF RequestsInOrder
<1> HIDE DEF Invariant, Step
<1>4. Spec => [][Step]_vars
  BY <1>1, <1>2, <1>3, PTL DEF Spec
<1> QED  BY <1>4 DEF InfoSurvives, Step

=============================================================================
