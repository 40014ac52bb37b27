------------------------- MODULE ReportStore_proofs -------------------------
(***************************************************************************)
(* Proofs about ReportStore, for any number of reports, failures and       *)
(* resets. The invariants rest on the order of one handler's writes,       *)
(* WrittenInOrder, and on nothing ever being taken back but the rows.      *)
(***************************************************************************)
EXTENDS ReportStore, TLAPS

Uploaded == {".json", ".recording.mp3"}

\* The steps of a report's handler, and those of its readers
Write(r) ==
  \/ \E k \in Kinds : Begin(r, k)
  \/ Prepare(r) \/ Insert(r) \/ Raises(r)
  \/ \E suffix \in Uploaded : Upload(r, suffix) \/ UploadFails(r, suffix)
  \/ \E c \in Channels : Notify(r, c)

Read(r) == View(r) \/ ViewFails(r) \/ PostAudio(r)

LEMMA NextIs ==
  ASSUME Next
  PROVE  \/ \E r \in Reports : Write(r) \/ Read(r)
         \/ \E S \in SUBSET Reports : Dies(S)
         \/ Reset
BY DEF Next, Step, Write, Read, Uploaded

-----------------------------------------------------------------------------
\* The order of a handler's writes, which everything else rests on: the file is stored or given up
\* before the row is, the row is there before anyone is notified, and every failed attempt is
\* paid for by a fault.
WrittenInOrder ==
  \A r \in Reports :
    /\ step[r] \in {"insert", "upload recording", "whatsapp", "email", "done"} =>
         Load(r) \/ <<r, ".json">> \in lost
    /\ step[r] \in {"upload recording", "whatsapp", "email", "done"} => r \in rows \/ resets > 0
    /\ tries[r] <= faults

\* Whoever finds a report in the list or has been sent a link to it can open it, unless its
\* upload was given up.
KnownCanBeOpened == \A r \in Reports : Known(r) => Load(r) \/ <<r, ".json">> \in lost

-----------------------------------------------------------------------------
\* The types of what the proofs count or index
LEMMA Types ==
  ASSUME TypeOK
  PROVE  /\ rows \subseteq Reports /\ step \in [Reports -> Steps]
         /\ tries \in [Reports -> Nat] /\ faults \in Nat
<1>1. faults \in Nat
  BY ReportStoreAssumption DEF TypeOK
<1>2. tries \in [Reports -> Nat]
  BY DEF TypeOK, Attempts
<1>3. QED
  BY <1>1, <1>2 DEF TypeOK

LEMMA TypeInit == ASSUME Init PROVE TypeOK
BY ReportStoreAssumption DEF Init, TypeOK, Steps, Attempts

LEMMA BeginType ==
  ASSUME TypeOK, NEW r \in Reports, NEW k \in Kinds, Begin(r, k)
  PROVE  TypeOK'
<1>1. step' \in [Reports -> Steps]
  BY DEF Begin, Goes, TypeOK, Steps
<1>2. kind' \in [Reports -> {"none"} \cup Kinds]
  BY DEF Begin, TypeOK
<1>3. QED
  BY <1>1, <1>2 DEF Begin, TypeOK

LEMMA UploadType ==
  ASSUME TypeOK, NEW r \in Reports, NEW suffix \in Uploaded, Upload(r, suffix)
  PROVE  TypeOK'
<1>1. step' \in [Reports -> Steps]
  BY DEF Upload, Goes, TypeOK, Steps, AfterUpload
<1>2. tries' \in [Reports -> 0..(Attempts - 1)]
  BY DEF Upload, TypeOK, Attempts
<1>3. objects' \subseteq (Reports \X Suffixes)
  <2>1. <<r, suffix>> \in Reports \X Suffixes
    BY DEF Suffixes, Uploaded
  <2>2. QED
    BY <2>1 DEF Upload, TypeOK
<1>4. QED
  BY <1>1, <1>2, <1>3 DEF Upload, TypeOK

LEMMA UploadFailsType ==
  ASSUME TypeOK, NEW r \in Reports, NEW suffix \in Uploaded, UploadFails(r, suffix)
  PROVE  TypeOK'
<1>1. step' \in [Reports -> Steps]
  <2>1. AfterUpload(suffix) \in Steps
    BY DEF AfterUpload, Steps
  <2>2. step' = step \/ step' = [step EXCEPT ![r] = AfterUpload(suffix)]
    BY DEF UploadFails, FailsOf, Goes
  <2>3. QED
    BY <2>1, <2>2 DEF TypeOK
<1>2. tries' \in [Reports -> 0..(Attempts - 1)]
  BY DEF UploadFails, FailsOf, TypeOK, Attempts
<1>3. lost' \subseteq (Reports \X Suffixes)
  <2>1. <<r, suffix>> \in Reports \X Suffixes
    BY DEF Suffixes, Uploaded
  <2>2. QED
    BY <2>1 DEF UploadFails, FailsOf, TypeOK
<1>4. faults' \in 0..MaxFaults
  BY ReportStoreAssumption DEF UploadFails, FailsOf, TypeOK
<1>5. QED
  BY <1>1, <1>2, <1>3, <1>4 DEF UploadFails, FailsOf, TypeOK

LEMMA NotifyType ==
  ASSUME TypeOK, NEW r \in Reports, NEW c \in Channels, Notify(r, c)
  PROVE  TypeOK'
<1>1. step' \in [Reports -> Steps]
  BY DEF Notify, Goes, TypeOK, Steps, AfterNotice
<1>2. sent' \subseteq (Channels \X Reports \X BOOLEAN)
  <2>1. <<c, r, Linked(kind[r])>> \in Channels \X Reports \X BOOLEAN
    <3>1. Linked(kind[r]) \in BOOLEAN
      BY DEF Linked
    <3>2. QED
      BY <3>1
  <2>2. QED
    BY <2>1 DEF Notify, TypeOK
<1>3. QED
  BY <1>1, <1>2 DEF Notify, TypeOK

LEMMA TypeWrite == ASSUME TypeOK, NEW r \in Reports, Write(r) PROVE TypeOK'
<1>1. CASE Prepare(r)
  <2>1. step' \in [Reports -> Steps]
    BY <1>1 DEF Prepare, Goes, TypeOK, Steps
  <2>2. QED
    BY <1>1, <2>1 DEF Prepare, TypeOK
<1>2. CASE Insert(r)
  <2>1. step' \in [Reports -> Steps]
    BY <1>2 DEF Insert, Goes, AfterSave, TypeOK, Steps
  <2>2. rows' \subseteq Reports /\ UNCHANGED <<objects, kind, tries, sent, told, faults, resets, lost>>
    BY <1>2, Types DEF Insert
  <2>3. QED
    BY <2>1, <2>2 DEF TypeOK
<1>3. CASE Raises(r)
  <2>1. step' \in [Reports -> Steps]
    BY <1>3 DEF Raises, Goes, TypeOK, Steps
  <2>2. QED
    BY <1>3, <2>1, ReportStoreAssumption DEF Raises, TypeOK
<1>4. QED
  BY <1>1, <1>2, <1>3, BeginType, UploadType, UploadFailsType, NotifyType DEF Write

LEMMA TypeStep == ASSUME TypeOK, [Next]_vars PROVE TypeOK'
<1>1. ASSUME NEW r \in Reports, Write(r) PROVE TypeOK'
  BY <1>1, TypeWrite
<1>2. ASSUME NEW r \in Reports, Read(r) PROVE TypeOK'
  <2>1. CASE View(r)
    BY <2>1 DEF View, TypeOK
  <2>2. CASE ViewFails(r)
    BY <2>2, ReportStoreAssumption DEF ViewFails, TypeOK
  <2>3. CASE PostAudio(r)
    BY <2>3, ReportStoreAssumption DEF PostAudio, TypeOK, Suffixes
  <2>4. QED
    BY <1>2, <2>1, <2>2, <2>3 DEF Read
<1>3. ASSUME NEW S \in SUBSET Reports, Dies(S) PROVE TypeOK'
  <2>1. step' \in [Reports -> Steps]
    <3>1. \A q \in Reports : step[q] \in Steps
      BY DEF TypeOK
    <3>2. QED
      BY <1>3, <3>1 DEF Dies, Steps
  <2>2. QED
    BY <1>3, <2>1, ReportStoreAssumption DEF Dies, TypeOK
<1>4. CASE Reset
  BY <1>4, ReportStoreAssumption DEF Reset, TypeOK
<1>5. CASE UNCHANGED vars
  BY <1>5 DEF vars, TypeOK
<1>6. QED
  BY <1>1, <1>2, <1>3, <1>4, <1>5, NextIs

\* The state of every handler, store and reader stays within its type; in particular no file
\* is tried more than three times (upload_with_retry).
THEOREM TypeCorrect == Spec => []TypeOK
<1>1. Init => TypeOK
  BY TypeInit
<1>2. TypeOK /\ [Next]_vars => TypeOK'
  BY TypeStep
<1>3. QED
  BY <1>1, <1>2, PTL DEF Spec

-----------------------------------------------------------------------------
(***************************************************************************)
(* The order of the writes                                                 *)
(***************************************************************************)
\* Has the file of r been stored or given up? Is its row there, or reset? Both stay.
Settled(r) == Load(r) \/ <<r, ".json">> \in lost
Indexed(r) == r \in rows \/ resets > 0

Stays ==
  /\ \A r \in Reports : Settled(r) => Settled(r)'
  /\ \A r \in Reports : Indexed(r) => Indexed(r)'
  /\ faults \in Nat /\ faults' \in Nat /\ faults <= faults'

\* Nothing is taken back but the rows, by a reset
Grows ==
  /\ objects \subseteq objects' /\ lost \subseteq lost'
  /\ rows \subseteq rows' \/ resets' > 0
  /\ resets' = resets \/ resets' > 0
  /\ faults' = faults \/ faults' = faults + 1

LEMMA WriteGrows == ASSUME TypeOK, NEW r \in Reports, Write(r) PROVE Grows
<1> USE DEF Grows
<1>1. CASE (\E k \in Kinds : Begin(r, k)) \/ Prepare(r) \/ Raises(r)
  BY <1>1 DEF Begin, Prepare, Raises
<1>2. CASE Insert(r)
  BY <1>2 DEF Insert
<1>3. ASSUME NEW suffix \in Uploaded, Upload(r, suffix) PROVE Grows
  BY <1>3 DEF Upload
<1>4. ASSUME NEW suffix \in Uploaded, UploadFails(r, suffix) PROVE Grows
  BY <1>4 DEF UploadFails, FailsOf
<1>5. ASSUME NEW c \in Channels, Notify(r, c) PROVE Grows
  BY <1>5 DEF Notify
<1>6. QED
  BY <1>1, <1>2, <1>3, <1>4, <1>5 DEF Write

LEMMA Monotone == ASSUME TypeOK, [Next]_vars PROVE Stays
<1>1. Grows
  <2>1. ASSUME NEW r \in Reports, Read(r) PROVE Grows
    BY <2>1 DEF Read, View, ViewFails, PostAudio, Grows
  <2>2. ASSUME NEW S \in SUBSET Reports, Dies(S) PROVE Grows
    BY <2>2 DEF Dies, Grows
  <2>3. CASE Reset
    BY <2>3 DEF Reset, Grows, TypeOK
  <2>4. CASE UNCHANGED vars
    BY <2>4 DEF vars, Grows
  <2>5. QED
    BY <2>1, <2>2, <2>3, <2>4, WriteGrows, NextIs
<1>2. faults \in Nat /\ resets \in Nat
  BY ReportStoreAssumption DEF TypeOK
<1>3. ASSUME NEW r \in Reports PROVE Settled(r) => Settled(r)'
  BY <1>1 DEF Grows, Settled, Load
<1>4. ASSUME NEW r \in Reports PROVE Indexed(r) => Indexed(r)'
  BY <1>1, <1>2 DEF Grows, Indexed
<1>5. faults' \in Nat /\ faults <= faults'
  BY <1>1, <1>2 DEF Grows
<1>6. QED
  BY <1>2, <1>3, <1>4, <1>5 DEF Stays

\* What WrittenInOrder says of one report
InOrder(r) ==
  /\ step[r] \in {"insert", "upload recording", "whatsapp", "email", "done"} => Settled(r)
  /\ step[r] \in {"upload recording", "whatsapp", "email", "done"} => Indexed(r)
  /\ tries[r] <= faults

\* A handler changes nothing of another
LEMMA OthersKept ==
  ASSUME TypeOK, NEW r \in Reports, NEW q \in Reports, q # r, Write(q)
  PROVE  step'[r] = step[r] /\ tries'[r] = tries[r]
<1> USE Types DEF Goes
<1>1. CASE (\E k \in Kinds : Begin(q, k)) \/ Prepare(q) \/ Raises(q)
  BY <1>1 DEF Begin, Prepare, Raises
<1>5. CASE Insert(q)
  BY <1>5 DEF Insert
<1>2. ASSUME NEW suffix \in Uploaded, Upload(q, suffix) \/ UploadFails(q, suffix)
      PROVE  step'[r] = step[r] /\ tries'[r] = tries[r]
  BY <1>2 DEF Upload, UploadFails, FailsOf
<1>3. ASSUME NEW c \in Channels, Notify(q, c) PROVE step'[r] = step[r] /\ tries'[r] = tries[r]
  BY <1>3 DEF Notify
<1>4. QED
  BY <1>1, <1>2, <1>3, <1>5 DEF Write

LEMMA OrderStep == ASSUME TypeOK, WrittenInOrder, [Next]_vars PROVE WrittenInOrder'
<1> SUFFICES ASSUME NEW r \in Reports PROVE InOrder(r)'
  BY DEF WrittenInOrder, InOrder, Settled, Indexed
<1>1. InOrder(r) /\ Stays
  BY Monotone DEF WrittenInOrder, InOrder, Settled, Indexed
<1>0. tries[r] \in Nat /\ faults \in Nat /\ faults' \in Nat /\ tries[r] <= faults'
  <2>1. tries[r] \in Nat
    BY Types
  <2>2. tries[r] <= faults /\ faults \in Nat /\ faults' \in Nat /\ faults <= faults'
    BY <1>1 DEF InOrder, Stays
  <2>3. QED
    BY <2>1, <2>2
<1>2. ASSUME step'[r] \in {step[r], "prepare", "upload json", "failed"}, tries'[r] = tries[r]
      PROVE  InOrder(r)'
  <2>1. tries'[r] <= faults'
    BY <1>0, <1>2
  <2>2. QED
    BY <1>1, <1>2, <2>1 DEF InOrder, Stays
<1>3. ASSUME NEW q \in Reports, q # r, Write(q) PROVE InOrder(r)'
  <2>1. step'[r] = step[r] /\ tries'[r] = tries[r]
    BY <1>3, OthersKept
  <2>2. QED
    BY <1>2, <2>1
<1>4. ASSUME NEW suffix \in Uploaded, Upload(r, suffix) PROVE InOrder(r)'
  <2>1. tries'[r] = 0 /\ faults' \in Nat
    BY <1>4, ReportStoreAssumption DEF Upload, TypeOK
  <2>2. step'[r] = AfterUpload(suffix) /\ (suffix = ".json" => Load(r)')
    BY <1>4 DEF Upload, Goes, TypeOK, Load
  <2>3. suffix # ".json" => step[r] = "upload recording"
    BY <1>4 DEF Upload, Uploading
  <2>4. Settled(r)'
    BY <1>1, <2>2, <2>3 DEF InOrder, Stays, Settled
  <2>5. step'[r] = "insert" \/ (step'[r] = "email" /\ step[r] = "upload recording")
    BY <2>2, <2>3 DEF AfterUpload
  <2>6. step[r] = "upload recording" => Indexed(r)'
    BY <1>1 DEF InOrder, Stays
  <2>7. tries'[r] <= faults'
    BY <2>1
  <2>8. QED
    BY <2>4, <2>5, <2>6, <2>7 DEF InOrder
<1>5. ASSUME NEW suffix \in Uploaded, UploadFails(r, suffix) PROVE InOrder(r)'
  <2>1. CASE tries[r] + 1 < Attempts
    <3>1. step'[r] = step[r] /\ tries'[r] = tries[r] + 1 /\ faults' = faults + 1
      BY <1>5, <2>1 DEF UploadFails, FailsOf, TypeOK
    <3>2. tries[r] \in Nat /\ faults \in Nat
      BY ReportStoreAssumption DEF TypeOK, Attempts
    <3>3. tries'[r] <= faults'
      <4>1. tries[r] <= faults
        BY <1>1 DEF InOrder
      <4>2. QED
        BY <3>1, <3>2, <4>1
    <3>4. QED
      BY <1>1, <3>1, <3>3 DEF InOrder, Stays
  <2>2. CASE ~(tries[r] + 1 < Attempts)
    <3>1. tries'[r] = 0 /\ faults' \in Nat
      BY <1>5, <2>2, ReportStoreAssumption DEF UploadFails, FailsOf, TypeOK
    <3>2. step'[r] = AfterUpload(suffix) /\ <<r, suffix>> \in lost'
      BY <1>5, <2>2 DEF UploadFails, FailsOf, Goes, TypeOK
    <3>3. suffix # ".json" => step[r] = "upload recording"
      BY <1>5 DEF UploadFails, FailsOf, Uploading
    <3>4. Settled(r)'
      BY <1>1, <3>2, <3>3 DEF InOrder, Stays, Settled
    <3>5. step'[r] = "insert" \/ (step'[r] = "email" /\ step[r] = "upload recording")
      BY <3>2, <3>3 DEF AfterUpload
    <3>6. step[r] = "upload recording" => Indexed(r)'
      BY <1>1 DEF InOrder, Stays
    <3>7. tries'[r] <= faults'
      BY <3>1
    <3>8. QED
      BY <3>4, <3>5, <3>6, <3>7 DEF InOrder
  <2>3. QED
    BY <2>1, <2>2
<1>6. CASE Insert(r)
  <2>1. step[r] = "insert" /\ r \in rows' /\ tries' = tries
    BY <1>6 DEF Insert
  <2>2. Settled(r)' /\ Indexed(r)'
    BY <1>1, <2>1 DEF InOrder, Stays, Indexed
  <2>3. tries'[r] <= faults'
    BY <1>0, <2>1
  <2>4. QED
    BY <2>2, <2>3 DEF InOrder
<1>7. ASSUME NEW c \in Channels, Notify(r, c) PROVE InOrder(r)'
  <2>1. step[r] \in {"whatsapp", "email"} /\ tries' = tries
    BY <1>7 DEF Notify, Channels
  <2>2. Settled(r)' /\ Indexed(r)'
    BY <1>1, <2>1 DEF InOrder, Stays
  <2>3. tries'[r] <= faults'
    BY <1>0, <2>1
  <2>4. QED
    BY <2>2, <2>3 DEF InOrder
<1>8. CASE (\E k \in Kinds : Begin(r, k)) \/ Prepare(r) \/ Raises(r)
  <2>1. step'[r] \in {"prepare", "upload json", "failed"} /\ tries'[r] = tries[r]
    <3>1. CASE Prepare(r) \/ Raises(r)
      BY <3>1, Types DEF Prepare, Raises, Goes
    <3>2. ASSUME NEW k \in Kinds, Begin(r, k)
          PROVE  step'[r] = "prepare" /\ tries' = tries
      BY <3>2 DEF Begin, Goes, TypeOK
    <3>3. QED
      BY <1>8, <3>1, <3>2
  <2>2. QED
    BY <1>2, <2>1
<1>9. CASE Write(r)
  BY <1>4, <1>5, <1>6, <1>7, <1>8, <1>9 DEF Write
<1>10. ASSUME NEW S \in SUBSET Reports, Dies(S) PROVE InOrder(r)'
  BY <1>2, <1>10 DEF Dies, TypeOK
<1>11. CASE (\E q \in Reports : Read(q)) \/ Reset \/ UNCHANGED vars
  BY <1>2, <1>11 DEF Read, View, ViewFails, PostAudio, Reset, vars
<1>12. QED
  BY <1>3, <1>9, <1>10, <1>11, NextIs

\* A handler stores the file, or gives it up, before it inserts the row, and inserts the row
\* before it notifies anyone: for any number of handlers, whatever fails in between.
THEOREM OrderCorrect == Spec => []WrittenInOrder
<1>1. Init => WrittenInOrder
  BY DEF Init, WrittenInOrder
<1>2. TypeOK /\ WrittenInOrder /\ [Next]_vars => WrittenInOrder'
  BY OrderStep
<1>3. QED
  BY <1>1, <1>2, TypeCorrect, PTL DEF Spec

-----------------------------------------------------------------------------
(***************************************************************************)
(* What readers find                                                       *)
(***************************************************************************)
\* A row is there, or a notification sent, only from a step that WrittenInOrder speaks of
LEMMA NewRow ==
  ASSUME TypeOK, WrittenInOrder, [Next]_vars, NEW r \in Reports, r \in rows', r \notin rows
  PROVE  Settled(r)
BY NextIs DEF Write, Begin, Prepare, Insert, Raises, Upload, UploadFails, FailsOf, Notify,
              Read, View, ViewFails, PostAudio, Dies, Reset, vars, WrittenInOrder, Settled

LEMMA NewNotice ==
  ASSUME TypeOK, WrittenInOrder, [Next]_vars, NEW n \in sent', n \notin sent
  PROVE  n[2] \in Reports /\ Settled(n[2]) /\ Indexed(n[2])
<1>1. PICK r \in Reports, c \in Channels : Notify(r, c)
  BY NextIs DEF Write, Begin, Prepare, Insert, Raises, Upload, UploadFails, FailsOf,
                Read, View, ViewFails, PostAudio, Dies, Reset, vars
<1>2. n = <<c, r, Linked(kind[r])>> /\ step[r] \in {"whatsapp", "email"}
  BY <1>1 DEF Notify, Channels
<1>3. QED
  BY <1>2 DEF WrittenInOrder, Settled, Indexed

LEMMA OpenStep ==
  ASSUME TypeOK, WrittenInOrder, KnownCanBeOpened, [Next]_vars
  PROVE  KnownCanBeOpened'
<1> SUFFICES ASSUME NEW r \in Reports, Known(r)' PROVE Settled(r)'
  BY DEF KnownCanBeOpened, Settled
<1>1. CASE Known(r)
  BY <1>1, Monotone DEF KnownCanBeOpened, Settled, Stays
<1>2. CASE r \in rows' /\ ~Known(r)
  BY <1>2, NewRow, Monotone DEF Known, Stays
<1>3. CASE r \notin rows' /\ ~Known(r)
  <2>1. PICK c \in Channels : <<c, r, TRUE>> \in sent' /\ <<c, r, TRUE>> \notin sent
    BY <1>3 DEF Known
  <2>2. Settled(r)
    BY <2>1, NewNotice
  <2>3. QED
    BY <2>2, Monotone DEF Stays
<1>4. QED
  BY <1>1, <1>2, <1>3

\* Whoever finds a report in the list or has a link to it can open it, unless its upload was
\* given up: no crash, reset or failed step between the two stores comes between.
THEOREM OpenCorrect == Spec => []KnownCanBeOpened
<1>1. Init => KnownCanBeOpened
  BY DEF Init, KnownCanBeOpened, Known
<1>2. TypeOK /\ WrittenInOrder /\ KnownCanBeOpened /\ [Next]_vars => KnownCanBeOpened'
  BY OpenStep
<1>3. QED
  BY <1>1, <1>2, TypeCorrect, OrderCorrect, PTL DEF Spec

\* Nobody is notified of a report that is not in the index, or has been there until a reset.
THEOREM ToldCorrect == Spec => []ToldAfterSaved
<1>1. Init => ToldAfterSaved
  BY DEF Init, ToldAfterSaved
<1>2. TypeOK /\ WrittenInOrder /\ ToldAfterSaved /\ [Next]_vars => ToldAfterSaved'
  <2> SUFFICES ASSUME TypeOK, WrittenInOrder, ToldAfterSaved, [Next]_vars, NEW n \in sent'
               PROVE  Indexed(n[2])'
    BY DEF ToldAfterSaved, Indexed
  <2>1. CASE n \in sent
    <3>1. n[2] \in Reports /\ Indexed(n[2])
      BY <2>1 DEF TypeOK, ToldAfterSaved, Indexed
    <3>2. QED
      BY <3>1, Monotone DEF Stays
  <2>2. CASE n \notin sent
    BY <2>2, NewNotice, Monotone DEF Stays
  <2>3. QED
    BY <2>1, <2>2
<1>3. QED
  BY <1>1, <1>2, TypeCorrect, OrderCorrect, PTL DEF Spec

\* Only a handler's upload gives a file up
LEMMA NewLoss ==
  ASSUME [Next]_vars, NEW l \in lost', l \notin lost
  PROVE  \E r \in Reports, suffix \in Uploaded : UploadFails(r, suffix)
<1>1. ASSUME NEW r \in Reports, Write(r), ~\E suffix \in Uploaded : UploadFails(r, suffix)
      PROVE  FALSE
  BY <1>1 DEF Write, Begin, Prepare, Insert, Raises, Upload, Notify
<1>2. QED
  BY <1>1, NextIs DEF Read, View, ViewFails, PostAudio, Dies, Reset, vars

\* Requirement 7.5: a file is given up only after three failures, of whichever handlers.
THEOREM RetriesCorrect == Spec => []TwoFailuresLoseNothing
<1>1. Init => TwoFailuresLoseNothing
  BY DEF Init, TwoFailuresLoseNothing
<1>2. TypeOK /\ WrittenInOrder /\ TwoFailuresLoseNothing /\ [Next]_vars => TwoFailuresLoseNothing'
  <2> SUFFICES ASSUME TypeOK, WrittenInOrder, TwoFailuresLoseNothing, [Next]_vars,
                      NEW l \in lost'
               PROVE  faults' >= 3
    BY DEF TwoFailuresLoseNothing
  <2>1. faults \in Nat /\ faults' \in Nat /\ faults <= faults'
    BY Monotone DEF Stays
  <2>2. CASE l \in lost
    BY <2>1, <2>2 DEF TwoFailuresLoseNothing
  <2>3. CASE l \notin lost
    <3>1. PICK r \in Reports, suffix \in Uploaded : UploadFails(r, suffix)
      BY <2>3, NewLoss
    <3>2. ~(tries[r] + 1 < Attempts) /\ faults' = faults + 1
      BY <2>3, <3>1 DEF UploadFails, FailsOf
    <3>3. tries[r] <= faults
      BY DEF WrittenInOrder
    <3>4. tries[r] \in Nat
      BY DEF TypeOK, Attempts
    <3>5. QED
      BY <2>1, <3>2, <3>3, <3>4 DEF Attempts
  <2>4. QED
    BY <2>2, <2>3
<1>3. QED
  BY <1>1, <1>2, TypeCorrect, OrderCorrect, PTL DEF Spec

\* Requirement 7.2: a reader is told 404 only of a report whose upload was given up.
THEOREM MissingCorrect == Spec => []MissingIsLost
<1>1. Init => MissingIsLost
  BY DEF Init, MissingIsLost
<1>2. TypeOK /\ KnownCanBeOpened /\ MissingIsLost /\ [Next]_vars => MissingIsLost'
  <2> SUFFICES ASSUME TypeOK, KnownCanBeOpened, MissingIsLost, [Next]_vars, NEW r \in Reports,
                      told' = <<r, 404>>
               PROVE  <<r, ".json">> \in lost'
    BY DEF MissingIsLost
  <2>1. ASSUME NEW q \in Reports, View(q) PROVE <<r, ".json">> \in lost'
    <3>1. q = r /\ ~Load(q) /\ Known(q)
      BY <2>1 DEF View
    <3>2. QED
      BY <2>1, <3>1 DEF View, KnownCanBeOpened
  <2>2. ASSUME NEW q \in Reports, ViewFails(q) PROVE FALSE
    BY <2>2 DEF ViewFails
  <2>3. CASE told' = told /\ lost \subseteq lost'
    BY <2>3 DEF MissingIsLost
  <2>4. ASSUME NEW q \in Reports, Write(q) PROVE told' = told /\ lost \subseteq lost'
    BY <2>4 DEF Write, Begin, Prepare, Insert, Raises, Upload, UploadFails, FailsOf, Notify
  <2>5. QED
    BY <2>1, <2>2, <2>3, <2>4, NextIs DEF Read, PostAudio, Dies, Reset, vars
<1>3. QED
  BY <1>1, <1>2, TypeCorrect, OpenCorrect, PTL DEF Spec
=============================================================================
