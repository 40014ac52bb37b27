----------------------- MODULE AiDialogReports_proofs -----------------------
(***************************************************************************)
(* Theorems about what is recorded of the dialogs of a call, for every cap *)
(* of the conversation and whatever fails: questions and answers           *)
(* alternate, the reports are faithful, and the report of a callback tells *)
(* all.                                                                    *)
(***************************************************************************)
EXTENDS AiDialog_proofs

-----------------------------------------------------------------------------
(***************************************************************************)
(* What set_conversation's cap leaves of a sequence of messages.           *)
(***************************************************************************)

\* The number of messages, of n, that the cap drops.
Skipped(n) == IF n <= MaxConversation THEN 0 ELSE n - MaxConversation

LEMMA SkippedType ==
  ASSUME NEW n \in Nat
  PROVE  Skipped(n) \in Nat /\ Skipped(n) <= n /\ (n > 0 => Skipped(n) < n)
BY MaxConversationAssumption DEF Skipped

\* A capped conversation is its end.
LEMMA CappedIs ==
  ASSUME NEW m \in Seq(Messages), NEW n \in Nat, n = Len(m), NEW k \in Nat, k = Skipped(n)
  PROVE  /\ Capped(m) \in Seq(Messages)
         /\ Len(Capped(m)) = n - k
         /\ \A i \in 1..(n - k) : Capped(m)[i] = m[i + k]
<1> DEFINE first == k + 1
<1>1. k <= n
  BY SkippedType
<1>2. Capped(m) = SubSeq(m, first, n)
  BY MaxConversationAssumption DEF Capped, Skipped
<1>3. \A i \in first..n : m[i] \in Messages
  BY ElementOfSeq
<1>4. first \in Int /\ n \in Int
  OBVIOUS
<1>5. /\ SubSeq(m, first, n) \in Seq(Messages)
      /\ Len(SubSeq(m, first, n)) = IF first <= n THEN n - first + 1 ELSE 0
      /\ \A i \in 1..(n - first + 1) : SubSeq(m, first, n)[i] = m[first + i - 1]
  <2> HIDE DEF first
  <2> QED  BY <1>3, <1>4, SubSeqProperties
<1>6. Len(Capped(m)) = n - k
  BY <1>1, <1>2, <1>5
<1>7. \A i \in 1..(n - k) : Capped(m)[i] = m[i + k]
  <2> SUFFICES ASSUME NEW i \in 1..(n - k) PROVE Capped(m)[i] = m[i + k]
    OBVIOUS
  <2>1. i \in 1..(n - first + 1) /\ first + i - 1 = i + k
    OBVIOUS
  <2> QED  BY <1>2, <1>5, <2>1
<1> QED  BY <1>2, <1>5, <1>6, <1>7

\* Only the last cap counts.
LEMMA CappedAgain ==
  ASSUME NEW m \in Seq(Messages), NEW x \in Messages
  PROVE  Capped(Append(Capped(m), x)) = Capped(Append(m, x))
<1> DEFINE c == Capped(m)
           a == Append(c, x)
           b == Append(m, x)
<1>1. PICK n \in Nat : n = Len(m)
  OBVIOUS
<1>2. PICK k \in Nat : k = Skipped(n) /\ k <= n
  BY SkippedType
<1>3. PICK j \in Nat : j = Skipped(n - k + 1) /\ j <= n - k + 1
  BY <1>2, SkippedType
<1>4. j + k = Skipped(n + 1)
  BY <1>2, <1>3, MaxConversationAssumption DEF Skipped
<1>5. c \in Seq(Messages) /\ Len(c) = n - k /\ \A i \in 1..(n - k) : c[i] = m[i + k]
  BY <1>1, <1>2, CappedIs
<1> HIDE DEF c
<1>6. /\ a \in Seq(Messages) /\ Len(a) = n - k + 1 /\ a[n - k + 1] = x
      /\ \A i \in 1..(n - k) : a[i] = c[i]
  BY <1>5, AppendProperties
<1>7. /\ b \in Seq(Messages) /\ Len(b) = n + 1 /\ b[n + 1] = x
      /\ \A i \in 1..n : b[i] = m[i]
  BY <1>1, AppendProperties
<1> HIDE DEF a, b
<1>8. \A i \in 1..(n - k + 1) : a[i] = b[i + k]
  <2> TAKE i \in 1..(n - k + 1)
  <2>1. CASE i = n - k + 1
    BY <1>2, <1>6, <1>7, <2>1
  <2>2. CASE i \in 1..(n - k)
    <3>1. i + k \in 1..n
      BY <1>2, <2>2
    <3> QED  BY <1>5, <1>6, <1>7, <2>2, <3>1
  <2> QED  BY <1>2, <2>1, <2>2
<1>9. PICK l \in Nat : l = n - k + 1
  BY <1>2
<1>10. /\ Capped(a) \in Seq(Messages) /\ Len(Capped(a)) = l - j
       /\ \A i \in 1..(l - j) : Capped(a)[i] = a[i + j]
  BY <1>3, <1>6, <1>9, CappedIs
<1>11. PICK h \in Nat : h = j + k
  OBVIOUS
<1>12. PICK o \in Nat : o = n + 1
  OBVIOUS
<1>13. /\ Capped(b) \in Seq(Messages) /\ Len(Capped(b)) = o - h
       /\ \A i \in 1..(o - h) : Capped(b)[i] = b[i + h]
  BY <1>4, <1>7, <1>11, <1>12, CappedIs
<1>14. l - j = o - h /\ j <= l
  BY <1>3, <1>9, <1>11, <1>12
<1>15. \A i \in 1..(l - j) : Capped(a)[i] = Capped(b)[i]
  <2> TAKE i \in 1..(l - j)
  <2>1. i + j \in 1..(n - k + 1)
    <3>1. i + j \in 1..l
      OBVIOUS
    <3> QED  BY <1>9, <3>1
  <2>2. i + j + k = i + h
    BY <1>11
  <2>3. a[i + j] = b[i + h]
    BY <1>8, <2>1, <2>2
  <2> QED  BY <1>10, <1>13, <1>14, <2>3
<1>16. Capped(a) = Capped(b)
  BY <1>10, <1>13, <1>14, <1>15, SeqEqual
<1> QED  BY <1>16 DEF a, b, c

\* A dialog whose messages are capped with its prompt is capped without it.
LEMMA SpokenCapped ==
  ASSUME NEW q \in Seq(Messages), NEW p \in Messages, p.role = "system",
         \A i \in DOMAIN q : q[i].role # "system"
  PROVE  Spoken(Capped(<<p>> \o q)) = Capped(q) /\ Capped(<<p>> \o q) # <<>>
<1> DEFINE f == <<p>> \o q
           c == Capped(f)
           g == Capped(q)
<1>1. <<p>> \in Seq(Messages) /\ Len(<<p>>) = 1 /\ <<p>>[1] = p
  OBVIOUS
<1>2. PICK n \in Nat : n = Len(q) /\ DOMAIN q = 1..n
  BY LenProperties
<1>3. PICK o \in Nat : o = n + 1
  OBVIOUS
<1>4. /\ f \in Seq(Messages) /\ Len(f) = o
      /\ \A i \in 1..o : f[i] = IF i <= 1 THEN p ELSE q[i - 1]
  BY <1>1, <1>2, <1>3, ConcatProperties
<1> HIDE DEF f
<1>5. PICK k \in Nat : k = Skipped(n) /\ k <= n
  BY SkippedType
<1>6. PICK j \in Nat : j = Skipped(o) /\ j < o
  BY <1>3, SkippedType
<1>7. g \in Seq(Messages) /\ Len(g) = n - k /\ \A i \in 1..(n - k) : g[i] = q[i + k]
  BY <1>2, <1>5, CappedIs
<1>8. c \in Seq(Messages) /\ Len(c) = o - j /\ \A i \in 1..(o - j) : c[i] = f[i + j]
  BY <1>4, <1>6, CappedIs
<1> HIDE DEF c, g
<1>9. c # <<>> /\ Head(c) = c[1] /\ c[1] = f[1 + j]
  BY <1>6, <1>8
<1>10. CASE n < MaxConversation
  <2>1. j = 0 /\ k = 0
    BY <1>3, <1>5, <1>6, <1>10, MaxConversationAssumption DEF Skipped
  <2>2. Head(c) = p
    BY <1>3, <1>4, <1>9, <2>1
  <2>3. Spoken(c) = Tail(c)
    BY <1>9, <2>2 DEF Spoken
  <2>4. Tail(c) \in Seq(Messages) /\ Len(Tail(c)) = n
        /\ \A i \in 1..n : Tail(c)[i] = c[i + 1]
    BY <1>3, <1>8, <1>9, <2>1, HeadTailProperties
  <2>5. \A i \in 1..n : Tail(c)[i] = g[i]
    <3> TAKE i \in 1..n
    <3>1. c[i + 1] = f[i + 1]
      BY <1>3, <1>8, <2>1
    <3>2. f[i + 1] = q[i]
      BY <1>3, <1>4
    <3>3. g[i] = q[i]
      BY <1>7, <2>1
    <3> QED  BY <2>4, <3>1, <3>2, <3>3
  <2>6. Len(g) = n
    BY <1>7, <2>1
  <2>7. Tail(c) = g
    BY <1>7, <2>4, <2>5, <2>6, SeqEqual
  <2> QED  BY <1>9, <2>3, <2>7 DEF c, f, g
<1>11. CASE n >= MaxConversation
  <2>1. j = k + 1
    BY <1>3, <1>5, <1>6, <1>11, MaxConversationAssumption DEF Skipped
  <2>2. \A i \in 1..(o - j) : c[i] = q[i + k] /\ i + k \in DOMAIN q
    <3> TAKE i \in 1..(o - j)
    <3>1. i + j \in 1..o /\ i + j > 1 /\ i + j - 1 = i + k /\ i + k \in 1..n
      BY <1>3, <1>5, <1>6, <2>1
    <3> QED  BY <1>2, <1>4, <1>8, <3>1
  <2>3. o - j = n - k
    BY <1>3, <2>1
  <2>4. c = g
    <3>1. Len(c) = Len(g) /\ \A i \in 1..Len(c) : c[i] = g[i]
      BY <1>7, <1>8, <2>2, <2>3
    <3> QED  BY <1>7, <1>8, <3>1, SeqEqual
  <2>5. 1 \in 1..(o - j)
    BY <1>6
  <2>6. Head(c).role # "system"
    BY <1>9, <2>2, <2>5
  <2>7. Spoken(c) = c
    BY <2>6 DEF Spoken
  <2> QED  BY <1>9, <2>4, <2>7 DEF c, f, g
<1> QED  BY <1>10, <1>11, MaxConversationAssumption

\* Neighbours alternate.
Pairs(m) ==
  \A i \in 2..Len(m) :
    \/ m[i].role = "user" /\ m[i-1].role # "user"
    \/ m[i].role = "assistant" /\ m[i-1].role # "assistant"

LEMMA CappedPairs ==
  ASSUME NEW m \in Seq(Messages), Pairs(m), m # <<>>
  PROVE  Pairs(Capped(m)) /\ Capped(m)[Len(Capped(m))] = m[Len(m)]
<1> DEFINE c == Capped(m)
<1>1. PICK n \in Nat : n = Len(m) /\ n > 0
  BY EmptySeq
<1>2. PICK k \in Nat : k = Skipped(n) /\ k < n
  BY <1>1, SkippedType
<1>3. c \in Seq(Messages) /\ Len(c) = n - k /\ \A i \in 1..(n - k) : c[i] = m[i + k]
  BY <1>1, <1>2, CappedIs
<1> HIDE DEF c
<1>4. Pairs(c)
  <2> SUFFICES ASSUME NEW i \in 2..(n - k)
               PROVE  \/ c[i].role = "user" /\ c[i-1].role # "user"
                      \/ c[i].role = "assistant" /\ c[i-1].role # "assistant"
    BY <1>3 DEF Pairs
  <2>1. i \in 1..(n - k) /\ i - 1 \in 1..(n - k) /\ i + k \in 2..n /\ i - 1 + k = i + k - 1
    OBVIOUS
  <2>2. c[i] = m[i + k] /\ c[i - 1] = m[i + k - 1]
    BY <1>3, <2>1
  <2> QED  BY <1>1, <2>1, <2>2 DEF Pairs
<1>5. c[n - k] = m[n]
  <2>1. n - k \in 1..(n - k) /\ n - k + k = n
    BY <1>2
  <2> QED  BY <1>3, <2>1
<1> QED  BY <1>1, <1>3, <1>4, <1>5 DEF c

LEMMA AppendPairs ==
  ASSUME NEW m \in Seq(Messages), Pairs(m), m # <<>>, NEW x \in Messages,
         x.role \in {"user", "assistant"}, x.role # m[Len(m)].role
  PROVE  Pairs(Append(m, x)) /\ Append(m, x)[Len(Append(m, x))] = x
<1> DEFINE a == Append(m, x)
<1>1. PICK n \in Nat : n = Len(m) /\ n > 0
  BY EmptySeq
<1>2. /\ a \in Seq(Messages) /\ Len(a) = n + 1 /\ a[n + 1] = x
      /\ \A i \in 1..n : a[i] = m[i]
  BY <1>1, AppendProperties
<1> HIDE DEF a
<1>3. Pairs(a)
  <2> SUFFICES ASSUME NEW i \in 2..(n + 1)
               PROVE  \/ a[i].role = "user" /\ a[i-1].role # "user"
                      \/ a[i].role = "assistant" /\ a[i-1].role # "assistant"
    BY <1>2 DEF Pairs
  <2>1. CASE i = n + 1
    <3>1. a[i] = x /\ a[i-1] = m[n]
      BY <1>1, <1>2, <2>1
    <3> QED  BY <1>1, <3>1
  <2>2. CASE i \in 2..n
    <3>1. a[i] = m[i] /\ a[i-1] = m[i-1]
      BY <1>2, <2>2
    <3> QED  BY <1>1, <2>2, <3>1 DEF Pairs
  <2> QED  BY <2>1, <2>2
<1> QED  BY <1>2, <1>3 DEF a

\* A message appended to a dialog.
LEMMA AppendedMessage ==
  ASSUME NEW q \in Seq(Messages), NEW m \in Messages, NEW i \in DOMAIN Append(q, m)
  PROVE  /\ i \in 1..Len(q) \/ Append(q, m)[i] = m
         /\ i \in 1..Len(q) => Append(q, m)[i] = q[i] /\ i \in DOMAIN q
<1>1. PICK n \in Nat : n = Len(q) /\ DOMAIN q = 1..n
  BY LenProperties
<1>2. /\ DOMAIN Append(q, m) = 1..(n + 1) /\ Append(q, m)[n + 1] = m
      /\ \A j \in 1..n : Append(q, m)[j] = q[j]
  BY <1>1, AppendProperties, LenProperties
<1>3. i = n + 1 \/ i \in 1..n
  BY <1>1, <1>2
<1> QED  BY <1>1, <1>2, <1>3

LEMMA PromptAppend ==
  ASSUME NEW p \in Messages, NEW q \in Seq(Messages), NEW m \in Messages
  PROVE  <<p>> \o q \in Seq(Messages) /\ Append(<<p>> \o q, m) = <<p>> \o Append(q, m)
<1>1. <<p>> \in Seq(Messages) /\ <<m>> \in Seq(Messages)
  OBVIOUS
<1>2. <<p>> \o q \in Seq(Messages)
  BY <1>1, ConcatProperties
<1>3. Append(<<p>> \o q, m) = (<<p>> \o q) \o <<m>> /\ Append(q, m) = q \o <<m>>
  BY <1>2, AppendIsConcat
<1>4. (<<p>> \o q) \o <<m>> = <<p>> \o (q \o <<m>>)
  BY <1>1, ConcatAssociative
<1> QED  BY <1>2, <1>3, <1>4

-----------------------------------------------------------------------------
(***************************************************************************)
(* What a write does to what is recorded.                                  *)
(***************************************************************************)
Held(s) == WellKept(s) /\ Recorded(s) /\ Alternates(s.conversation)

\* Roles of the prompt and of what is said.
LEMMA PromptType ==
  ASSUME NEW n \in Nat
  PROVE  Prompt(n) \in Messages /\ Prompt(n).role = "system"
BY DEF Prompt, Messages

LEMMA CappedFits ==
  ASSUME NEW m \in Seq(Messages), Len(m) <= MaxConversation
  PROVE  Capped(m) = m
BY SubSeqFull DEF Capped

\* What the fields of a state hold.
LEMMA Fields ==
  ASSUME NEW s \in KeptStates
  PROVE  /\ s.conversation \in Seq(Messages) /\ s.info \in Infos /\ s.reports \in Seq(Reports)
         /\ s.said \in Seq(Seq(Messages)) /\ s.info.conversation \in Seq(Messages)
         /\ Len(s.said) \in Nat /\ DOMAIN s.said = 1..Len(s.said)
         /\ \A d \in DOMAIN s.said : s.said[d] \in Seq(Messages)
         /\ \A i \in DOMAIN s.reports : s.reports[i] \in Reports /\ s.reports[i].dialog \in Nat
<1>1. /\ s.conversation \in Seq(Messages) /\ s.info \in Infos /\ s.reports \in Seq(Reports)
      /\ s.said \in Seq(Seq(Messages)) /\ s.info.conversation \in Seq(Messages)
  BY DEF KeptStates, Infos
<1>2. /\ Len(s.said) \in Nat /\ DOMAIN s.said = 1..Len(s.said)
      /\ \A d \in DOMAIN s.said : s.said[d] \in Seq(Messages)
  BY <1>1, LenProperties, ElementOfSeq
<1>3. \A i \in DOMAIN s.reports : s.reports[i] \in Reports
  BY <1>1, LenProperties, ElementOfSeq
<1>4. \A r \in Reports : r.dialog \in Nat
  BY DEF Reports
<1> QED  BY <1>1, <1>2, <1>3, <1>4

\* Dialogs that are over stay as they are, and so does what is recorded of them.
LEMMA ClosedStays ==
  ASSUME NEW s \in KeptStates, Closed(s), NEW t \in KeptStates,
         \A d \in DOMAIN s.said : Over(s, d) => Over(t, d) /\ t.said[d] = s.said[d],
         t.info.conversation \in {s.info.conversation, <<>>}, t.reports = s.reports
  PROVE  Closed(t)
<1>1. Len(s.said) \in Nat /\ DOMAIN s.said = 1..Len(s.said)
  BY Fields
<1>2. \A d : Over(s, d) => d \in DOMAIN s.said /\ d \in DOMAIN t.said
  BY DEF Over
<1>3. t.info.conversation # <<>> =>
        \E d \in DOMAIN t.said : Over(t, d) /\ t.info.conversation = Capped(t.said[d])
  <2> SUFFICES ASSUME s.info.conversation # <<>>, t.info.conversation = s.info.conversation
               PROVE  \E d \in DOMAIN t.said : Over(t, d) /\ t.info.conversation = Capped(t.said[d])
    OBVIOUS
  <2>1. PICK d \in DOMAIN s.said : Over(s, d) /\ s.info.conversation = Capped(s.said[d])
    BY DEF Closed
  <2> QED  BY <1>2, <2>1
<1>4. ASSUME NEW i \in DOMAIN t.reports
      PROVE  Over(t, t.reports[i].dialog) /\ Faithful(t, t.reports[i])
  <2> DEFINE r == s.reports[i]
  <2>1. r = t.reports[i] /\ r.dialog \in Nat /\ Over(s, r.dialog) /\ Faithful(s, r)
    BY Fields DEF Closed
  <2> HIDE DEF r
  <2>2. Over(t, r.dialog) /\ t.said[r.dialog] = s.said[r.dialog]
    BY <1>2, <2>1
  <2>3. \A d \in 1..(r.dialog - 1) : Over(s, d)
    BY <1>1, <2>1 DEF Over
  <2>4. \A d \in 1..(r.dialog - 1) : t.said[d] = s.said[d]
    BY <1>2, <2>3
  <2>5. Faithful(t, r)
    BY <2>1, <2>2, <2>4 DEF Faithful
  <2> QED  BY <2>1, <2>2, <2>5
<1> QED  BY <1>3, <1>4 DEF Closed

\* A write that says nothing may only forget.
LEMMA InfoHeld ==
  ASSUME NEW s, Held(s), NEW t \in KeptStates,
         t.said = s.said, t.reports = s.reports, t.conversation \in {s.conversation, <<>>},
         t.info.conversation \in {s.info.conversation, <<>>}
  PROVE  Held(t)
<1>1. s \in KeptStates /\ Ongoing(s) /\ Closed(s)
  BY DEF Held, WellKept, Recorded
<1>2. \A d \in DOMAIN s.said : Over(s, d) => Over(t, d) /\ t.said[d] = s.said[d]
  BY DEF Over
<1>3. Closed(t)
  BY <1>1, <1>2, ClosedStays
<1>4. Ongoing(t)
  BY <1>1 DEF Ongoing
<1>5. WellKept(t)
  BY DEF Held, WellKept
<1>6. Len(<<>>) = 0
  OBVIOUS
<1>7. Alternates(<<>>)
  BY <1>6 DEF Alternates
<1>8. Alternates(t.conversation)
  BY <1>7 DEF Held
<1> QED  BY <1>3, <1>4, <1>5, <1>8 DEF Held, Recorded

LEMMA PromptedHeld ==
  ASSUME NEW s, Held(s), s.conversation = <<>>
  PROVE  /\ Held(Prompted(s))
         /\ Prompted(s).conversation # <<>> /\ Prompted(s).said # <<>>
         /\ Prompted(s).conversation[Len(Prompted(s).conversation)].role = "system"
         /\ Len(Prompted(s).said) = Len(s.said) + 1
         /\ \A d \in DOMAIN s.said : Prompted(s).said[d] = s.said[d]
         /\ Prompted(s).info = s.info /\ Prompted(s).reports = s.reports
<1> DEFINE p == Prompted(s)
           m == Prompt(Len(s.said) + 1)
<1>1. s \in KeptStates /\ Ongoing(s) /\ Closed(s)
  BY DEF Held, WellKept, Recorded
<1>2. PICK n \in Nat : n = Len(s.said) /\ DOMAIN s.said = 1..n /\ s.said \in Seq(Seq(Messages))
  BY <1>1, Fields
<1>3. /\ p \in KeptStates /\ p.conversation # <<>> /\ p.said # <<>>
      /\ p.info = s.info
  BY <1>1, PromptedStep
<1>4. p.conversation = <<m>> /\ p.said = Append(s.said, <<>>) /\ p.reports = s.reports
  BY <1>1 DEF Prompted, KeptStates
<1>5. <<>> \in Seq(Messages)
  BY EmptySeq
<1>6. /\ Len(p.said) = n + 1 /\ p.said[n + 1] = <<>> /\ DOMAIN p.said = 1..(n + 1)
      /\ \A d \in 1..n : p.said[d] = s.said[d]
  BY <1>2, <1>4, <1>5, AppendProperties, LenProperties
<1>7. m \in Messages /\ m.role = "system" /\ m = Prompt(n + 1)
  BY <1>2, PromptType
<1> HIDE DEF p, m
<1>8. Len(p.conversation) = 1 /\ p.conversation[1] = m /\ <<m>> \in Seq(Messages)
  BY <1>4, <1>7
<1>9. Capped(<<m>> \o <<>>) = <<m>>
  <2>1. <<m>> \o <<>> = <<m>>
    BY <1>8, ConcatEmptySeq
  <2>2. Len(<<m>>) <= MaxConversation
    BY <1>4, <1>8, MaxConversationAssumption
  <2> QED  BY <1>8, <2>1, <2>2, CappedFits
<1>10. Ongoing(p)
  <2>1. \A d \in DOMAIN p.said : \A i \in DOMAIN p.said[d] : p.said[d][i].role # "system"
    <3> SUFFICES ASSUME NEW d \in 1..(n + 1), NEW i \in DOMAIN p.said[d]
                 PROVE  p.said[d][i].role # "system"
      BY <1>6
    <3>1. CASE d \in 1..n
      BY <1>1, <1>2, <1>6, <3>1 DEF Ongoing
    <3>2. CASE d = n + 1
      <4>1. DOMAIN p.said[d] = {}
        BY <1>6, <3>2
      <4> QED  BY <4>1
    <3> QED  BY <3>1, <3>2
  <2> QED  BY <1>4, <1>6, <1>7, <1>9, <2>1 DEF Ongoing
<1>11. Closed(p)
  <2>1. \A d \in DOMAIN s.said : Over(s, d) => Over(p, d) /\ p.said[d] = s.said[d]
    BY <1>2, <1>6 DEF Over
  <2> QED  BY <1>1, <1>3, <1>4, <2>1, ClosedStays
<1>12. Alternates(p.conversation)
  BY <1>7, <1>8 DEF Alternates
<1>13. Held(p)
  BY <1>3, <1>10, <1>11, <1>12 DEF Held, Recorded, WellKept
<1> QED  BY <1>2, <1>3, <1>4, <1>6, <1>7, <1>8, <1>13 DEF p

\* In the middle of an exchange the last message may be a question.
Spoke(s) ==
  /\ s \in KeptStates /\ Recorded(s) /\ s.said # <<>> /\ s.conversation # <<>>
  /\ Pairs(s.conversation)

LastRole(s) == s.conversation[Len(s.conversation)].role

\* Only the current dialog grows.
Adds(s, t) ==
  /\ Len(t.said) = Len(s.said)
  /\ \A d \in 1..(Len(s.said) - 1) : t.said[d] = s.said[d]
  /\ t.info = s.info /\ t.reports = s.reports

LEMMA SaysSpoke ==
  ASSUME NEW s, Spoke(s), NEW role \in {"user", "assistant"}, LastRole(s) # role
  PROVE  /\ Spoke(Says(s, role)) /\ LastRole(Says(s, role)) = role
         /\ Adds(s, Says(s, role))
<1>1. /\ s \in KeptStates /\ Ongoing(s) /\ Closed(s) /\ s.said # <<>> /\ s.conversation # <<>>
      /\ s.conversation \in Seq(Messages) /\ Pairs(s.conversation)
  BY Fields DEF Spoke, Recorded
<1>2. PICK n \in Nat : n = Len(s.said) /\ DOMAIN s.said = 1..n /\ n > 0
  BY <1>1, Fields, EmptySeq
<1> DEFINE q == s.said[n]
           m == [role |-> role, dialog |-> n, n |-> Len(q) + 1]
           p == Prompt(n)
           t == Says(s, role)
<1>3. q \in Seq(Messages) /\ s.said \in Seq(Seq(Messages))
  BY <1>1, <1>2, Fields
<1>4. m \in Messages /\ m.role = role
  BY <1>3, LenProperties DEF Messages
<1>5. /\ t \in KeptStates /\ t.said # <<>> /\ t.conversation # <<>> /\ t.info = s.info
  BY <1>1, SaysStep
<1>6. /\ t.conversation = Capped(Append(s.conversation, m)) /\ t.reports = s.reports
      /\ t.said = [s.said EXCEPT ![n] = Append(q, m)]
  BY <1>1, <1>2 DEF Says, KeptStates
<1>7. p \in Messages
  BY <1>2, PromptType
<1> HIDE DEF m, t, p
<1>8. Append(q, m) \in Seq(Messages)
  BY <1>3, <1>4, AppendProperties
<1>9. /\ Len(t.said) = n /\ DOMAIN t.said = 1..n /\ t.said[n] = Append(q, m)
      /\ \A d \in 1..(n - 1) : t.said[d] = s.said[d]
  BY <1>2, <1>3, <1>6, <1>8, ExceptSeq, LenProperties
<1>10. Ongoing(t)
  <2>1. \A d \in DOMAIN t.said : \A i \in DOMAIN t.said[d] : t.said[d][i].role # "system"
    <3> SUFFICES ASSUME NEW d \in 1..n, NEW i \in DOMAIN t.said[d]
                 PROVE  t.said[d][i].role # "system"
      BY <1>9
    <3>1. CASE d \in 1..(n - 1)
      BY <1>1, <1>2, <1>9, <3>1 DEF Ongoing
    <3>2. CASE d = n
      <4> DEFINE a == Append(q, m)
      <4>1. t.said[d] = a
        BY <1>9, <3>2
      <4>2. i \in DOMAIN a
        BY <4>1
      <4>3. /\ i \in 1..Len(q) \/ a[i] = m
            /\ i \in 1..Len(q) => a[i] = q[i] /\ i \in DOMAIN q
        BY <1>3, <1>4, <4>2, AppendedMessage
      <4> HIDE DEF a
      <4>4. i \in 1..Len(q) => q[i].role # "system"
        BY <1>1, <1>2, <4>3 DEF Ongoing
      <4> QED  BY <1>4, <4>1, <4>3, <4>4
    <3> QED  BY <1>2, <3>1, <3>2
  <2>2. s.conversation = Capped(<<p>> \o q)
    BY <1>1, <1>2 DEF Ongoing, p
  <2>3. <<p>> \o q \in Seq(Messages) /\ Append(<<p>> \o q, m) = <<p>> \o Append(q, m)
    BY <1>3, <1>4, <1>7, PromptAppend
  <2>4. t.conversation = Capped(<<p>> \o Append(q, m))
    BY <1>4, <1>6, <2>2, <2>3, CappedAgain
  <2> HIDE DEF q
  <2> QED  BY <1>9, <2>1, <2>4 DEF Ongoing, p
<1>11. Closed(t)
  <2>1. \A d \in DOMAIN s.said : Over(s, d) => Over(t, d) /\ t.said[d] = s.said[d]
    BY <1>1, <1>2, <1>9 DEF Over
  <2> QED  BY <1>1, <1>5, <1>6, <2>1, ClosedStays
<1>12. Pairs(t.conversation) /\ t.conversation[Len(t.conversation)] = m
  <2> DEFINE a == Append(s.conversation, m)
  <2>1. a \in Seq(Messages) /\ a # <<>>
    BY <1>1, <1>4, AppendProperties
  <2>2. Pairs(a) /\ a[Len(a)] = m
    BY <1>1, <1>4, AppendPairs DEF LastRole
  <2> HIDE DEF a
  <2>3. Pairs(Capped(a)) /\ Capped(a)[Len(Capped(a))] = m
    BY <2>1, <2>2, CappedPairs
  <2> QED  BY <1>6, <2>3 DEF a
<1>13. Spoke(t) /\ LastRole(t) = role
  BY <1>4, <1>5, <1>10, <1>11, <1>12 DEF Spoke, Recorded, LastRole
<1>14. Adds(s, t)
  BY <1>2, <1>5, <1>6, <1>9 DEF Adds
<1> QED  BY <1>13, <1>14 DEF t

LEMMA ExchangeHeld ==
  ASSUME NEW s, Held(s), s.conversation # <<>>
  PROVE  Held(Exchange(s)) /\ Exchange(s).conversation # <<>> /\ Adds(s, Exchange(s))
<1> DEFINE u == Says(s, "user")
           a == Says(u, "assistant")
<1>1. Spoke(s) /\ LastRole(s) # "user"
  BY DEF Held, WellKept, Spoke, Alternates, Pairs, LastRole
<1>2. Spoke(u) /\ LastRole(u) = "user" /\ Adds(s, u)
  BY <1>1, SaysSpoke
<1> HIDE DEF u
<1>3. Spoke(a) /\ LastRole(a) = "assistant" /\ Adds(u, a)
  BY <1>2, SaysSpoke
<1>4. Exchange(s) = a
  BY DEF Exchange, u
<1> HIDE DEF a
<1>5. Held(a)
  BY <1>3 DEF Held, WellKept, Spoke, Alternates, Pairs, LastRole
<1>6. Adds(s, a)
  BY <1>2, <1>3 DEF Adds
<1> QED  BY <1>3, <1>4, <1>5, <1>6 DEF Spoke

\* The LLM's greeting comes right after the prompt.
LEMMA GreetedHeld ==
  ASSUME NEW s, Held(s), s.conversation # <<>>, LastRole(s) = "system", NEW k
  PROVE  Held(Greeted(s, k)) /\ Greeted(s, k).conversation # <<>> /\ Adds(s, Greeted(s, k))
<1>1. CASE k = "conversational"
  BY <1>1, ExchangeHeld DEF Greeted
<1>2. CASE k # "conversational"
  <2> DEFINE a == Says(s, "assistant")
  <2>1. Spoke(s) /\ LastRole(s) # "assistant"
    BY DEF Held, WellKept, Spoke, Alternates, Pairs, LastRole
  <2>2. Spoke(a) /\ LastRole(a) = "assistant" /\ Adds(s, a)
    BY <2>1, SaysSpoke
  <2>3. Greeted(s, k) = a
    BY <1>2 DEF Greeted
  <2> HIDE DEF a
  <2>4. Held(a)
    BY <2>2 DEF Held, WellKept, Spoke, Alternates, Pairs, LastRole
  <2> QED  BY <2>2, <2>3, <2>4 DEF Spoke
<1> QED  BY <1>1, <1>2

\* The end of a dialog: nothing is added to it any more, and the info holds it.
LEMMA SavedHeld ==
  ASSUME NEW s, Held(s), s.conversation # <<>>
  PROVE  LET v == Saved(Popped(s), s.conversation) IN
         /\ Held(Popped(s)) /\ Popped(s).reports = s.reports
         /\ Held(v) /\ v.conversation = <<>> /\ v.said = s.said /\ v.reports = s.reports
         /\ v.said # <<>> /\ v.info.topic = s.info.topic
         /\ v.info.conversation = Capped(s.said[Len(s.said)])
<1> DEFINE p == Popped(s)
           v == Saved(p, s.conversation)
           c == Spoken(s.conversation)
<1>1. /\ s \in KeptStates /\ Ongoing(s) /\ s.said # <<>>
      /\ s.conversation \in Seq(Messages) /\ s.info \in Infos
  BY Fields DEF Held, WellKept, Recorded
<1>2. PICK n \in Nat : n = Len(s.said) /\ DOMAIN s.said = 1..n /\ n > 0
  BY <1>1, Fields, EmptySeq
<1>3. p \in KeptStates /\ p.info = s.info /\ p.conversation = <<>>
      /\ p.said = s.said /\ p.reports = s.reports
  <2>1. p.said = s.said /\ p.reports = s.reports
    BY <1>1 DEF Popped, KeptStates
  <2> QED  BY <1>1, <2>1, EndingSteps DEF Kinds
<1>4. Held(p)
  BY <1>3, InfoHeld
<1>5. c = Capped(s.said[n])
  <2>1. s.conversation = Capped(<<Prompt(n)>> \o s.said[n])
    BY <1>1, <1>2 DEF Ongoing
  <2>2. s.said[n] \in Seq(Messages) /\ \A i \in DOMAIN s.said[n] : s.said[n][i].role # "system"
    <3>1. n \in DOMAIN s.said
      BY <1>2
    <3>2. s.said[n] \in Seq(Messages)
      BY <1>1, <3>1, Fields
    <3> QED  BY <1>1, <3>1, <3>2 DEF Ongoing
  <2>3. Prompt(n) \in Messages /\ Prompt(n).role = "system"
    BY <1>2, PromptType
  <2>4. Spoken(Capped(<<Prompt(n)>> \o s.said[n])) = Capped(s.said[n])
    BY <2>2, <2>3, SpokenCapped
  <2> QED  BY <2>1, <2>4
<1>6. c \in Seq(Messages)
  BY <1>1, SpokenType
<1>7. /\ v \in KeptStates /\ v.conversation = <<>> /\ v.said = s.said /\ v.reports = s.reports
      /\ v.info.topic = s.info.topic /\ v.info.conversation = c
  <2> HIDE DEF p
  <2>1. v = [p EXCEPT !.info.conversation = c]
    BY DEF Saved
  <2> HIDE DEF c, v
  <2> QED  BY <1>1, <1>3, <1>6, <2>1 DEF KeptStates, Infos
<1>8. Held(v)
  <2> HIDE DEF p, v, c
  <2> DEFINE w == [v EXCEPT !.info.conversation = <<>>]
  <2>1. /\ w \in KeptStates /\ w.info.conversation = <<>> /\ w.conversation = <<>>
        /\ w.said = s.said /\ w.reports = s.reports
    BY <1>7, EmptySeq DEF KeptStates, Infos
  <2> HIDE DEF w
  <2>2. Held(w)
    BY <1>1, <2>1, InfoHeld
  <2>3. Over(v, n)
    BY <1>2, <1>7 DEF Over
  <2>4. Closed(w) /\ Ongoing(w) /\ Alternates(w.conversation)
    BY <2>2 DEF Held, Recorded
  <2>5. \A i \in DOMAIN v.reports :
          Over(v, v.reports[i].dialog) /\ Faithful(v, v.reports[i])
    BY <1>7, <2>1, <2>4 DEF Closed, Over, Faithful
  <2>6. Closed(v)
    BY <1>2, <1>5, <1>7, <2>3, <2>5 DEF Closed
  <2>7. Ongoing(v)
    BY <1>7, <2>1, <2>4 DEF Ongoing
  <2>8. WellKept(v)
    BY <1>7 DEF WellKept
  <2>9. Alternates(v.conversation)
    BY <1>7, <2>1, <2>4
  <2> QED  BY <2>6, <2>7, <2>8, <2>9 DEF Held, Recorded
<1> HIDE DEF p, v, c
<1>9. v.info.conversation = Capped(s.said[Len(s.said)])
  BY <1>2, <1>5, <1>7
<1> QED  BY <1>1, <1>3, <1>4, <1>7, <1>8, <1>9 DEF p, v

\* A report of a dialog that is over.
LEMMA ReportedHeld ==
  ASSUME NEW s, Held(s), s.conversation = <<>>, s.said # <<>>, NEW k \in Kinds,
         NEW m \in Seq(Messages),
         LET own == Capped(s.said[Len(s.said)]) IN
           \/ m = own
           \/ \E d \in 1..(Len(s.said) - 1) : m = Capped(s.said[d]) \o own
  PROVE  LET t == Reported(s, k, m) IN
         /\ Held(t) /\ t.said = s.said /\ t.info = s.info /\ t.conversation = <<>>
         /\ t.reports \in Seq(Reports)
         /\ \A i \in DOMAIN t.reports :
              \/ i \in DOMAIN s.reports /\ t.reports[i] = s.reports[i]
              \/ /\ t.reports[i].kind = k /\ t.reports[i].conversation = m
                 /\ t.reports[i].topic = s.info.topic
<1> DEFINE t == Reported(s, k, m)
           r == [kind |-> k, dialog |-> Len(s.said), topic |-> s.info.topic,
                 conversation |-> m, briefing |-> s.info.briefing]
<1>1. s \in KeptStates /\ Ongoing(s) /\ Closed(s) /\ s.reports \in Seq(Reports)
  BY Fields DEF Held, WellKept, Recorded
<1>2. PICK n \in Nat : n = Len(s.said) /\ DOMAIN s.said = 1..n /\ n > 0
  BY <1>1, Fields, EmptySeq
<1>3. /\ t \in KeptStates /\ t.info = s.info /\ t.conversation = <<>>
  BY <1>1, EndingSteps
<1>4. t.said = s.said /\ t.reports = Append(s.reports, r)
  BY <1>1 DEF Reported, KeptStates
<1>5. r \in Reports
  BY <1>1, <1>2 DEF Reports, KeptStates, Infos
<1>6. r.kind = k /\ r.dialog = n /\ r.conversation = m /\ r.topic = s.info.topic
  BY <1>2
<1> HIDE DEF t, r
<1>7. PICK l \in Nat : l = Len(s.reports) /\ DOMAIN s.reports = 1..l
  BY <1>1, LenProperties
<1>8. /\ t.reports \in Seq(Reports) /\ DOMAIN t.reports = 1..(l + 1) /\ t.reports[l + 1] = r
      /\ \A i \in 1..l : t.reports[i] = s.reports[i]
  BY <1>1, <1>4, <1>5, <1>7, AppendProperties, LenProperties
<1>9. \A i \in DOMAIN t.reports :
        \/ i \in DOMAIN s.reports /\ t.reports[i] = s.reports[i]
        \/ t.reports[i] = r
  BY <1>7, <1>8
<1>10. Closed(t)
  <2>1. \A d : Over(t, d) <=> Over(s, d)
    BY <1>3, <1>4 DEF Over
  <2>2. Over(t, r.dialog) /\ Faithful(t, r)
    <3>1. Over(t, r.dialog)
      BY <1>2, <1>3, <1>4, <1>6 DEF Over
    <3>2. \/ m = Capped(s.said[n])
          \/ \E d \in 1..(n - 1) : m = Capped(s.said[d]) \o Capped(s.said[n])
      BY <1>2
    <3>3. Faithful(t, r)
      BY <1>4, <1>6, <3>2 DEF Faithful
    <3> QED  BY <3>1, <3>3
  <2>3. \A i \in DOMAIN s.reports :
          Over(t, s.reports[i].dialog) /\ Faithful(t, s.reports[i])
    BY <1>1, <1>4, <2>1 DEF Closed, Faithful
  <2>4. \A i \in DOMAIN t.reports :
          Over(t, t.reports[i].dialog) /\ Faithful(t, t.reports[i])
    BY <1>9, <2>2, <2>3
  <2> QED  BY <1>1, <1>3, <1>4, <2>1, <2>4 DEF Closed
<1>11. Ongoing(t)
  BY <1>1, <1>3, <1>4 DEF Ongoing
<1>12. Held(t)
  BY <1>3, <1>10, <1>11 DEF Held, Recorded, WellKept
<1> QED  BY <1>3, <1>4, <1>6, <1>8, <1>9, <1>12 DEF t

-----------------------------------------------------------------------------
(***************************************************************************)
(* What the handlers record, whichever of their writes fails.              *)
(***************************************************************************)

\* ai_gather keeps a conversation or opens one.
Opened(s, t, topic) ==
  /\ t.conversation # <<>>
  /\ Len(t.said) = Len(s.said) + 1
  /\ \A d \in DOMAIN s.said : t.said[d] = s.said[d]
  /\ t.info.conversation = s.info.conversation
  /\ t.info.topic = IF s.info.topic = "" THEN topic ELSE s.info.topic

LEMMA GatherHeld ==
  ASSUME Held(kept), NEW topic \in Kinds, NEW k \in Kinds
  PROVE  /\ \A i \in 1..4 : /\ Held(GatherSteps(topic, k)[i])
                            /\ GatherSteps(topic, k)[i].reports = kept.reports
         /\ IF kept.conversation # <<>> THEN \A i \in 1..4 : GatherSteps(topic, k)[i] = kept
            ELSE Opened(kept, GatherSteps(topic, k)[4], topic)
<1>1. CASE kept.conversation # <<>>
  BY <1>1 DEF GatherSteps
<1>2. CASE kept.conversation = <<>>
  <2> DEFINE p == Prompted(kept)
             m == Merged(p, topic)
             g == Greeted(m, k)
  <2>1. /\ Held(p) /\ p.conversation # <<>> /\ p.said # <<>> /\ LastRole(p) = "system"
        /\ Len(p.said) = Len(kept.said) + 1
        /\ \A d \in DOMAIN kept.said : p.said[d] = kept.said[d]
        /\ p.info = kept.info /\ p.reports = kept.reports
    BY <1>2, PromptedHeld DEF LastRole
  <2>2. Len(kept.said) \in Nat /\ DOMAIN kept.said = 1..Len(kept.said) /\ p \in KeptStates
    BY <2>1, Fields DEF Held, WellKept
  <2> HIDE DEF p
  <2>3. m \in KeptStates
    BY <2>2, InfoSteps
  <2>4. /\ m.conversation = p.conversation /\ m.said = p.said /\ m.reports = p.reports
        /\ m.info.conversation = p.info.conversation
        /\ m.info.topic = IF p.info.topic = "" THEN topic ELSE p.info.topic
    BY <2>2 DEF Merged, KeptStates, Infos
  <2>5. GatherSteps(topic, k) = <<kept, p, m, g>>
    BY <1>2 DEF GatherSteps, p
  <2> HIDE DEF m
  <2>6. Held(m) /\ LastRole(m) = "system"
    BY <2>1, <2>3, <2>4, InfoHeld DEF LastRole
  <2>7. Held(g) /\ g.conversation # <<>> /\ Adds(m, g)
    BY <2>1, <2>4, <2>6, GreetedHeld
  <2> HIDE DEF g
  <2>8. Opened(kept, g, topic)
    <3>1. /\ Len(g.said) = Len(kept.said) + 1 /\ g.info = m.info /\ g.reports = m.reports
          /\ \A d \in 1..(Len(m.said) - 1) : g.said[d] = m.said[d]
      BY <2>1, <2>4, <2>7 DEF Adds
    <3>2. \A d \in DOMAIN kept.said : d \in 1..(Len(m.said) - 1)
      <4>1. PICK l \in Nat : l = Len(kept.said)
        BY <2>2
      <4>2. Len(m.said) = l + 1 /\ DOMAIN kept.said = 1..l
        BY <2>1, <2>2, <2>4, <4>1
      <4> QED  BY <4>2
    <3>3. \A d \in DOMAIN kept.said : g.said[d] = kept.said[d]
      BY <2>1, <2>4, <3>1, <3>2
    <3>4. g.info.conversation = kept.info.conversation
      BY <2>1, <2>4, <3>1
    <3>5. g.info.topic = IF kept.info.topic = "" THEN topic ELSE kept.info.topic
      BY <2>1, <2>4, <3>1
    <3> QED  BY <2>7, <3>1, <3>3, <3>4, <3>5 DEF Opened
  <2>9. \A x \in {kept, p, m, g} : Held(x) /\ x.reports = kept.reports
    BY <2>1, <2>4, <2>6, <2>7 DEF Adds
  <2> QED  BY <1>2, <2>5, <2>8, <2>9
<1> QED  BY <1>1, <1>2

LEMMA BeforeAnswerHeld ==
  ASSUME Held(kept), NEW topic \in Kinds
  PROVE  /\ \A i \in 1..3 : /\ Held(BeforeAnswer(topic)[i])
                            /\ BeforeAnswer(topic)[i].reports = kept.reports
         /\ BeforeAnswer(topic)[3].conversation # <<>>
         /\ kept.conversation # <<>> => \A i \in 1..3 : BeforeAnswer(topic)[i] = kept
<1>1. CASE kept.conversation # <<>>
  BY <1>1 DEF BeforeAnswer
<1>2. CASE kept.conversation = <<>>
  <2> DEFINE p == Prompted(kept)
             r == Reset(p, topic)
  <2>1. Held(p) /\ p.conversation # <<>> /\ p.reports = kept.reports /\ p \in KeptStates
    BY <1>2, PromptedHeld DEF Held, WellKept
  <2> HIDE DEF p
  <2>2. r \in KeptStates
    BY <2>1, InfoSteps
  <2>3. r.conversation = p.conversation /\ r.said = p.said /\ r.reports = p.reports
        /\ r.info.conversation = <<>>
    BY <2>1 DEF Reset, KeptStates, FreshInfo
  <2>4. BeforeAnswer(topic) = <<kept, p, r>>
    BY <1>2 DEF BeforeAnswer, p
  <2> HIDE DEF r
  <2>5. Held(r)
    BY <2>1, <2>2, <2>3, InfoHeld
  <2> QED  BY <1>2, <2>1, <2>3, <2>4, <2>5
<1> QED  BY <1>1, <1>2

\* ai_respond adds an exchange.
Continued(s, t) ==
  /\ t.conversation # <<>>
  /\ Len(t.said) = Len(s.said)
  /\ \A d \in 1..(Len(s.said) - 1) : t.said[d] = s.said[d]
  /\ t.info.conversation = s.info.conversation
  /\ t.info.topic = s.info.topic

LEMMA AnswerHeld ==
  ASSUME NEW s, Held(s), s.conversation # <<>>, NEW contact \in BOOLEAN
  PROVE  \A i \in 1..4 : /\ Held(AnswerSteps(s, contact)[i])
                         /\ AnswerSteps(s, contact)[i].reports = s.reports
                         /\ Continued(s, AnswerSteps(s, contact)[i])
<1> DEFINE e == Exchange(s)
           m == Informed(e, contact)
           n == Noted(m)
           a == Alerted(n)
           Silent(x, y) == /\ y \in KeptStates /\ y.said = x.said /\ y.reports = x.reports
                           /\ y.conversation = x.conversation
                           /\ y.info.conversation = x.info.conversation
                           /\ y.info.topic = x.info.topic
<1>1. Held(e) /\ e.conversation # <<>> /\ Adds(s, e) /\ e \in KeptStates
  BY ExchangeHeld DEF Held, WellKept
<1>2. "topic" \in Kinds
  BY DEF Kinds
<1> HIDE DEF e
<1>3. Silent(e, m)
  <2>1. m \in KeptStates
    BY <1>1, <1>2, InfoSteps
  <2> QED  BY <1>1, <2>1 DEF Informed, KeptStates, Infos
<1> HIDE DEF m
<1>4. Silent(m, n)
  <2>1. n \in KeptStates
    BY <1>2, <1>3, InfoSteps
  <2> QED  BY <1>3, <2>1 DEF Noted, KeptStates, Infos
<1> HIDE DEF n
<1>5. Silent(n, a)
  <2>1. n \in KeptStates /\ n.alerts + 1 \in Nat
    BY <1>4 DEF KeptStates
  <2> QED  BY <2>1 DEF Alerted, KeptStates
<1>6. AnswerSteps(s, contact) = <<e, m, n, IF Alerts(m) THEN a ELSE n>>
  BY DEF AnswerSteps, e, m, n
<1> HIDE DEF a
<1>7. Held(m) /\ Held(n) /\ Held(a)
  <2>1. Held(m)
    BY <1>1, <1>3, InfoHeld
  <2>2. Held(n)
    BY <1>4, <2>1, InfoHeld
  <2>3. Held(a)
    BY <1>5, <2>2, InfoHeld
  <2> QED  BY <2>1, <2>2, <2>3
<1>8. Continued(s, e) /\ e.reports = s.reports
  BY <1>1 DEF Continued, Adds
<1>9. \A x \in {e, m, n, a} : /\ Held(x) /\ x.reports = s.reports
                              /\ Continued(s, x)
  BY <1>1, <1>3, <1>4, <1>5, <1>7, <1>8 DEF Continued
<1> QED  BY <1>6, <1>9

\* The last write of a dialog: a report of a callback or of a conversational demo.
Concluded(s, t, k) ==
  LET own == Capped(s.said[Len(s.said)]) IN
    /\ t.conversation = <<>>
    /\ t.said = s.said
    /\ t.info.topic = s.info.topic
    /\ t.info.conversation = own
    /\ \A i \in DOMAIN t.reports :
         \/ i \in DOMAIN s.reports /\ t.reports[i] = s.reports[i]
         \/ /\ t.reports[i].kind = k /\ t.reports[i].topic = s.info.topic
            /\ k = "callback" => t.reports[i].conversation = s.info.conversation \o own

LEMMA EndHeld ==
  ASSUME NEW s, Held(s), s.conversation # <<>>, NEW k \in Kinds
  PROVE  /\ \A i \in 1..3 : Held(EndSteps(s, k)[i])
         /\ \A i \in 1..2 : EndSteps(s, k)[i].reports = s.reports
         /\ Concluded(s, EndSteps(s, k)[3], k)
<1> DEFINE p == Popped(s)
           v == Saved(p, s.conversation)
           merged == PreScreening(s, v) \o v.info.conversation
           r == Reported(v, k, v.info.conversation)
           c == Reported(v, k, merged)
           own == Capped(s.said[Len(s.said)])
<1>1. /\ Held(p) /\ p.reports = s.reports
      /\ Held(v) /\ v.conversation = <<>> /\ v.said = s.said /\ v.reports = s.reports
      /\ v.said # <<>> /\ v.info.topic = s.info.topic /\ v.info.conversation = own
  BY SavedHeld
<1>2. s \in KeptStates /\ v \in KeptStates
  BY <1>1 DEF Held, WellKept
<1>3. EndSteps(s, k) = <<p, v, IF k = "conversational" THEN r
                               ELSE IF k = "callback" THEN c ELSE v>>
  BY DEF EndSteps
<1>4. merged = s.info.conversation \o own
  BY <1>1 DEF PreScreening
<1> HIDE DEF p, v
<1>5. own \in Seq(Messages) /\ s.info.conversation \in Seq(Messages)
  BY <1>1, <1>2, Fields
<1>6. merged \in Seq(Messages)
  BY <1>4, <1>5, ConcatProperties
<1>7. \/ merged = own
      \/ \E d \in 1..(Len(s.said) - 1) : merged = Capped(s.said[d]) \o own
  <2>1. CASE s.info.conversation = <<>>
    BY <1>4, <1>5, <2>1, ConcatEmptySeq
  <2>2. CASE s.info.conversation # <<>>
    <3>1. PICK d \in DOMAIN s.said : Over(s, d) /\ s.info.conversation = Capped(s.said[d])
      BY <2>2 DEF Held, Recorded, Closed
    <3>2. d \in 1..(Len(s.said) - 1)
      <4>1. DOMAIN s.said = 1..Len(s.said) /\ Len(s.said) \in Nat
        BY <1>2, Fields
      <4> QED  BY <3>1, <4>1 DEF Over
    <3> QED  BY <1>4, <3>1, <3>2
  <2> QED  BY <2>1, <2>2
<1> HIDE DEF merged
<1>8. /\ Held(r) /\ r.said = v.said /\ r.info = v.info /\ r.conversation = <<>>
      /\ \A i \in DOMAIN r.reports :
           \/ i \in DOMAIN v.reports /\ r.reports[i] = v.reports[i]
           \/ /\ r.reports[i].kind = k /\ r.reports[i].conversation = v.info.conversation
              /\ r.reports[i].topic = v.info.topic
  <2> HIDE DEF own
  <2>1. v.info.conversation \in Seq(Messages)
    BY <1>1, <1>5
  <2>2. v.info.conversation = Capped(v.said[Len(v.said)])
    BY <1>1 DEF own
  <2> QED  BY <1>1, <2>1, <2>2, ReportedHeld
<1>9. /\ Held(c) /\ c.said = v.said /\ c.info = v.info /\ c.conversation = <<>>
      /\ \A i \in DOMAIN c.reports :
           \/ i \in DOMAIN v.reports /\ c.reports[i] = v.reports[i]
           \/ /\ c.reports[i].kind = k /\ c.reports[i].conversation = merged
              /\ c.reports[i].topic = v.info.topic
  <2>1. LET last == Capped(v.said[Len(v.said)]) IN
          \/ merged = last
          \/ \E d \in 1..(Len(v.said) - 1) : merged = Capped(v.said[d]) \o last
    BY <1>1, <1>7
  <2> QED  BY <1>1, <1>6, <2>1, ReportedHeld
<1> HIDE DEF r, c, own
<1>10. k # "conversational" /\ k # "callback" => Concluded(s, v, k)
  BY <1>1 DEF Concluded, own
<1>11. k = "conversational" => Concluded(s, r, k)
  BY <1>1, <1>8 DEF Concluded, own
<1>12. k = "callback" => Concluded(s, c, k)
  BY <1>1, <1>4, <1>9 DEF Concluded, own
<1> QED  BY <1>1, <1>3, <1>8, <1>9, <1>10, <1>11, <1>12

-----------------------------------------------------------------------------
(***************************************************************************)
(* Every step keeps what is recorded.                                      *)
(***************************************************************************)

\* ai_gather: what it records, and where its TwiML takes the caller.
LEMMA GatherRecords ==
  ASSUME TypeOK, Held(kept), AiGather
  PROVE  /\ Held(kept') /\ kept'.reports = kept.reports
         /\ \E next \in {"listening", "streaming", "closing"} :
              /\ Answer(next)
              /\ next = "listening" =>
                   IF kept.conversation # <<>> THEN kept' = kept
                   ELSE Opened(kept, kept', Head(requests).kind)
<1> DEFINE topic == Head(requests).kind
<1>1. topic \in Kinds
  BY HeadType DEF AiGather, Handles
<1>2. PICK k \in Seen(topic) :
        LET steps == GatherSteps(topic, k) IN
          \/ /\ kept' = steps[4]
             /\ Answer("listening") \/ Answer("streaming")
          \/ (\E i \in 1..4 : kept' = steps[i]) /\ Answer("closing")
  BY DEF AiGather
<1>3. k \in Kinds
  BY <1>1, <1>2 DEF Seen, Kinds
<1>4. /\ \A i \in 1..4 : /\ Held(GatherSteps(topic, k)[i])
                         /\ GatherSteps(topic, k)[i].reports = kept.reports
      /\ IF kept.conversation # <<>> THEN \A i \in 1..4 : GatherSteps(topic, k)[i] = kept
         ELSE Opened(kept, GatherSteps(topic, k)[4], topic)
  BY <1>1, <1>3, GatherHeld
<1> HIDE DEF topic
<1>5. Held(kept') /\ kept'.reports = kept.reports
  BY <1>2, <1>4
<1>6. \E next \in {"listening", "streaming", "closing"} :
        /\ Answer(next)
        /\ next = "listening" =>
             IF kept.conversation # <<>> THEN kept' = kept ELSE Opened(kept, kept', topic)
  BY <1>2, <1>4
<1> QED  BY <1>5, <1>6 DEF topic

\* ai_respond, the same: the dialog goes on, ends, or its request fails.
GoesOn(s, t) == Continued(s, t) /\ t.reports = s.reports

LEMMA RespondRecords ==
  ASSUME TypeOK, Held(kept), AiRespond
  PROVE  /\ Held(kept')
         /\ kept.conversation # <<>> =>
              \/ Answer("listening") /\ GoesOn(kept, kept')
              \/ Answer("closing") /\ kept'.reports = kept.reports
              \/ \E k \in Seen(Head(requests).kind), next \in {"room", "closing"}, s \in KeptStates :
                   /\ Answer(next) /\ (next = "room" => k \in {"topic", "demoTopic"})
                   /\ GoesOn(kept, s) /\ Concluded(s, kept', k)
<1> DEFINE topic == Head(requests).kind
           asking == BeforeAnswer(topic)
           answer(contact) == AnswerSteps(asking[3], contact)
           end(contact, k) == EndSteps(answer(contact)[4], k)
<1>1. topic \in Kinds
  BY HeadType DEF AiRespond, Handles
<1>2. PICK k \in Seen(topic), contact \in BOOLEAN, ends \in BOOLEAN :
        \/ ~ends /\ kept' = answer(contact)[4] /\ Answer("listening")
        \/ ends /\ kept' = end(contact, k)[3] /\ Answer(Leads(end(contact, k)[3], k))
        \/ "llm" \in Failures /\ kept' = Unanswered(asking[3]) /\ Answer("closing")
        \/ /\ "redis" \in Failures
           /\ \/ \E i \in 1..3 : kept' = asking[i]
              \/ \E i \in 1..4 : kept' = answer(contact)[i]
              \/ ends /\ \E i \in 1..2 : kept' = end(contact, k)[i]
           /\ Answer("closing")
        \/ /\ "db" \in Failures
           /\ kept' \in {asking[1], answer(contact)[2], answer(contact)[3],
                         IF ends THEN end(contact, k)[2] ELSE answer(contact)[3]}
           /\ Answer("closing")
  BY Zenon DEF AiRespond
<1>3. k \in Kinds
  BY <1>1, <1>2 DEF Seen, Kinds
<1>4. /\ \A i \in 1..3 : Held(asking[i]) /\ asking[i].reports = kept.reports
      /\ asking[3].conversation # <<>>
      /\ kept.conversation # <<>> => \A i \in 1..3 : asking[i] = kept
  BY <1>1, BeforeAnswerHeld
<1>5. kept' = end(contact, k)[3] /\ Answer(Leads(end(contact, k)[3], k)) =>
        \E next \in {"room", "closing"} :
          Answer(next) /\ (next = "room" => k \in {"topic", "demoTopic"})
  <2> HIDE DEF end
  <2>1. \/ Leads(end(contact, k)[3], k) = "closing"
        \/ Leads(end(contact, k)[3], k) = "room" /\ k \in {"topic", "demoTopic"}
    BY DEF Leads
  <2> QED  BY <2>1
<1>6. \/ kept' = answer(contact)[4] /\ Answer("listening")
      \/ /\ kept' = end(contact, k)[3]
         /\ \E next \in {"room", "closing"} :
              Answer(next) /\ (next = "room" => k \in {"topic", "demoTopic"})
      \/ /\ \/ \E i \in 1..3 : kept' = asking[i]
            \/ \E i \in 1..4 : kept' = answer(contact)[i]
            \/ \E i \in 1..2 : kept' = end(contact, k)[i]
         /\ Answer("closing")
  <2> HIDE DEF asking, answer, end
  <2> QED  BY <1>2, <1>5 DEF Unanswered
<1> HIDE DEF asking
<1>7. \A i \in 1..4 : /\ Held(answer(contact)[i])
                      /\ answer(contact)[i].reports = asking[3].reports
                      /\ Continued(asking[3], answer(contact)[i])
  BY <1>4, AnswerHeld
<1> HIDE DEF answer
<1>8. /\ \A i \in 1..3 : Held(end(contact, k)[i])
      /\ \A i \in 1..2 : end(contact, k)[i].reports = answer(contact)[4].reports
      /\ Concluded(answer(contact)[4], end(contact, k)[3], k)
  <2>1. Held(answer(contact)[4]) /\ answer(contact)[4].conversation # <<>>
    BY <1>7 DEF Continued
  <2> QED  BY <1>3, <2>1, EndHeld
<1> HIDE DEF end
<1>9. Held(kept')
  BY <1>4, <1>6, <1>7, <1>8
<1>10. ASSUME kept.conversation # <<>>
       PROVE  \/ Answer("listening") /\ GoesOn(kept, kept')
              \/ Answer("closing") /\ kept'.reports = kept.reports
              \/ \E x \in Seen(topic), next \in {"room", "closing"}, s \in KeptStates :
                   /\ Answer(next) /\ (next = "room" => x \in {"topic", "demoTopic"})
                   /\ GoesOn(kept, s) /\ Concluded(s, kept', x)
  <2>1. \A i \in 1..3 : asking[i] = kept
    BY <1>4, <1>10
  <2>2. \A i \in 1..4 : GoesOn(kept, answer(contact)[i])
    BY <1>7, <2>1 DEF GoesOn
  <2>0. answer(contact)[4] \in KeptStates
    BY <1>7 DEF Held, WellKept
  <2>3. CASE kept' = answer(contact)[4] /\ Answer("listening")
    BY <2>2, <2>3
  <2>4. CASE /\ kept' = end(contact, k)[3]
             /\ \E next \in {"room", "closing"} :
                  Answer(next) /\ (next = "room" => k \in {"topic", "demoTopic"})
    BY <1>2, <1>8, <2>0, <2>2, <2>4
  <2>5. CASE /\ \/ \E i \in 1..3 : kept' = asking[i]
                \/ \E i \in 1..4 : kept' = answer(contact)[i]
                \/ \E i \in 1..2 : kept' = end(contact, k)[i]
             /\ Answer("closing")
    <3>1. \A i \in 1..2 : end(contact, k)[i].reports = kept.reports
      BY <1>8, <2>2 DEF GoesOn
    <3>2. kept'.reports = kept.reports
      BY <2>1, <2>2, <2>5, <3>1 DEF GoesOn
    <3> QED  BY <2>5, <3>2
  <2> QED  BY <1>6, <2>3, <2>4, <2>5
<1> QED  BY <1>9, <1>10 DEF topic

\* The caller and the operator record nothing of a dialog.
LEMMA PhoneRecords ==
  ASSUME TypeOK, WellKept(kept), PhoneStep
  PROVE  /\ kept' \in KeptStates /\ kept'.said = kept.said /\ kept'.reports = kept.reports
         /\ kept'.conversation \in {kept.conversation, <<>>}
         /\ kept'.info.conversation \in {kept.info.conversation, <<>>}
<1>1. kept' \in KeptStates /\ kept \in KeptStates
  BY PhoneTypes DEF WellKept
<1>2. CASE DirectTransfer
  <2> DEFINE info == [FreshInfo EXCEPT !.contact = TRUE, !.topic = "direct"]
  <2>1. info.conversation = <<>>
    BY DEF FreshInfo
  <2>2. kept' = [kept EXCEPT !.info = info]
    BY <1>2 DEF DirectTransfer
  <2> HIDE DEF info
  <2> QED  BY <1>1, <2>1, <2>2 DEF KeptStates
<1>3. CASE Briefed
  BY <1>1, <1>3 DEF Briefed, KeptStates, Infos
<1>4. CASE Expire
  <2>1. PICK info \in {kept.info, FreshInfo} :
          kept' = [kept EXCEPT !.conversation = <<>>, !.info = info]
    BY <1>4 DEF Expire
  <2>2. info.conversation \in {kept.info.conversation, <<>>}
    <3>1. FreshInfo.conversation = <<>>
      BY DEF FreshInfo
    <3> QED  BY <2>1, <3>1
  <2> QED  BY <1>1, <2>1, <2>2 DEF KeptStates
<1>5. CASE UNCHANGED kept
  BY <1>1, <1>5
<1> QED  BY <1>2, <1>3, <1>4, <1>5
         DEF PhoneStep, Menu, Speaks, Goes, NoAvailability, Redirected

LEMMA HeldStep ==
  ASSUME TypeOK, Held(kept), [Next]_vars
  PROVE  Held(kept')
<1>1. WellKept(kept)
  BY DEF Held
<1>2. CASE PhoneStep
  BY <1>1, <1>2, PhoneRecords, InfoHeld
<1>3. CASE AiGather
  BY <1>3, GatherRecords
<1>4. CASE AiRespond
  BY <1>4, RespondRecords
<1>5. CASE UNCHANGED vars
  BY <1>5 DEF vars
<1> QED  BY <1>2, <1>3, <1>4, <1>5, StepCases

LEMMA InitHeld == Init => Held(kept)
<1> SUFFICES ASSUME Init PROVE Held(kept)
  OBVIOUS
<1>1. /\ kept.conversation = <<>> /\ kept.said = <<>> /\ kept.reports = <<>>
      /\ kept.info.conversation = <<>>
  BY DEF Init, FreshInfo
<1>2. DOMAIN <<>> = {} /\ Len(<<>>) = 0
  OBVIOUS
<1>3. Ongoing(kept) /\ Closed(kept)
  BY <1>1, <1>2 DEF Ongoing, Closed
<1>4. Alternates(kept.conversation)
  BY <1>1, <1>2 DEF Alternates
<1> QED  BY <1>3, <1>4, InitTypes DEF Held, Recorded

-----------------------------------------------------------------------------
(***************************************************************************)
(* The dialogs of a call with no redirects and no expiry come in order.    *)
(***************************************************************************)

\* A handled request was the only one: after it the caller listens, or no
\* dialog is under way.
LEMMA HandledInOrder ==
  ASSUME TypeOK, UtterancesComeFirst, DialogInOrder, RoomInOrder, requests # <<>>,
         NEW next \in Places, Answer(next)
  PROVE  /\ Underway /\ requests' = <<>>
         /\ place' \in {next, "waiting", "gone"}
         /\ Head(requests).kind = kind
<1>1. Underway /\ Head(requests).kind = kind /\ Len(requests) <= 1
  BY DEF Underway, DialogInOrder
<1>2. requests' = <<>>
  <2>1. requests \in Seq(Requests) /\ Len(requests) \in Nat \ {0}
    BY EmptySeq DEF TypeOK
  <2>2. requests' \in Seq(Requests) /\ Len(requests') = Len(requests) - 1
    BY <2>1, HeadTailProperties DEF Answer
  <2>3. Len(requests') = 0
    BY <1>1, <2>1, <2>2
  <2> QED  BY <2>2, <2>3, EmptySeq
<1>3. place \in {"waiting", "gone"}
  BY DEF UtterancesComeFirst, RoomInOrder, TypeOK, Places
<1> QED  BY <1>1, <1>2, <1>3 DEF Answer

\* No report of a callback is added.
LEMMA NoNewReport ==
  ASSUME CallbackReports(kept) = {}, kept'.reports = kept.reports
  PROVE  CallbackReports(kept') = {}
BY DEF CallbackReports

\* A dialog that is not under way any more has only to have reported well.
LEMMA QuietStep ==
  ASSUME requests' = <<>>, place' \in {"closing", "streaming", "waiting", "gone"},
         \A i \in CallbackReports(kept') : TellsAll(kept.reports[i])'
  PROVE  DialogInOrder' /\ RoomInOrder' /\ CallbackComesLast'
BY DEF DialogInOrder, RoomInOrder, CallbackComesLast, Underway

LEMMA EmptyQueue == Len(<<>>) = 0
OBVIOUS

LEMMA GatherInOrder ==
  ASSUME TypeOK, Held(kept), UtterancesComeFirst, DialogInOrder, RoomInOrder,
         CallbackComesLast, AiGather
  PROVE  DialogInOrder' /\ RoomInOrder' /\ CallbackComesLast'
<1>1. requests # <<>> /\ UNCHANGED <<kind, asked>> /\ kept \in KeptStates
  BY DEF AiGather, Handles, TypeOK
<1>2. PICK next \in {"listening", "streaming", "closing"} :
        /\ Answer(next)
        /\ next = "listening" =>
             IF kept.conversation # <<>> THEN kept' = kept
             ELSE Opened(kept, kept', Head(requests).kind)
  BY GatherRecords
<1>3. /\ Underway /\ requests' = <<>> /\ place' \in {next, "waiting", "gone"}
      /\ Head(requests).kind = kind
  <2>1. next \in Places
    BY <1>2 DEF Places
  <2> QED  BY <1>1, <1>2, <2>1, HandledInOrder
<1>4. CallbackReports(kept') = {}
  <2>1. CallbackReports(kept) = {}
    BY <1>3 DEF CallbackComesLast
  <2> QED  BY <2>1, GatherRecords, NoNewReport
<1>5. CASE place' # "listening"
  BY <1>2, <1>3, <1>4, <1>5, QuietStep
<1>6. CASE place' = "listening"
  <2>1. IF kept.conversation # <<>> THEN kept' = kept ELSE Opened(kept, kept', kind)
    BY <1>2, <1>3, <1>6
  <2>2. RoomInOrder' /\ CallbackComesLast'
    BY <1>4, <1>6 DEF RoomInOrder, CallbackComesLast
  <2>3. Earlier' = Earlier /\ Earlier \in {0, 1}
    BY <1>1 DEF Earlier
  <2>4. /\ Len(kept.said) = IF kept.conversation = <<>> THEN Earlier ELSE Earlier + 1
        /\ kept.info.conversation = IF Earlier = 1 THEN Capped(kept.said[1]) ELSE <<>>
        /\ \/ kept.info.topic = asked
           \/ kept.info.topic = "" /\ kept.conversation = <<>> /\ kind # "callback"
        /\ kind # "callback" => asked = kind
        /\ kind = "callback" => asked # "nothing"
    BY <1>3 DEF DialogInOrder
  <2>5. ASSUME /\ kept'.conversation # <<>> /\ Len(kept'.said) = Earlier + 1
               /\ kept'.info.conversation = IF Earlier = 1 THEN Capped(kept'.said[1]) ELSE <<>>
               /\ kept'.info.topic = asked
        PROVE  DialogInOrder'
    <3>1. /\ kind' # "callback" => asked' = kind'
          /\ kind' = "callback" => asked' # "nothing"
      BY <1>1, <2>4
    <3>2. requests' = <<>>
      BY <1>3
    <3>3. Len(requests') <= 1
      BY <3>2, EmptyQueue
    <3>4. Len(kept'.said) = IF kept'.conversation = <<>> THEN Earlier' ELSE Earlier' + 1
      BY <2>3, <2>5
    <3>5. kept'.info.conversation = IF Earlier' = 1 THEN Capped(kept'.said[1]) ELSE <<>>
      BY <2>3, <2>5
    <3>6. kept'.info.topic = asked'
      BY <1>1, <2>5
    <3> QED  BY <3>1, <3>2, <3>3, <3>4, <3>5, <3>6 DEF DialogInOrder
  <2>6. DialogInOrder'
    <3>1. CASE kept.conversation # <<>>
      BY <2>1, <2>4, <2>5, <3>1
    <3>2. CASE kept.conversation = <<>>
      <4>1. Opened(kept, kept', kind)
        BY <2>1, <3>2
      <4>2. Len(kept.said) = Earlier /\ DOMAIN kept.said = 1..Earlier
        BY <1>1, <2>4, <3>2, Fields
      <4>3. Len(kept'.said) = Earlier + 1 /\ kept'.conversation # <<>>
        BY <4>1, <4>2 DEF Opened
      <4>4. Earlier = 1 => kept'.said[1] = kept.said[1]
        <5>1. Earlier = 1 => 1 \in DOMAIN kept.said
          BY <4>2
        <5> QED  BY <4>1, <5>1 DEF Opened
      <4>5. kept'.info.conversation = IF Earlier = 1 THEN Capped(kept'.said[1]) ELSE <<>>
        BY <2>4, <4>1, <4>4 DEF Opened
      <4>6. kept'.info.topic = asked
        <5>1. asked # ""
          BY DEF TypeOK, Kinds
        <5>2. kept'.info.topic = IF kept.info.topic = "" THEN kind ELSE kept.info.topic
          BY <4>1 DEF Opened
        <5> QED  BY <2>4, <5>1, <5>2
      <4> QED  BY <2>5, <4>3, <4>5, <4>6
    <3> QED  BY <3>1, <3>2
  <2> QED  BY <2>2, <2>6
<1> QED  BY <1>5, <1>6

LEMMA RespondInOrder ==
  ASSUME TypeOK, Held(kept), UtterancesComeFirst, DialogInOrder, RoomInOrder,
         CallbackComesLast, AiRespond, kept.conversation # <<>>
  PROVE  DialogInOrder' /\ RoomInOrder' /\ CallbackComesLast'
<1>1. requests # <<>> /\ UNCHANGED <<kind, asked>> /\ kept \in KeptStates
  BY DEF AiRespond, Handles, TypeOK
<1>2. \A next \in {"listening", "closing", "room"} :
        Answer(next) => /\ Underway /\ requests' = <<>> /\ place' \in {next, "waiting", "gone"}
                        /\ Head(requests).kind = kind
  <2>1. {"listening", "closing", "room"} \subseteq Places
    BY DEF Places
  <2> QED  BY <1>1, <2>1, HandledInOrder
<1>3. Underway /\ CallbackReports(kept) = {}
  BY <1>1 DEF CallbackComesLast, Underway
<1>4. Earlier' = Earlier /\ Earlier \in {0, 1}
  BY <1>1 DEF Earlier
<1>5. /\ kept.info.topic = asked
      /\ Len(kept.said) = Earlier + 1
      /\ kept.info.conversation = IF Earlier = 1 THEN Capped(kept.said[1]) ELSE <<>>
      /\ kind # "callback" => asked = kind
      /\ kind = "callback" => asked # "nothing"
  BY <1>3 DEF DialogInOrder
\* What a dialog that goes on leaves as it is.
<1>6. ASSUME NEW s, GoesOn(kept, s)
      PROVE  /\ s.conversation # <<>> /\ Len(s.said) = Earlier + 1 /\ s.info.topic = asked
             /\ s.info.conversation = IF Earlier = 1 THEN Capped(s.said[1]) ELSE <<>>
             /\ CallbackReports(s) = {}
  <2>1. Earlier = 1 => s.said[1] = kept.said[1]
    BY <1>5, <1>6 DEF GoesOn, Continued
  <2>2. CallbackReports(s) = {}
    BY <1>3, <1>6 DEF CallbackReports, GoesOn
  <2> QED  BY <1>5, <1>6, <2>1, <2>2 DEF GoesOn, Continued
<1>7. CASE Answer("listening") /\ GoesOn(kept, kept')
  <2>1. requests' = <<>> /\ place' \in {"listening", "waiting", "gone"}
    BY <1>2, <1>7
  <2>2. CallbackReports(kept') = {}
    BY <1>6, <1>7
  <2>3. RoomInOrder' /\ CallbackComesLast'
    BY <2>1, <2>2 DEF RoomInOrder, CallbackComesLast
  <2>4. DialogInOrder'
    <3>1. /\ kept'.conversation # <<>> /\ Len(kept'.said) = Earlier + 1
          /\ kept'.info.topic = asked
          /\ kept'.info.conversation = IF Earlier = 1 THEN Capped(kept'.said[1]) ELSE <<>>
      BY <1>6, <1>7
    <3> QED  BY <1>1, <1>4, <1>5, <2>1, <3>1, EmptyQueue DEF DialogInOrder
  <2> QED  BY <2>3, <2>4
<1>8. CASE Answer("closing") /\ kept'.reports = kept.reports
  BY <1>2, <1>3, <1>8, NoNewReport, QuietStep
<1>9. ASSUME NEW k \in Seen(Head(requests).kind), NEW next \in {"room", "closing"},
             NEW s \in KeptStates,
             Answer(next), next = "room" => k \in {"topic", "demoTopic"},
             GoesOn(kept, s), Concluded(s, kept', k)
      PROVE  DialogInOrder' /\ RoomInOrder' /\ CallbackComesLast'
  <2>1. /\ requests' = <<>> /\ place' \in {next, "waiting", "gone"}
        /\ k \in Seen(kind)
    BY <1>2, <1>9
  <2>2. k = "callback" <=> kind = "callback"
    BY <2>1 DEF Seen
  <2> DEFINE own == Capped(s.said[Earlier + 1])
  <2>3. /\ kept'.said = s.said /\ kept'.conversation = <<>> /\ kept'.info.topic = asked
        /\ kept'.info.conversation = own
    BY <1>6, <1>9 DEF Concluded
  <2>4. ASSUME NEW i \in CallbackReports(kept') PROVE TellsAll(kept.reports[i])'
    <3>1. i \notin DOMAIN s.reports \/ s.reports[i].kind # "callback"
      BY <1>6, <1>9 DEF CallbackReports
    <3>2. /\ kept'.reports[i].kind = k /\ kept'.reports[i].topic = asked
          /\ k = "callback" => kept'.reports[i].conversation = s.info.conversation \o own
      BY <1>6, <1>9, <3>1 DEF CallbackReports, Concluded
    <3>3. k = "callback"
      BY <3>2 DEF CallbackReports
    <3>4. kept'.reports[i].conversation = s.info.conversation \o own
      BY <3>2, <3>3
    <3>5. CASE asked = "direct"
      <4>1. Earlier = 0 /\ s.info.conversation = <<>> /\ s.said[1] \in Seq(Messages)
        BY <1>6, <1>9, <3>5, Fields DEF Earlier
      <4>2. Capped(s.said[1]) \in Seq(Messages)
        BY <4>1, CappedType
      <4>3. kept'.reports[i].conversation = Capped(kept'.said[1])
        BY <2>3, <3>4, <4>1, <4>2, ConcatEmptySeq
      <4> QED  BY <1>1, <3>2, <3>5, <4>3 DEF TellsAll
    <3>6. CASE asked # "direct"
      <4>1. Earlier = 1
        BY <2>2, <3>3, <3>6 DEF Earlier
      <4>2. kept'.reports[i].conversation = Capped(kept'.said[1]) \o Capped(kept'.said[2])
        <5>1. s.info.conversation = Capped(s.said[1]) /\ own = Capped(s.said[2])
          BY <1>6, <1>9, <4>1
        <5> QED  BY <2>3, <3>4, <5>1
      <4> QED  BY <1>1, <3>2, <3>6, <4>2 DEF TellsAll
    <3> QED  BY <3>5, <3>6
  <2>5. CASE place' # "room"
    BY <2>1, <2>4, <2>5, QuietStep
  <2>6. CASE place' = "room"
    <3>1. next = "room" /\ k \in {"topic", "demoTopic"}
      BY <1>9, <2>1, <2>6
    <3>2. kind # "callback" /\ asked = kind /\ Earlier = 0 /\ kind \in Kinds
      BY <1>5, <2>2, <3>1 DEF Earlier, TypeOK
    <3>3. CallbackReports(kept') = {}
      <4>1. \A i \in CallbackReports(kept') : k = "callback"
        <5> SUFFICES ASSUME NEW i \in CallbackReports(kept') PROVE k = "callback"
          OBVIOUS
        <5>1. i \notin DOMAIN s.reports \/ s.reports[i].kind # "callback"
          BY <1>6, <1>9 DEF CallbackReports
        <5>2. kept'.reports[i].kind = k
          BY <1>9, <5>1 DEF CallbackReports, Concluded
        <5> QED  BY <5>2 DEF CallbackReports
      <4> QED  BY <3>1, <4>1
    <3>4. asked # "nothing" /\ asked # "direct"
      BY <3>2 DEF Kinds
    <3>5. ~Underway'
      BY <2>1, <2>6 DEF Underway
    <3>6. DialogInOrder' /\ CallbackComesLast'
      BY <2>4, <2>6, <3>3, <3>5 DEF DialogInOrder, CallbackComesLast
    <3>7. RoomInOrder'
      BY <1>1, <1>6, <1>9, <2>1, <2>3, <3>2, <3>4 DEF RoomInOrder
    <3> QED  BY <3>6, <3>7
  <2> QED  BY <2>5, <2>6
<1> QED  BY <1>7, <1>8, <1>9, RespondRecords

\* A request arrives, in a dialog that goes on or in a new one.
LEMMA RequestInOrder ==
  ASSUME NEW handler \in {"gather", "respond"}, NEW k \in Kinds,
         requests' = Append(<<>>, Request(handler, k)), kind' = k
  PROVE  Underway' /\ Len(requests') = 1 /\ Head(requests').kind = kind'
<1>1. Request(handler, k) \in Requests /\ Request(handler, k).kind = k
  BY RequestType DEF Request
<1> DEFINE r == Request(handler, k)
<1> HIDE DEF r
<1>2. Append(<<>>, r) = <<r>> /\ <<r>> # <<>> /\ Len(<<r>>) = 1 /\ Head(<<r>>) = r
  OBVIOUS
<1> QED  BY <1>1, <1>2 DEF r, Underway

\* Requests that nobody waits for are as many and of the same kinds.
LEMMA DroppedEmpty ==
  ASSUME TypeOK
  PROVE  /\ Dropped(requests) # <<>> => requests # <<>>
         /\ requests # <<>> => /\ Len(Dropped(requests)) = Len(requests)
                              /\ Head(Dropped(requests)).kind = Head(requests).kind
<1>1. requests \in Seq(Requests)
  BY DEF TypeOK
<1>2. PICK n \in Nat : n = Len(requests) /\ DOMAIN requests = 1..n
  BY <1>1, LenProperties
<1>3. Dropped(requests) \in Seq(Requests) /\ DOMAIN Dropped(requests) = 1..n
  BY <1>1, <1>2, DroppedType
<1>4. Len(Dropped(requests)) = n
  BY <1>3, LenProperties
<1>5. ASSUME requests # <<>> PROVE Head(Dropped(requests)).kind = Head(requests).kind
  <2>1. n > 0 /\ 1 \in DOMAIN requests /\ Dropped(requests) # <<>>
    BY <1>1, <1>2, <1>4, <1>5, EmptySeq
  <2>2. Head(Dropped(requests)) = Dropped(requests)[1] /\ Head(requests) = requests[1]
    BY <1>1, <1>2, <1>3, <1>4, <2>1
  <2>3. Dropped(requests)[1] = [requests[1] EXCEPT !.live = FALSE]
    BY <2>1 DEF Dropped
  <2>4. requests[1] \in Requests
    BY <1>1, <1>2, <2>1
  <2> QED  BY <2>2, <2>3, <2>4 DEF Requests
<1>6. Dropped(requests) # <<>> => requests # <<>>
  BY <1>1, <1>2, <1>3, <1>4, EmptySeq
<1> QED  BY <1>2, <1>4, <1>5, <1>6

LEMMA OrderedStep ==
  ASSUME TypeOK, Held(kept), RequestsInOrder, DialogsInOrder, [Next]_vars
  PROVE  DialogsInOrder'
<1> USE DEF TypeOK
<1>1. SUFFICES ASSUME redirects' = 0, ~expired'
               PROVE  DialogInOrder' /\ RoomInOrder' /\ CallbackComesLast'
  BY DEF DialogsInOrder
<1>2. ~expired
  BY <1>1, ExpiredStays
<1>3. redirects = 0 /\ ~Redirected
  <2>1. Redirected => redirects' = redirects + 1
    BY DEF Redirected
  <2>2. ~Redirected => redirects' = redirects
    BY StepCases DEF PhoneStep, Menu, DirectTransfer, Speaks, Goes, NoAvailability, Briefed,
                     Expire, AiGather, AiRespond, vars
  <2> QED  BY <1>1, <2>1, <2>2
<1>4. /\ UtterancesComeFirst /\ ConversationIsThere /\ MenuComesFirst
      /\ DialogInOrder /\ RoomInOrder /\ CallbackComesLast
  BY <1>2, <1>3 DEF RequestsInOrder, DialogsInOrder
<1>5. CASE AiGather
  BY <1>4, <1>5, GatherInOrder
<1>6. CASE AiRespond
  <2>1. kept.conversation # <<>>
    BY <1>2, <1>4, <1>6 DEF ConversationIsThere, AiRespond
  <2> QED  BY <1>4, <1>6, <2>1, RespondInOrder
<1>7. ASSUME NEW k \in Kinds \ {"callback"}, Menu(k)
      PROVE  DialogInOrder' /\ RoomInOrder' /\ CallbackComesLast'
  <2>1. requests = <<>> /\ kept.info = FreshInfo
    BY <1>4, <1>7 DEF Menu, UtterancesComeFirst, MenuComesFirst
  <2>2. Underway' /\ Len(requests') = 1 /\ Head(requests').kind = kind'
    BY <1>7, <2>1, RequestInOrder DEF Menu
  <2>3. /\ kept.info.topic = "" /\ kept.info.conversation = <<>> /\ kept.said = <<>>
        /\ kept.conversation = <<>> /\ CallbackReports(kept) = {}
    <3>1. FreshInfo.topic = "" /\ FreshInfo.conversation = <<>>
      BY DEF FreshInfo
    <3> QED  BY <1>4, <1>7, <2>1, <3>1 DEF Menu, CallbackComesLast
  <2>4. /\ kind' = k /\ asked' = k /\ k # "callback" /\ kept' = kept /\ place' = "waiting"
    BY <1>7 DEF Menu
  <2>5. Earlier' = 0
    BY <2>4 DEF Earlier
  <2>6. Len(kept'.said) = 0
    BY <2>3, <2>4, EmptyQueue
  <2>7. DialogInOrder'
    <3>1. /\ Len(kept'.said) = IF kept'.conversation = <<>> THEN Earlier' ELSE Earlier' + 1
          /\ kept'.info.conversation = IF Earlier' = 1 THEN Capped(kept'.said[1]) ELSE <<>>
      <4>1. kept'.conversation = <<>> /\ Len(kept'.said) = Earlier'
        BY <2>3, <2>4, <2>5, <2>6
      <4>2. kept'.info.conversation = <<>> /\ Earlier' # 1
        <5>1. kept'.info.conversation = <<>>
          BY <2>3, <2>4
        <5>2. Earlier' # 1
          BY <2>5
        <5> QED  BY <5>1, <5>2
      <4> QED  BY <4>1, <4>2
    <3>2. kept'.info.topic = "" /\ kept'.conversation = <<>>
      BY <2>3, <2>4
    <3>3. kind' # "callback" /\ asked' = kind'
      BY <2>4
    <3>4. Len(requests') <= 1
      BY <2>2
    <3> QED  BY <2>2, <3>1, <3>2, <3>3, <3>4 DEF DialogInOrder
  <2>8. CallbackReports(kept') = {}
    BY <2>3, <2>4, NoNewReport
  <2>9. CallbackComesLast' /\ RoomInOrder'
    BY <2>4, <2>8 DEF CallbackComesLast, RoomInOrder
  <2> QED  BY <2>7, <2>9
<1>8. CASE DirectTransfer
  <2>1. /\ requests = <<>> /\ kept.said = <<>> /\ kept.conversation = <<>> /\ kind # "callback"
        /\ CallbackReports(kept) = {}
    BY <1>4, <1>8 DEF DirectTransfer, UtterancesComeFirst, CallbackComesLast
  <2> DEFINE info == [FreshInfo EXCEPT !.contact = TRUE, !.topic = "direct"]
  <2>2. info.topic = "direct" /\ info.conversation = <<>>
    BY DEF FreshInfo
  <2>3. kept' = [kept EXCEPT !.info = info]
    BY <1>8 DEF DirectTransfer
  <2> HIDE DEF info
  <2>4. /\ kept'.said = <<>> /\ kept'.conversation = <<>> /\ kept'.reports = kept.reports
        /\ kept'.info.topic = "direct" /\ kept'.info.conversation = <<>>
    BY <2>1, <2>2, <2>3 DEF KeptStates
  <2>5. /\ place' = "room" /\ asked' = "direct" /\ requests' = <<>> /\ kind' # "callback"
    BY <1>8, <2>1 DEF DirectTransfer
  <2>6. CallbackReports(kept') = {}
    BY <2>1, <2>4, NoNewReport
  <2>7. ~Underway'
    BY <2>5 DEF Underway
  <2> QED  BY <2>4, <2>5, <2>6, <2>7 DEF DialogInOrder, RoomInOrder, CallbackComesLast
<1>9. CASE Speaks
  <2>1. requests = <<>> /\ Underway
    BY <1>4, <1>9 DEF Speaks, UtterancesComeFirst, Underway
  <2>2. Underway' /\ Len(requests') = 1 /\ Head(requests').kind = kind'
    BY <1>9, <2>1, RequestInOrder DEF Speaks
  <2>3. /\ kind' = kind /\ asked' = asked /\ kept' = kept /\ place' = "waiting"
    BY <1>9 DEF Speaks
  <2>4. Earlier' = Earlier
    BY <2>3 DEF Earlier
  <2>5. CallbackReports(kept) = {}
    BY <1>4, <2>1 DEF CallbackComesLast
  <2>6. DialogInOrder'
    <3>1. /\ Len(kept.said) = IF kept.conversation = <<>> THEN Earlier ELSE Earlier + 1
          /\ kept.info.conversation = IF Earlier = 1 THEN Capped(kept.said[1]) ELSE <<>>
          /\ \/ kept.info.topic = asked
             \/ kept.info.topic = "" /\ kept.conversation = <<>> /\ kind # "callback"
          /\ kind # "callback" => asked = kind
          /\ kind = "callback" => asked # "nothing"
      BY <1>4, <2>1 DEF DialogInOrder
    <3>2. /\ Len(kept'.said) = IF kept'.conversation = <<>> THEN Earlier' ELSE Earlier' + 1
          /\ kept'.info.conversation = IF Earlier' = 1 THEN Capped(kept'.said[1]) ELSE <<>>
          /\ \/ kept'.info.topic = asked'
             \/ kept'.info.topic = "" /\ kept'.conversation = <<>> /\ kind' # "callback"
          /\ kind' # "callback" => asked' = kind'
          /\ kind' = "callback" => asked' # "nothing"
      BY <2>3, <2>4, <3>1
    <3>3. Len(requests') <= 1
      BY <2>2
    <3> QED  BY <2>2, <3>2, <3>3 DEF DialogInOrder
  <2> QED  BY <2>3, <2>5, <2>6 DEF RoomInOrder, CallbackComesLast
<1>10. CASE Goes
  <2>1. /\ kind' = kind /\ asked' = asked /\ kept' = kept /\ place' = "gone"
        /\ requests' = Dropped(requests)
    BY <1>10 DEF Goes
  <2>2. Underway' => Underway /\ requests # <<>>
    BY <2>1, DroppedEmpty DEF Underway
  <2>3. requests # <<>> => /\ Len(Dropped(requests)) = Len(requests)
                           /\ Head(Dropped(requests)).kind = Head(requests).kind
    BY DroppedEmpty
  <2>4. Earlier' = Earlier
    BY <2>1 DEF Earlier
  <2>5. DialogInOrder'
    BY <1>4, <2>1, <2>2, <2>3, <2>4 DEF DialogInOrder
  <2>6. \A i \in CallbackReports(kept') : TellsAll(kept.reports[i])'
    BY <1>4, <2>1 DEF CallbackComesLast, TellsAll
  <2>7. CallbackComesLast'
    BY <1>4, <2>1, <2>2, <2>6 DEF CallbackComesLast
  <2> QED  BY <2>1, <2>5, <2>7 DEF RoomInOrder
<1>11. CASE NoAvailability
  <2>1. /\ requests = <<>> /\ kind # "callback" /\ asked # "nothing" /\ kept.conversation = <<>>
        /\ kept.info.topic = asked /\ CallbackReports(kept) = {}
        /\ IF asked = "direct" THEN kept.said = <<>> /\ kept.info.conversation = <<>>
           ELSE Len(kept.said) = 1 /\ kept.info.conversation = Capped(kept.said[1])
    BY <1>4, <1>11 DEF NoAvailability, RoomInOrder, CallbackComesLast
  <2>2. "callback" \in Kinds
    BY DEF Kinds
  <2>3. Underway' /\ Len(requests') = 1 /\ Head(requests').kind = kind'
    BY <1>11, <2>1, <2>2, RequestInOrder DEF NoAvailability
  <2>4. /\ kind' = "callback" /\ asked' = asked /\ kept' = kept /\ place' = "waiting"
    BY <1>11 DEF NoAvailability
  <2>5. Earlier' = IF asked = "direct" THEN 0 ELSE 1
    BY <2>4 DEF Earlier
  <2>6. Len(kept'.said) = Earlier'
    BY <2>1, <2>4, <2>5, EmptyQueue
  <2>7. kept'.info.conversation = IF Earlier' = 1 THEN Capped(kept'.said[1]) ELSE <<>>
    BY <2>1, <2>4, <2>5
  <2>8. DialogInOrder'
    BY <2>1, <2>3, <2>4, <2>6, <2>7 DEF DialogInOrder
  <2>9. CallbackReports(kept') = {}
    BY <2>1, <2>4, NoNewReport
  <2>10. CallbackComesLast' /\ RoomInOrder'
    BY <2>4, <2>9 DEF CallbackComesLast, RoomInOrder
  <2> QED  BY <2>8, <2>10
<1>12. ASSUME UNCHANGED <<place, requests, kind, asked>>, kept'.said = kept.said,
              kept'.conversation = kept.conversation, kept'.reports = kept.reports,
              kept'.info.topic = kept.info.topic,
              kept'.info.conversation = kept.info.conversation
       PROVE  DialogInOrder' /\ RoomInOrder' /\ CallbackComesLast'
  <2>1. Underway' = Underway /\ Earlier' = Earlier
    BY <1>12 DEF Underway, Earlier
  <2>2. CallbackReports(kept') = CallbackReports(kept)
    BY <1>12 DEF CallbackReports
  <2>3. DialogInOrder'
    BY <1>4, <1>12, <2>1 DEF DialogInOrder
  <2>4. RoomInOrder'
    BY <1>4, <1>12 DEF RoomInOrder
  <2>5. \A i \in CallbackReports(kept') : TellsAll(kept.reports[i])'
    BY <1>4, <1>12, <2>2 DEF CallbackComesLast, TellsAll
  <2>6. CallbackComesLast'
    BY <1>4, <1>12, <2>1, <2>2, <2>5 DEF CallbackComesLast
  <2> QED  BY <2>3, <2>4, <2>6
<1>13. CASE Briefed
  <2>1. /\ kept'.said = kept.said /\ kept'.conversation = kept.conversation
        /\ kept'.reports = kept.reports /\ kept'.info.topic = kept.info.topic
        /\ kept'.info.conversation = kept.info.conversation
    BY <1>13 DEF Briefed, KeptStates, Infos
  <2> QED  BY <1>12, <1>13, <2>1 DEF Briefed
<1>14. CASE UNCHANGED vars
  BY <1>12, <1>14 DEF vars
<1>15. ~Expire
  BY <1>1 DEF Expire
<1> QED  BY <1>3, <1>5, <1>6, <1>7, <1>8, <1>9, <1>10, <1>11, <1>13, <1>14, <1>15, StepCases
         DEF PhoneStep

LEMMA InitOrdered == Init => DialogsInOrder
<1> SUFFICES ASSUME Init PROVE DialogsInOrder
  OBVIOUS
<1>1. /\ place = "menu" /\ requests = <<>> /\ kind = "topic"
      /\ kept.said = <<>> /\ kept.reports = <<>> /\ kept.conversation = <<>>
  BY DEF Init
<1>2. CallbackReports(kept) = {}
  BY <1>1 DEF CallbackReports
<1> QED  BY <1>1, <1>2 DEF DialogsInOrder, DialogInOrder, RoomInOrder, CallbackComesLast, Underway

-----------------------------------------------------------------------------
(***************************************************************************)
(* The theorems.                                                           *)
(***************************************************************************)

\* The inductive invariant: requests are handled in order, what is kept of a dialog
\* is what was said in it, and only dialogs that are over are moved to the info
\* and reported, the callback dialog last.
THEOREM InductiveInvariant == Spec => []Inductive
<1> DEFINE Invariant == TypeOK /\ WellKept(kept) /\ RequestsInOrder /\ Held(kept) /\ DialogsInOrder
<1>1. Invariant /\ [Next]_vars => Invariant'
  BY TypeStep, OrderStep, HeldStep, OrderedStep DEF WellKept, Held
<1>2. Init => Invariant
  BY InitTypes, InitOrder, InitHeld, InitOrdered
<1>3. Invariant => Inductive
  BY DEF Inductive, Held, ConversationAlternates
<1> HIDE DEF Invariant
<1> QED  BY <1>1, <1>2, <1>3, PTL DEF Spec

\* The LLM is never shown a question without its answer, also not after a request
\* that failed half way, a hang-up or an expiry, however many messages are kept.
THEOREM QuestionsAndAnswers == Spec => []ConversationAlternates
<1>1. Inductive => ConversationAlternates
  BY DEF Inductive
<1> QED  BY <1>1, InductiveInvariant, PTL

\* A report holds its own dialog as it was held, after at most one earlier dialog:
\* nothing is added to a dialog once it has been moved to the info.
THEOREM FaithfulReports == Spec => []ReportsAreFaithful
<1>1. Inductive => ReportsAreFaithful
  BY DEF Inductive, Recorded, Closed, ReportsAreFaithful
<1> QED  BY <1>1, InductiveInvariant, PTL

\* The report of a callback holds the pre-screening and the callback dialog, under
\* the topic that the caller asked about.
THEOREM CallbacksToldAll == Spec => []CallbackReportTellsAll
<1>1. Inductive => CallbackReportTellsAll
  BY DEF Inductive, DialogsInOrder, CallbackComesLast, CallbackReports, CallbackReportTellsAll
<1> QED  BY <1>1, InductiveInvariant, PTL

=============================================================================
