------------------------- MODULE UserAccounts_proofs ------------------------
(***************************************************************************)
(* Proofs about UserAccounts, for any number of workers, people, ids and   *)
(* faults.                                                                 *)
(***************************************************************************)
EXTENDS UserAccounts, FiniteSetTheorems, TLAPS

Requests ==
  [next : Transactions \cup {"none"}, by : Emails, id : Nat,
   email : Emails, role : Roles \cup {"gone", "link"}]

MailLinks == {"setup", "user"} \X (0..(MaxSetups + OldToken))

\* The transactions that insert a row, and those that are about one
RowInserts == {"insert admin", "create"}
AboutUser == {"clear setup", "set email", "set phone", "activate", "mail", "update", "delete"}

\* What a handler holds fits its next transaction.
Handed(r) ==
  /\ r \in Requests
  /\ r.next = "save setup" => r.id \in 1..MaxSetups
  /\ r.next \in AboutUser => r.id \in Ids

\* The workers about to insert a row, each with an id set aside for it
Inserting == {w \in Workers : req[w].next \in RowInserts}

IdsReserved == lastId + Cardinality(Inserting) <= MaxUsers

Typed ==
  /\ TypeOK
  /\ \A w \in Workers : Handed(req[w])
  /\ IdsReserved

-----------------------------------------------------------------------------
(***************************************************************************)
(* Types                                                                   *)
(***************************************************************************)
LEMMA Constants ==
  /\ IsFiniteSet(Workers) /\ MaxUsers \in Nat /\ MaxSetups \in Nat /\ MaxFaults \in Nat
  /\ 1 \in Ids /\ 2 \in Ids /\ Ids \subseteq Nat /\ Nobody \notin Ids
  /\ OldToken \in Nat /\ Anyone \in Emails
BY UserAccountsAssumption DEF Ids, OldToken, Anyone, Nobody

LEMMA IdleHanded == Handed(Idle)
BY Constants DEF Handed, Idle, Requests, AboutUser, Nobody, Roles

LEMMA InsertingFinite ==
  ASSUME TypeOK
  PROVE  /\ IsFiniteSet(Inserting)
         /\ Cardinality(Inserting) \in Nat
         /\ \A w \in Inserting : Cardinality(Inserting \ {w}) = Cardinality(Inserting) - 1
         /\ \A w \in Workers : Cardinality(Inserting \cup {w}) <= Cardinality(Inserting) + 1
         /\ \A S \in SUBSET Inserting : Cardinality(S) \in Nat /\ Cardinality(S) <= Cardinality(Inserting)
<1>1. IsFiniteSet(Inserting)
  BY Constants, FS_Subset DEF Inserting
<1>2. Cardinality(Inserting) \in Nat
  BY <1>1, FS_CardinalityType
<1>3. \A w \in Workers : Cardinality(Inserting \cup {w}) <= Cardinality(Inserting) + 1
  <2> SUFFICES ASSUME NEW w \in Workers
               PROVE  Cardinality(Inserting \cup {w}) <= Cardinality(Inserting) + 1
    OBVIOUS
  <2>1. Cardinality(Inserting \cup {w}) =
          IF w \in Inserting THEN Cardinality(Inserting) ELSE Cardinality(Inserting) + 1
    BY <1>1, FS_AddElement
  <2>2. QED
    BY <1>2, <2>1
<1>4. \A w \in Inserting : Cardinality(Inserting \ {w}) = Cardinality(Inserting) - 1
  BY <1>1, <1>2, FS_RemoveElement
<1>5. \A S \in SUBSET Inserting : Cardinality(S) \in Nat /\ Cardinality(S) <= Cardinality(Inserting)
  BY <1>1, FS_Subset, FS_CardinalityType
<1>6. QED
  BY <1>1, <1>2, <1>3, <1>4, <1>5

\* An id that is set aside is there.
LEMMA NextIdIsThere ==
  ASSUME Typed, NEW w \in Workers, req[w].next \in RowInserts
  PROVE  lastId + 1 \in Ids
<1>1. w \in Inserting
  BY DEF Inserting
<1>2. Cardinality(Inserting) >= 1
  <2>1. Inserting # {}
    BY <1>1
  <2>2. Cardinality(Inserting) # 0
    BY <2>1, InsertingFinite, FS_EmptySet DEF Typed
  <2>3. QED
    BY <2>2, InsertingFinite DEF Typed
<1>3. QED
  BY <1>2, Constants, InsertingFinite DEF Typed, TypeOK, IdsReserved, Ids

LEMMA TypeInit == ASSUME Init PROVE Typed
<1>1. TypeOK
  <2>1. users \in [Ids -> User \cup {NoUser}] /\ invited \subseteq Ids
    <3>1. CASE users = [i \in Ids |-> NoUser] /\ invited = {}
      BY <3>1
    <3>2. ASSUME NEW e \in Emails, NEW f \in Emails, invited = {2},
                 users = [i \in Ids |-> CASE i = 1 -> Row(e, "admin", TRUE, TRUE, NoToken)
                                           [] i = 2 -> Row(f, "manager", FALSE, FALSE, OldToken)
                                           [] OTHER -> NoUser]
          PROVE  users \in [Ids -> User \cup {NoUser}] /\ invited \subseteq Ids
      <4>1. /\ Row(e, "admin", TRUE, TRUE, NoToken) \in User
            /\ Row(f, "manager", FALSE, FALSE, OldToken) \in User
        BY DEF Row, User, Roles
      <4>2. \A i \in Ids : users[i] \in User \cup {NoUser}
        BY <3>2, <4>1
      <4>3. QED
        BY <3>2, <4>2, Constants
    <3>3. QED
      BY <3>1, <3>2 DEF Init
  <2>2. links \subseteq MailLinks
    <3>1. <<"user", OldToken>> \in MailLinks
      BY Constants DEF MailLinks
    <3>2. links \subseteq {<<"user", OldToken>>}
      BY DEF Init
    <3>3. QED
      BY <3>1, <3>2
  <2>3. req \in [Workers -> Requests]
    BY IdleHanded DEF Init, Handed
  <2>4. session \in [Emails -> Ids \cup {Nobody}]
    BY DEF Init
  <2>5. lastId \in 0..MaxUsers /\ setups \in 0..MaxSetups /\ faults \in 0..MaxFaults
    BY Constants DEF Init
  <2>6. QED
    BY <2>1, <2>2, <2>3, <2>4, <2>5 DEF Init, TypeOK, Requests, MailLinks
<1>2. IdsReserved
  <2>1. Inserting = {}
    BY DEF Init, Inserting, Idle, RowInserts
  <2>2. QED
    BY <2>1, FS_EmptySet, Constants DEF Init, IdsReserved
<1>3. QED
  BY <1>1, <1>2, IdleHanded DEF Typed, Init

\* What a request for a page does: it leaves a worker with a first transaction.
FirstOf(r) == r.next \notin {"none", "activate", "clear setup", "mail"}

LEMMA SetupAsks ==
  ASSUME Typed, NEW w \in Workers, NEW e \in Emails, Setup(w, e)
  PROVE  /\ req[w] = Idle
         /\ \E r : /\ Handed(r) /\ FirstOf(r) /\ r.next \notin RowInserts
                   /\ req' = [req EXCEPT ![w] = r]
         /\ UNCHANGED <<database, session, faults, ghosts>>
         /\ setups' \in 0..MaxSetups
         /\ links' \subseteq MailLinks
<1>1. setups \in 0..MaxSetups /\ setups < MaxSetups /\ setups' = setups + 1
  BY DEF Setup, Typed, TypeOK
<1>2. setups + 1 \in 1..MaxSetups /\ setups' \in 0..MaxSetups /\ setups + 1 \in Nat
  BY <1>1, Constants
<1>3. links' \subseteq MailLinks
  <2>1. <<"setup", setups + 1>> \in MailLinks
    BY <1>2, Constants DEF MailLinks
  <2>2. QED
    BY <2>1 DEF Setup, Typed, TypeOK, MailLinks
<1>4. DEFINE r == [next |-> "save setup", by |-> Anyone, id |-> setups + 1, email |-> e,
                   role |-> "manager"]
<1>5. Handed(r) /\ FirstOf(r) /\ r.next \notin RowInserts
  BY <1>2, Constants
  DEF Handed, FirstOf, Requests, AboutUser, RowInserts, Transactions, Roles
<1>6. req[w] = Idle /\ req' = [req EXCEPT ![w] = r]
  BY DEF Setup, Begins
<1>7. QED
  BY <1>2, <1>3, <1>5, <1>6 DEF Setup

LEMMA AsksAre ==
  ASSUME Typed, NEW w \in Workers, Asks(w)
  PROVE  /\ req[w] = Idle
         /\ \E r : /\ Handed(r) /\ FirstOf(r)
                   /\ r.next \in RowInserts => IdsLeft
                   /\ req' = [req EXCEPT ![w] = r]
         /\ UNCHANGED <<database, session, faults, ghosts>>
         /\ setups' \in 0..MaxSetups
         /\ links' \subseteq MailLinks
<1> USE Constants DEF Handed, FirstOf, Requests, AboutUser, RowInserts, Transactions, Roles, Begins
<1>1. CASE FollowSetupLink(w)
  <2>1. pending.email \in Emails
    BY <1>1 DEF FollowSetupLink, Typed, TypeOK
  <2>2. QED
    BY <1>1, <2>1 DEF FollowSetupLink, Typed, TypeOK, MailLinks, outside, Nobody
<1>2. CASE \E e \in Emails : Setup(w, e)
  BY <1>2, SetupAsks
<1>3. CASE \E e \in Emails : Reset(w, e)
  BY <1>3 DEF Reset, Typed, TypeOK, MailLinks, outside, Nobody
<1>4. CASE \E e, email \in Emails, role \in Roles : Create(w, e, email, role)
  BY <1>4 DEF Create, Typed, TypeOK, MailLinks, outside, Nobody
<1>5. CASE \E e \in Emails, i \in Ids : EnterPhoneCode(w, e, i)
  BY <1>5 DEF EnterPhoneCode, Typed, TypeOK, MailLinks, outside
<1>6. CASE \E e \in Emails, i \in Ids : Delete(w, e, i)
  BY <1>6 DEF Delete, Typed, TypeOK, MailLinks, outside
<1>7. CASE \E e \in Emails, i \in Ids, role \in Roles : Patch(w, e, i, role)
  BY <1>7 DEF Patch, Typed, TypeOK, MailLinks, outside
<1>8. CASE \E i \in Ids : FollowUserLink(w, i)
  <2>1. \A i \in Ids : Exists(i) => users[i].email \in Emails
    BY DEF Exists, Typed, TypeOK, User
  <2>2. QED
    BY <1>8, <2>1 DEF FollowUserLink, Typed, TypeOK, MailLinks, outside
<1>9. QED
  BY <1>1, <1>2, <1>3, <1>4, <1>5, <1>6, <1>7, <1>8 DEF Asks

\* What a worker has in hand changes for this worker alone.
LEMMA RequestStep ==
  ASSUME Typed, NEW w \in Workers, NEW r, Handed(r), req' = [req EXCEPT ![w] = r]
  PROVE  /\ req' \in [Workers -> Requests]
         /\ \A v \in Workers : Handed(req'[v])
         /\ r.next \notin RowInserts => Inserting' = Inserting \ {w}
         /\ r.next \in RowInserts => Inserting' = Inserting \cup {w}
<1>1. /\ req' \in [Workers -> Requests]
      /\ \A v \in Workers : req'[v] = IF v = w THEN r ELSE req[v]
  BY DEF Typed, TypeOK, Requests, Handed
<1>2. \A v \in Workers : Handed(req'[v])
  BY <1>1 DEF Typed
<1>3. QED
  BY <1>1, <1>2 DEF Inserting

\* A handler goes on, or ends: with its worker's next request.
LEMMA HandlerStep ==
  ASSUME Typed, NEW w \in Workers,
         \/ Ends(w)
         \/ Goes(w, "activate") /\ req[w].id \in Ids
         \/ \E next \in {"clear setup", "mail"}, i \in Ids :
              req' = [req EXCEPT ![w].next = next, ![w].id = i]
  PROVE  /\ req' \in [Workers -> Requests]
         /\ \A v \in Workers : Handed(req'[v])
         /\ Inserting' = Inserting \ {w}
         /\ \A v \in Workers : v # w => req'[v] = req[v]
<1>0. req \in [Workers -> Requests]
  BY DEF Typed, TypeOK, Requests
<1>1. CASE Ends(w)
  <2>1. Idle.next \notin RowInserts
    BY DEF Idle, RowInserts
  <2>2. QED
    BY <1>0, <1>1, <2>1, IdleHanded, RequestStep DEF Ends
<1>2. CASE Goes(w, "activate") /\ req[w].id \in Ids
  <2>1. DEFINE r == [req[w] EXCEPT !.next = "activate"]
  <2>2. Handed(r) /\ r.next \notin RowInserts
    BY <1>0, <1>2 DEF Handed, Requests, Transactions, RowInserts
  <2>3. req' = [req EXCEPT ![w] = r]
    BY <1>0, <1>2 DEF Goes
  <2>4. QED
    BY <1>0, <2>2, <2>3, RequestStep
<1>3. ASSUME NEW next \in {"clear setup", "mail"}, NEW i \in Ids,
             req' = [req EXCEPT ![w].next = next, ![w].id = i]
      PROVE  /\ req' \in [Workers -> Requests]
             /\ \A v \in Workers : Handed(req'[v])
             /\ Inserting' = Inserting \ {w}
             /\ \A v \in Workers : v # w => req'[v] = req[v]
  <2>1. DEFINE r == [req[w] EXCEPT !.next = next, !.id = i]
  <2>2. Handed(r) /\ r.next \notin RowInserts
    <3>1. r.next = next /\ r.id = i /\ r \in Requests
      <4>1. req[w] \in Requests /\ next \in Transactions /\ i \in Nat
        BY <1>0, Constants DEF Transactions
      <4>2. QED
        BY <4>1 DEF Requests
    <3>2. QED
      BY <3>1 DEF Handed, RowInserts
  <2>3. req' = [req EXCEPT ![w] = r]
    BY <1>0, <1>3 DEF Requests
  <2>4. QED
    BY <1>0, <2>2, <2>3, RequestStep
<1>4. QED
  BY <1>1, <1>2, <1>3

LEMMA UpdatedTypes ==
  ASSUME Typed, NEW i \in Ids, NEW row, Exists(i) => row \in User, Updated(i, row)
  PROVE  users' \in [Ids -> User \cup {NoUser}]
BY DEF Typed, TypeOK, Updated

\* A row inserted, or the number used up
LEMMA InsertedTypes ==
  ASSUME Typed, NEW w \in Workers, req[w].next \in RowInserts,
         NEW row, row.role \in Roles => row \in User, Inserts(row)
  PROVE  /\ users' \in [Ids -> User \cup {NoUser}]
         /\ lastId' = lastId + 1 /\ lastId' \in 0..MaxUsers /\ lastId + 1 \in Ids
<1>1. lastId + 1 \in Ids
  BY NextIdIsThere
<1>2. lastId' = lastId + 1 /\ lastId' \in 0..MaxUsers
  BY <1>1, Constants DEF Inserts, Typed, TypeOK, Ids
<1>3. users' \in [Ids -> User \cup {NoUser}]
  BY <1>1 DEF Inserts, Fails, Typed, TypeOK
<1>4. QED
  BY <1>1, <1>2, <1>3

\* An id set aside is used by the insertion it was set aside for.
LEMMA ReservedStep ==
  ASSUME Typed, NEW w \in Workers,
         \/ lastId' = lastId /\ Inserting' \subseteq Inserting
         \/ lastId' = lastId + 1 /\ w \in Inserting /\ Inserting' = Inserting \ {w}
         \/ lastId' = lastId /\ IdsLeft /\ Inserting' = Inserting \cup {w}
  PROVE  IdsReserved'
<1>1. lastId \in Nat /\ MaxUsers \in Nat /\ Cardinality(Inserting) \in Nat
  BY InsertingFinite, Constants DEF Typed, TypeOK
<1>2. CASE lastId' = lastId /\ Inserting' \subseteq Inserting
  BY <1>1, <1>2, InsertingFinite DEF Typed, IdsReserved
<1>3. CASE lastId' = lastId + 1 /\ w \in Inserting /\ Inserting' = Inserting \ {w}
  BY <1>1, <1>3, InsertingFinite DEF Typed, IdsReserved
<1>4. CASE lastId' = lastId /\ IdsLeft /\ Inserting' = Inserting \cup {w}
  <2>1. lastId + Cardinality(Inserting) < MaxUsers
    BY <1>4 DEF IdsLeft, Inserting, RowInserts
  <2>2. Cardinality(Inserting \cup {w}) <= Cardinality(Inserting) + 1
    BY InsertingFinite DEF Typed
  <2>3. Cardinality(Inserting \cup {w}) \in Nat
    BY InsertingFinite, FS_AddElement, FS_CardinalityType DEF Typed
  <2>4. QED
    BY <1>1, <1>4, <2>1, <2>2, <2>3 DEF IdsReserved
<1>5. QED
  BY <1>2, <1>3, <1>4

\* The rest of the type: what most steps leave alone
OthersTyped ==
  /\ pending = NoSetup \/ pending \in [token : 1..MaxSetups, email : Emails]
  /\ links \subseteq MailLinks
  /\ setups \in 0..MaxSetups
  /\ session \in [Emails -> Ids \cup {Nobody}]
  /\ faults \in 0..MaxFaults
  /\ invited \subseteq Ids
  /\ cut \subseteq Ids
  /\ removed \in BOOLEAN

LEMMA TypedIs ==
  Typed <=> /\ users \in [Ids -> User \cup {NoUser}]
            /\ lastId \in 0..MaxUsers
            /\ req \in [Workers -> Requests]
            /\ OthersTyped
            /\ \A w \in Workers : Handed(req[w])
            /\ IdsReserved
BY DEF Typed, TypeOK, OthersTyped, Requests, MailLinks

LEMMA TypedNext ==
  ASSUME users' \in [Ids -> User \cup {NoUser}],
         lastId' \in 0..MaxUsers,
         req' \in [Workers -> Requests],
         OthersTyped',
         \A w \in Workers : Handed(req'[w]),
         IdsReserved'
  PROVE  Typed'
BY DEF Typed, TypeOK, OthersTyped, Requests, MailLinks

\* The handler of an insertion goes on with the new row's id, or ends.
LEMMA InsertStep ==
  ASSUME Typed, NEW w \in Workers, req[w].next \in RowInserts, NEW row, Inserts(row),
         \/ Ends(w)
         \/ \E next \in {"clear setup", "mail"} :
              req' = [req EXCEPT ![w].next = next, ![w].id = lastId + 1]
  PROVE  /\ req' \in [Workers -> Requests]
         /\ \A v \in Workers : Handed(req'[v])
         /\ IdsReserved'
<1>1. lastId + 1 \in Ids /\ lastId' = lastId + 1 /\ w \in Inserting
  BY NextIdIsThere DEF Inserts, Inserting
<1>2. /\ req' \in [Workers -> Requests]
      /\ \A v \in Workers : Handed(req'[v])
      /\ Inserting' = Inserting \ {w}
  BY <1>1, HandlerStep
<1>3. QED
  BY <1>1, <1>2, ReservedStep

\* A column of an existing row is written.
LEMMA ColumnTypes ==
  ASSUME Typed, NEW w \in Workers, req[w].id \in Ids,
         SetEmailVerified(w) \/ SetPhoneVerified(w) \/ ActivateIfReady(w) \/ UserUpdate(w)
  PROVE  users' \in [Ids -> User \cup {NoUser}]
<1>1. ASSUME Exists(req[w].id)
      PROVE  users[req[w].id] \in User
  BY <1>1, TypedIs DEF Exists
<1>2. CASE SetEmailVerified(w)
  BY <1>1, <1>2, UpdatedTypes DEF SetEmailVerified, User
<1>3. CASE SetPhoneVerified(w)
  BY <1>1, <1>3, UpdatedTypes DEF SetPhoneVerified, User
<1>4. CASE ActivateIfReady(w)
  BY <1>1, <1>4, UpdatedTypes DEF ActivateIfReady, User
<1>5. CASE UserUpdate(w)
  BY <1>1, <1>5, UpdatedTypes DEF UserUpdate, User
<1>6. QED
  BY <1>2, <1>3, <1>4, <1>5

LEMMA MailedTypes ==
  ASSUME Typed, NEW i, Mailed(i)
  PROVE  links' \subseteq MailLinks
<1>1. <<"user", OldToken>> \in MailLinks
  BY Constants DEF MailLinks
<1>2. QED
  BY <1>1, TypedIs DEF Mailed, OthersTyped

LEMMA TypeAsks == ASSUME Typed, NEW w \in Workers, Asks(w) PROVE Typed'
<1>1. PICK r : /\ Handed(r)
               /\ r.next \in RowInserts => IdsLeft
               /\ req' = [req EXCEPT ![w] = r]
  BY AsksAre
<1>2. lastId' = lastId /\ UNCHANGED users /\ OthersTyped'
  BY AsksAre, TypedIs DEF database, ghosts, OthersTyped
<1>3. IdsReserved'
  BY <1>1, <1>2, RequestStep, ReservedStep
<1>4. QED
  BY <1>1, <1>2, <1>3, RequestStep, TypedIs, TypedNext

-----------------------------------------------------------------------------
\* What a worker has in hand stays of its type with every transaction.
LEMMA TypeStep ==
  ASSUME Typed, NEW w \in Workers, Step(w) \/ Cut(w), ~DeleteAll(w)
  PROVE  Typed'
<1>0. Handed(req[w]) /\ req[w] \in Requests
  BY DEF Typed, Handed
<1>1. CASE Cut(w)
  <2>1. UNCHANGED <<database, outside, invited, removed>> /\ Ends(w)
    BY <1>1 DEF Cut
  <2>2. OthersTyped'
    <3>1. cut' \subseteq Ids
      BY <1>0, <1>1, TypedIs DEF Cut, OthersTyped, At, Handed, AboutUser
    <3>2. faults' \in 0..MaxFaults
      BY <1>1, TypedIs, Constants DEF Cut, OthersTyped
    <3>3. QED
      BY <2>1, <3>1, <3>2, TypedIs DEF OthersTyped, database, outside
  <2>3. IdsReserved'
    BY <2>1, HandlerStep, ReservedStep DEF database
  <2>4. QED
    BY <2>1, <2>2, <2>3, HandlerStep, TypedIs, TypedNext DEF database
<1>2. CASE SaveSetup(w)
  <2>1. Ends(w) /\ UNCHANGED <<users, lastId, outside, faults, ghosts>>
    BY <1>2 DEF SaveSetup
  <2>2. pending' \in [token : 1..MaxSetups, email : Emails]
    BY <1>0, <1>2 DEF SaveSetup, At, Handed, Requests
  <2>3. OthersTyped'
    BY <2>1, <2>2, TypedIs DEF OthersTyped, outside, ghosts
  <2>4. IdsReserved'
    BY <2>1, HandlerStep, ReservedStep
  <2>5. QED
    BY <2>1, <2>3, <2>4, HandlerStep, TypedIs, TypedNext
<1>3. CASE InsertAdmin(w)
  <2>1. DEFINE row == Row(req[w].email, req[w].role, TRUE, TRUE, NoToken)
  <2>2. /\ req[w].next \in RowInserts /\ Inserts(row)
        /\ Ends(w) \/ req' = [req EXCEPT ![w].next = "clear setup", ![w].id = lastId + 1]
        /\ UNCHANGED <<pending, outside, faults, ghosts>>
    BY <1>3 DEF InsertAdmin, At, RowInserts
  <2>3. row.role \in Roles => row \in User
    BY <1>0 DEF Row, User, Requests
  <2>4. OthersTyped'
    BY <2>2, TypedIs DEF OthersTyped, outside, ghosts
  <2>5. QED
    BY <2>2, <2>3, <2>4, InsertedTypes, InsertStep, TypedNext
<1>4. CASE UserCreate(w)
  <2>1. DEFINE row == Row(req[w].email, req[w].role, FALSE, FALSE, lastId + 1)
  <2>2. /\ req[w].next \in RowInserts /\ Inserts(row)
        /\ Ends(w) \/ req' = [req EXCEPT ![w].next = "mail", ![w].id = lastId + 1]
        /\ UNCHANGED <<pending, outside, faults, cut, removed>>
        /\ invited' \in {invited, invited \cup {lastId + 1}}
    BY <1>4 DEF UserCreate, At, RowInserts
  <2>3. lastId + 1 \in Ids
    BY <2>2, NextIdIsThere
  <2>4. row.role \in Roles => row \in User
    BY <1>0, <2>3 DEF Row, User, Requests
  <2>5. OthersTyped'
    BY <2>2, <2>3, TypedIs DEF OthersTyped, outside
  <2>6. QED
    BY <2>2, <2>4, <2>5, InsertedTypes, InsertStep, TypedNext
<1>5. CASE ClearSetup(w)
  <2>1. Ends(w) /\ UNCHANGED <<users, lastId, links, setups, faults, ghosts>>
    BY <1>5 DEF ClearSetup
  <2>2. pending' = NoSetup /\ session' \in [Emails -> Ids \cup {Nobody}]
    BY <1>0, <1>5, TypedIs DEF ClearSetup, At, Handed, AboutUser, Requests, OthersTyped
  <2>3. OthersTyped'
    BY <2>1, <2>2, TypedIs DEF OthersTyped, ghosts
  <2>4. IdsReserved'
    BY <2>1, HandlerStep, ReservedStep
  <2>5. QED
    BY <2>1, <2>3, <2>4, HandlerStep, TypedIs, TypedNext
<1>6. CASE SetEmailVerified(w) \/ SetPhoneVerified(w) \/ ActivateIfReady(w) \/ UserUpdate(w)
  <2>1. /\ req[w].id \in Ids
        /\ Ends(w) \/ Goes(w, "activate")
        /\ UNCHANGED <<lastId, pending, links, setups, faults, ghosts>>
    BY <1>0, <1>6
    DEF SetEmailVerified, SetPhoneVerified, ActivateIfReady, UserUpdate, At, Handed,
        AboutUser, outside
  <2>2. users' \in [Ids -> User \cup {NoUser}]
    BY <1>6, <2>1, ColumnTypes
  <2>3. session' \in [Emails -> Ids \cup {Nobody}]
    BY <1>0, <1>6, <2>1, TypedIs
    DEF SetEmailVerified, SetPhoneVerified, ActivateIfReady, UserUpdate, LogsIn, Requests,
        OthersTyped, outside
  <2>4. OthersTyped'
    BY <2>1, <2>3, TypedIs DEF OthersTyped, ghosts
  <2>5. IdsReserved'
    BY <2>1, HandlerStep, ReservedStep
  <2>6. QED
    BY <2>1, <2>2, <2>4, <2>5, HandlerStep, TypedIs, TypedNext
<1>7. CASE MailLink(w)
  <2>1. Ends(w) /\ UNCHANGED <<database, setups, session, faults, ghosts>>
    BY <1>7 DEF MailLink
  <2>2. links' \subseteq MailLinks
    BY <1>7, TypedIs, MailedTypes DEF MailLink
  <2>3. OthersTyped'
    BY <2>1, <2>2, TypedIs DEF OthersTyped, ghosts, database
  <2>4. IdsReserved'
    BY <2>1, HandlerStep, ReservedStep DEF database
  <2>5. QED
    BY <2>1, <2>3, <2>4, HandlerStep, TypedIs, TypedNext DEF database
<1>8. CASE UserDelete(w)
  <2>1. Ends(w) /\ UNCHANGED <<lastId, pending, outside, faults>>
    BY <1>8 DEF UserDelete
  <2>2. users' \in [Ids -> User \cup {NoUser}]
    BY <1>8, TypedIs DEF UserDelete
  <2>3. invited' \subseteq Ids /\ cut' \subseteq Ids /\ removed' \in BOOLEAN
    BY <1>8, TypedIs DEF UserDelete, OthersTyped
  <2>4. OthersTyped'
    BY <2>1, <2>3, TypedIs DEF OthersTyped, outside
  <2>5. IdsReserved'
    BY <2>1, HandlerStep, ReservedStep
  <2>6. QED
    BY <2>1, <2>2, <2>4, <2>5, HandlerStep, TypedIs, TypedNext
<1>9. QED
  BY <1>1, <1>2, <1>3, <1>4, <1>5, <1>6, <1>7, <1>8 DEF Step

\* A reset leaves the ids in hand and takes the roles.
LEMMA TypeReset == ASSUME Typed, NEW w \in Workers, DeleteAll(w) PROVE Typed'
<1>0. req \in [Workers -> Requests] /\ \A v \in Workers : Handed(req[v])
  BY TypedIs
<1>1. /\ lastId' = lastId /\ lastId' \in 0..MaxUsers
      /\ users' \in [Ids -> User \cup {NoUser}]
  BY TypedIs DEF DeleteAll
<1>2. OthersTyped'
  <2>1. session' \in [Emails -> Ids \cup {Nobody}]
    BY <1>0, TypedIs DEF DeleteAll, OthersTyped, Requests
  <2>2. faults' \in 0..MaxFaults
    BY TypedIs, Constants DEF DeleteAll, OthersTyped
  <2>3. QED
    BY <2>1, <2>2, TypedIs DEF DeleteAll, OthersTyped, ghosts
<1>3. CASE Ends(w)
  <2>1. IdsReserved'
    BY <1>1, <1>3, HandlerStep, ReservedStep
  <2>2. QED
    BY <1>1, <1>2, <1>3, <2>1, HandlerStep, TypedNext
<1>4. CASE RolesGone(w)
  <2>1. \A v \in Workers :
          req'[v] \in {Idle, req[v], [req[v] EXCEPT !.role = "gone"]}
    BY <1>4 DEF RolesGone
  <2>2. \A v \in Workers : Handed([req[v] EXCEPT !.role = "gone"])
    BY <1>0 DEF Handed, Requests
  <2>3. \A v \in Workers : Handed(req'[v])
    BY <1>0, <2>1, <2>2, IdleHanded
  <2>4. req' \in [Workers -> Requests]
    BY <1>4, <2>3 DEF RolesGone, Handed
  <2>5. Inserting' \subseteq Inserting
    <3>1. \A v \in Workers : [req[v] EXCEPT !.role = "gone"].next = req[v].next
      BY <1>0 DEF Requests
    <3>2. Idle.next \notin RowInserts
      BY DEF Idle, RowInserts
    <3>3. QED
      BY <2>1, <3>1, <3>2 DEF Inserting
  <2>6. IdsReserved'
    BY <1>1, <2>5, ReservedStep
  <2>7. QED
    BY <1>1, <1>2, <2>3, <2>4, <2>6, TypedNext
<1>5. QED
  BY <1>3, <1>4 DEF DeleteAll

LEMMA TypeNext == ASSUME Typed, [Next]_vars PROVE Typed'
<1>1. ASSUME NEW w \in Workers, Asks(w) \/ Step(w) \/ Cut(w) PROVE Typed'
  BY <1>1, TypeAsks, TypeStep, TypeReset
<1>2. ASSUME NEW e \in Emails, Login(e) \/ Logout(e) PROVE Typed'
  <2>1. UNCHANGED <<database, links, setups, req, faults, ghosts>>
    BY <1>2 DEF Login, Logout
  <2>2. session' \in [Emails -> Ids \cup {Nobody}]
    BY <1>2, TypedIs DEF Login, Logout, OthersTyped
  <2>3. OthersTyped'
    BY <2>1, <2>2, TypedIs DEF OthersTyped, database, ghosts
  <2>4. IdsReserved'
    BY <2>1, TypedIs DEF IdsReserved, Inserting, database
  <2>5. QED
    BY <2>1, <2>3, <2>4, TypedIs, TypedNext DEF database
<1>3. ASSUME NEW e \in Emails, NEW i \in Ids, Resend(e, i) PROVE Typed'
  <2>1. UNCHANGED <<database, setups, session, req, faults, ghosts>>
    BY <1>3 DEF Resend
  <2>2. OthersTyped'
    BY <1>3, <2>1, TypedIs, MailedTypes DEF Resend, OthersTyped, database, ghosts
  <2>3. IdsReserved'
    BY <2>1, TypedIs DEF IdsReserved, Inserting, database
  <2>4. QED
    BY <2>1, <2>2, <2>3, TypedIs, TypedNext DEF database
<1>4. CASE UNCHANGED vars
  BY <1>4 DEF vars, database, outside, ghosts, Typed, TypeOK, IdsReserved, Inserting
<1>5. QED
  BY <1>1, <1>2, <1>3, <1>4 DEF Next

\* Every variable holds a value of its type, in particular every role is one of the table,
\* whatever a reset does between the reading and the writing of it.
THEOREM TypeCorrect == Spec => []TypeOK
<1>1. Typed /\ [Next]_vars => Typed'
  BY TypeNext
<1>2. Typed => TypeOK
  BY DEF Typed
<1>3. QED
  BY <1>1, <1>2, TypeInit, PTL DEF Spec

-----------------------------------------------------------------------------
(***************************************************************************)
(* Verification and activation, in any interleaving of the workers.        *)
(***************************************************************************)
\* An account is deleted together with what is recorded of it, and the handler that still
\* has to remove the setup form has created an account.
InvitedExist == \A i \in invited : Exists(i)

FirstAdminThere == \A w \in Workers : At(w, "clear setup") => HasUsers \/ removed

Sound == InvitedExist /\ FirstAdminThere /\ ActiveIsVerified /\ ReadyIsActive

Ready(i) == Exists(i) /\ users[i].emailOk /\ users[i].phoneOk

\* Someone is about to look whether the account i can be activated.
Awaited(i) == \E w \in Workers : At(w, "activate") /\ req[w].id = i

\* A worker's step leaves the others' handlers where they are, with the user in hand.
LEMMA OthersKept ==
  ASSUME Typed, NEW w \in Workers, Asks(w) \/ Step(w) \/ Cut(w)
  PROVE  \A v \in Workers : v # w => req'[v].next = req[v].next /\ req'[v].id = req[v].id
<1>0. req \in [Workers -> Requests]
  BY TypedIs
<1>1. CASE Asks(w)
  BY <1>0, <1>1, AsksAre
<1>2. CASE DeleteAll(w)
  BY <1>0, <1>2 DEF DeleteAll, RolesGone, Ends, Requests
<1>3. CASE Step(w) /\ ~DeleteAll(w)
  BY <1>0, <1>3
  DEF Step, SaveSetup, InsertAdmin, ClearSetup, SetEmailVerified, SetPhoneVerified,
      ActivateIfReady, UserCreate, MailLink, UserUpdate, UserDelete, Ends, Goes
<1>4. CASE Cut(w)
  BY <1>0, <1>4 DEF Cut, Ends
<1>5. QED
  BY <1>1, <1>2, <1>3, <1>4

\* A transaction that gives a row the second verification activates it, or leaves its
\* worker to; all others keep what is ready, active, cut short or awaited.
LEMMA ReadyKept ==
  ASSUME ReadyIsActive,
         \A i \in Ids : Ready(i)' => \/ users'[i].active
                                     \/ Awaited(i)'
                                     \/ Ready(i) /\ users'[i].active = users[i].active
         ,
         \A i \in Ids : i \in cut => i \in cut' \/ ~Exists(i)',
         \A i \in Ids : Awaited(i) => Awaited(i)' \/ i \in cut' \/ users'[i].active \/ ~Ready(i)'
  PROVE  ReadyIsActive'
BY DEF ReadyIsActive, Ready, Awaited

\* Whoever waits for a worker's activation does so until this worker's own step.
LEMMA AwaitedKept ==
  ASSUME Typed, NEW w \in Workers, Asks(w) \/ Step(w) \/ Cut(w), ~At(w, "activate")
  PROVE  \A i \in Ids : Awaited(i) => Awaited(i)'
<1> SUFFICES ASSUME NEW i \in Ids, NEW v \in Workers, At(v, "activate"), req[v].id = i
             PROVE  At(v, "activate")' /\ req'[v].id = i
  BY DEF Awaited
<1>1. v # w
  OBVIOUS
<1>2. QED
  BY <1>1, OthersKept DEF At

LEMMA ReadyStep ==
  ASSUME Typed, ReadyIsActive, NEW w \in Workers, Asks(w) \/ Step(w) \/ Cut(w)
  PROVE  ReadyIsActive'
<1>0. /\ req \in [Workers -> Requests] /\ Handed(req[w])
      /\ users \in [Ids -> User \cup {NoUser}]
  BY TypedIs
<1>1. CASE Asks(w)
  <2>1. UNCHANGED <<users, cut>> /\ ~At(w, "activate")
    BY <1>1, AsksAre DEF database, ghosts, At, Idle
  <2>2. QED
    BY <1>1, <2>1, AwaitedKept, ReadyKept DEF Ready, Exists
<1>2. CASE Cut(w)
  <2>1. UNCHANGED users /\ cut \subseteq cut'
    BY <1>2 DEF Cut, database
  <2>2. \A i \in Ids : Awaited(i) => Awaited(i)' \/ i \in cut'
    <3> SUFFICES ASSUME NEW i \in Ids, NEW v \in Workers, At(v, "activate"), req[v].id = i
                 PROVE  Awaited(i)' \/ i \in cut'
      BY DEF Awaited
    <3>1. CASE v = w
      BY <1>2, <3>1 DEF Cut
    <3>2. CASE v # w
      BY <1>2, <3>2, OthersKept DEF At, Awaited
    <3>3. QED
      BY <3>1, <3>2
  <2>3. QED
    BY <2>1, <2>2, ReadyKept DEF Ready, Exists
<1>3. CASE SaveSetup(w) \/ ClearSetup(w) \/ MailLink(w)
  <2>1. UNCHANGED <<users, cut>> /\ ~At(w, "activate")
    BY <1>3 DEF SaveSetup, ClearSetup, MailLink, database, ghosts, At
  <2>2. QED
    BY <1>3, <2>1, AwaitedKept, ReadyKept DEF Ready, Exists, Step
<1>4. CASE InsertAdmin(w) \/ UserCreate(w)
  <2>1. cut' = cut /\ ~At(w, "activate") /\ req[w].next \in RowInserts
    BY <1>4 DEF InsertAdmin, UserCreate, ghosts, At, RowInserts
  <2>2. lastId + 1 \in Ids
    BY <2>1, NextIdIsThere
  <2>3. ASSUME NEW i \in Ids, Ready(i)'
        PROVE  users'[i].active \/ (Ready(i) /\ users'[i].active = users[i].active)
    <3>1. CASE users'[i] = users[i]
      BY <2>3, <3>1 DEF Ready, Exists
    <3>2. CASE InsertAdmin(w) /\ users'[i] # users[i]
      BY <1>0, <2>2, <3>2 DEF InsertAdmin, Inserts, Row
    <3>3. CASE UserCreate(w) /\ users'[i] # users[i]
      <4>1. users'[i].emailOk = FALSE
        BY <1>0, <2>2, <3>3 DEF UserCreate, Inserts, Row
      <4>2. QED
        BY <2>3, <4>1 DEF Ready
    <3>4. QED
      BY <1>4, <3>1, <3>2, <3>3
  <2>4. QED
    BY <1>4, <2>1, <2>3, AwaitedKept, ReadyKept DEF Step
<1>5. CASE SetEmailVerified(w) \/ SetPhoneVerified(w)
  <2>1. cut' = cut /\ ~At(w, "activate") /\ Goes(w, "activate")
    BY <1>5 DEF SetEmailVerified, SetPhoneVerified, ghosts, At
  <2>2. PICK u \in Ids : req[w].id = u
    BY <1>0, <1>5 DEF SetEmailVerified, SetPhoneVerified, At, Handed, AboutUser
  <2>3. Awaited(u)'
    BY <1>0, <2>1, <2>2 DEF Goes, Awaited, At, Requests
  <2>4. \A i \in Ids : i # u => users'[i] = users[i]
    BY <1>0, <1>5, <2>2 DEF SetEmailVerified, SetPhoneVerified, Updated
  <2>5. ASSUME NEW i \in Ids, Ready(i)'
        PROVE  Awaited(i)' \/ (Ready(i) /\ users'[i].active = users[i].active)
    <3>1. CASE i = u
      BY <2>3, <3>1
    <3>2. CASE i # u
      BY <2>4, <2>5, <3>2 DEF Ready, Exists
    <3>3. QED
      BY <3>1, <3>2
  <2>6. QED
    BY <1>5, <2>1, <2>5, AwaitedKept, ReadyKept DEF Step
<1>6. CASE ActivateIfReady(w)
  <2>1. cut' = cut /\ At(w, "activate")
    BY <1>6 DEF ActivateIfReady, ghosts
  <2>2. PICK u \in Ids : req[w].id = u
    BY <1>0, <2>1 DEF At, Handed, AboutUser
  <2>3. \A i \in Ids : i # u => users'[i] = users[i]
    BY <1>0, <1>6, <2>2 DEF ActivateIfReady, Updated
  <2>4. Ready(u)' => users'[u].active
    <3>1. CASE Exists(u)
      <4>1. users[u] \in User
        BY <1>0, <3>1 DEF Exists
      <4>2. users'[u] = [users[u] EXCEPT !.active =
                           users[u].active \/ (users[u].emailOk /\ users[u].phoneOk)]
        BY <1>0, <1>6, <2>2, <3>1 DEF ActivateIfReady, Updated
      <4>3. /\ users'[u].active = (users[u].active \/ (users[u].emailOk /\ users[u].phoneOk))
            /\ users'[u].emailOk = users[u].emailOk
            /\ users'[u].phoneOk = users[u].phoneOk
        BY <4>1, <4>2 DEF User
      <4>4. QED
        BY <4>3 DEF Ready
    <3>2. CASE ~Exists(u)
      BY <1>6, <2>2, <3>2 DEF ActivateIfReady, Updated, Ready, Exists
    <3>3. QED
      BY <3>1, <3>2
  <2>5. \A i \in Ids : Awaited(i) => Awaited(i)' \/ i = u
    <3> SUFFICES ASSUME NEW i \in Ids, NEW v \in Workers, At(v, "activate"), req[v].id = i,
                        i # u
                 PROVE  Awaited(i)'
      BY DEF Awaited
    <3>1. v # w
      BY <2>2
    <3>2. QED
      BY <1>6, <3>1, OthersKept DEF Awaited, At, Step
  <2>6. ASSUME NEW i \in Ids, Ready(i)'
        PROVE  users'[i].active \/ (Ready(i) /\ users'[i].active = users[i].active)
    <3>1. CASE i = u
      BY <2>4, <2>6, <3>1
    <3>2. CASE i # u
      BY <2>3, <2>6, <3>2 DEF Ready, Exists
    <3>3. QED
      BY <3>1, <3>2
  <2>7. \A i \in Ids : Awaited(i) => Awaited(i)' \/ users'[i].active \/ ~Ready(i)'
    BY <2>4, <2>5
  <2>8. QED
    BY <2>1, <2>6, <2>7, ReadyKept
<1>7. CASE UserUpdate(w)
  <2>1. cut' = cut /\ ~At(w, "activate") /\ req[w].id \in Ids
    BY <1>0, <1>7 DEF UserUpdate, ghosts, At, Handed, AboutUser
  <2>2. ASSUME NEW i \in Ids, Ready(i)'
        PROVE  Ready(i) /\ users'[i].active = users[i].active
    <3>1. CASE users'[i] = users[i]
      BY <2>2, <3>1 DEF Ready, Exists
    <3>2. CASE users'[i] # users[i]
      <4>1. Exists(i) /\ users[i] \in User
        BY <1>0, <1>7, <3>2 DEF UserUpdate, Updated, Exists
      <4>2. users'[i] = [users[i] EXCEPT !.role = req[w].role]
        BY <1>0, <1>7, <3>2 DEF UserUpdate, Updated
      <4>3. QED
        BY <2>2, <4>1, <4>2 DEF Ready, User
    <3>3. QED
      BY <3>1, <3>2
  <2>3. QED
    BY <1>7, <2>1, <2>2, AwaitedKept, ReadyKept DEF Step
<1>8. CASE UserDelete(w)
  <2>1. ~At(w, "activate")
    BY <1>8 DEF UserDelete, At
  <2>2. PICK u \in Ids : req[w].id = u
    BY <1>0, <1>8 DEF UserDelete, At, Handed, AboutUser
  <2>3. /\ \A i \in Ids : i # u => users'[i] = users[i] /\ (i \in cut => i \in cut')
        /\ ~Exists(u)'
    BY <1>0, <1>8, <2>2 DEF UserDelete, Exists
  <2>4. /\ \A i \in Ids : Ready(i)' => Ready(i) /\ users'[i].active = users[i].active
        /\ \A i \in Ids : i \in cut => i \in cut' \/ ~Exists(i)'
    BY <2>3 DEF Ready, Exists
  <2>5. QED
    BY <1>8, <2>1, <2>4, AwaitedKept, ReadyKept DEF Step
<1>9. CASE DeleteAll(w)
  <2>1. CASE users' = [i \in Ids |-> NoUser]
    BY <2>1 DEF ReadyIsActive, Exists
  <2>2. CASE UNCHANGED <<users, cut>>
    <3>1. ~At(w, "activate")
      BY <1>9 DEF DeleteAll, At
    <3>2. QED
      BY <1>9, <2>2, <3>1, AwaitedKept, ReadyKept DEF Step, Ready, Exists
  <2>3. QED
    BY <1>9, <2>1, <2>2 DEF DeleteAll, ghosts
<1>10. QED
  BY <1>1, <1>2, <1>3, <1>4, <1>5, <1>6, <1>7, <1>8, <1>9 DEF Step

\* A row of the table is not an absent one.
LEMMA RowsAreThere == \A row \in User : row # NoUser
<1> SUFFICES ASSUME NEW row \in User PROVE row # NoUser
  OBVIOUS
<1>1. "email" \in DOMAIN row /\ "email" \notin DOMAIN NoUser
  BY DEF User, NoUser
<1>2. QED
  BY <1>1

LEMMA EndsIdle ==
  ASSUME Typed, NEW w \in Workers, Ends(w)
  PROVE  req'[w].next = "none"
<1>1. Idle.next = "none" /\ req'[w] = Idle
  BY TypedIs DEF Ends, Idle
<1>2. QED
  BY <1>1

\* Writing a column leaves a row a row.
LEMMA ColumnStep ==
  ASSUME Typed, NEW w \in Workers, NEW i \in Ids, Exists(i),
         SetEmailVerified(w) \/ SetPhoneVerified(w) \/ ActivateIfReady(w) \/ UserUpdate(w)
  PROVE  users'[i] \in User
<1>0. users[i] \in User /\ users \in [Ids -> User \cup {NoUser}]
  BY TypedIs DEF Exists
<1>1. \/ users'[i] = users[i]
      \/ users'[i] = [users[i] EXCEPT !.emailOk = TRUE, !.token = NoToken]
      \/ users'[i] = [users[i] EXCEPT !.phoneOk = TRUE]
      \/ users'[i] = [users[i] EXCEPT !.active =
                        users[i].active \/ (users[i].emailOk /\ users[i].phoneOk)]
      \/ req[w].role \in Roles /\ users'[i] = [users[i] EXCEPT !.role = req[w].role]
  BY <1>0 DEF SetEmailVerified, SetPhoneVerified, ActivateIfReady, UserUpdate, Updated
<1>2. QED
  BY <1>0, <1>1 DEF User

\* The rows of the invited: inserted inactive, activated with both verifications, deleted
\* with the record of the invitation.
LEMMA InvitedStep ==
  ASSUME Typed, InvitedExist, ActiveIsVerified, NEW w \in Workers, Asks(w) \/ Step(w) \/ Cut(w)
  PROVE  InvitedExist' /\ ActiveIsVerified'
<1>0. /\ req \in [Workers -> Requests] /\ Handed(req[w])
      /\ users \in [Ids -> User \cup {NoUser}] /\ invited \subseteq Ids
  BY TypedIs DEF OthersTyped
<1>1. CASE UNCHANGED <<users, invited>>
  BY <1>1 DEF InvitedExist, ActiveIsVerified, Exists
<1>2. CASE Asks(w) \/ Cut(w) \/ SaveSetup(w) \/ ClearSetup(w) \/ MailLink(w)
  BY <1>1, <1>2, AsksAre DEF Cut, SaveSetup, ClearSetup, MailLink, database, ghosts
<1>3. CASE InsertAdmin(w)
  <2>1. invited' = invited /\ \A i \in invited : users'[i] = users[i]
    BY <1>0, <1>3 DEF InsertAdmin, Inserts, Fails, InvitedExist, ghosts
  <2>2. QED
    BY <2>1 DEF InvitedExist, ActiveIsVerified, Exists
<1>4. CASE UserCreate(w)
  <2>1. DEFINE row == Row(req[w].email, req[w].role, FALSE, FALSE, lastId + 1)
  <2>2. CASE Fails(row)
    BY <1>1, <1>4, <2>2 DEF UserCreate, Inserts
  <2>3. CASE ~Fails(row)
    <3>1. lastId + 1 \in Ids
      BY <1>4, NextIdIsThere DEF UserCreate, At, RowInserts
    <3>2. users' = [users EXCEPT ![lastId + 1] = row] /\ invited' = invited \cup {lastId + 1}
      BY <1>4, <2>3 DEF UserCreate, Inserts
    <3>3. \A i \in invited : users'[i] = users[i]
      BY <1>0, <2>3, <3>2 DEF Fails, InvitedExist
    <3>4. users'[lastId + 1] = row /\ row # NoUser /\ row.active = FALSE
      BY <1>0, <3>1, <3>2 DEF Row, NoUser
    <3>5. InvitedExist'
      BY <3>2, <3>3, <3>4 DEF InvitedExist, Exists
    <3>6. ActiveIsVerified'
      BY <3>2, <3>3, <3>4 DEF ActiveIsVerified, Exists
    <3>7. QED
      BY <3>5, <3>6
  <2>4. QED
    BY <2>2, <2>3
<1>5. CASE SetEmailVerified(w) \/ SetPhoneVerified(w) \/ ActivateIfReady(w) \/ UserUpdate(w)
  <2>1. invited' = invited
    BY <1>5 DEF SetEmailVerified, SetPhoneVerified, ActivateIfReady, UserUpdate, ghosts
  <2>2. PICK u \in Ids : req[w].id = u
    BY <1>0, <1>5
    DEF SetEmailVerified, SetPhoneVerified, ActivateIfReady, UserUpdate, At, Handed, AboutUser
  <2>3. \A i \in Ids : i # u => users'[i] = users[i]
    BY <1>0, <1>5, <2>2
    DEF SetEmailVerified, SetPhoneVerified, ActivateIfReady, UserUpdate, Updated
  <2>4. CASE ~Exists(u)
    BY <1>1, <1>5, <2>1, <2>2, <2>4
    DEF SetEmailVerified, SetPhoneVerified, ActivateIfReady, UserUpdate, Updated
  <2>5. CASE Exists(u)
    <3>1. users[u] \in User
      BY <1>0, <2>5 DEF Exists
    <3>2. \/ users'[u] = [users[u] EXCEPT !.emailOk = TRUE, !.token = NoToken]
          \/ users'[u] = [users[u] EXCEPT !.phoneOk = TRUE]
          \/ users'[u] = [users[u] EXCEPT !.active =
                            users[u].active \/ (users[u].emailOk /\ users[u].phoneOk)]
          \/ users'[u] = [users[u] EXCEPT !.role = req[w].role]
          \/ users'[u] = users[u]
      BY <1>0, <1>5, <2>2, <2>5
      DEF SetEmailVerified, SetPhoneVerified, ActivateIfReady, UserUpdate, Updated
    <3>3. users'[u] # NoUser
      <4>1. users'[u] \in User
        BY <1>5, <2>5, ColumnStep
      <4>2. QED
        BY <4>1, RowsAreThere
    <3>4. /\ users[u].emailOk => users'[u].emailOk
          /\ users[u].phoneOk => users'[u].phoneOk
          /\ users'[u].active => users[u].active \/ (users[u].emailOk /\ users[u].phoneOk)
      BY <3>1, <3>2 DEF User
    <3>5. InvitedExist'
      BY <1>0, <2>1, <2>3, <3>3 DEF InvitedExist, Exists
    <3>6. ASSUME NEW i \in invited, users'[i].active
          PROVE  users'[i].emailOk /\ users'[i].phoneOk
      <4>1. CASE i = u
        BY <2>5, <3>4, <3>6, <4>1 DEF ActiveIsVerified
      <4>2. CASE i # u
        BY <1>0, <2>3, <3>6, <4>2 DEF ActiveIsVerified, InvitedExist
      <4>3. QED
        BY <4>1, <4>2
    <3>7. QED
      BY <2>1, <3>5, <3>6 DEF ActiveIsVerified
  <2>6. QED
    BY <2>4, <2>5
<1>6. CASE UserDelete(w)
  <2>1. \A i \in invited' : i \in invited /\ users'[i] = users[i]
    BY <1>0, <1>6 DEF UserDelete
  <2>2. QED
    BY <2>1 DEF InvitedExist, ActiveIsVerified, Exists
<1>7. CASE DeleteAll(w)
  BY <1>1, <1>7 DEF DeleteAll, ghosts, InvitedExist, ActiveIsVerified
<1>8. QED
  BY <1>2, <1>3, <1>4, <1>5, <1>6, <1>7 DEF Step

\* Accounts disappear by deletion only.
LEMMA UsersStay ==
  ASSUME Typed, NEW w \in Workers, Asks(w) \/ Step(w) \/ Cut(w), HasUsers \/ removed
  PROVE  HasUsers' \/ removed'
<1>0. users \in [Ids -> User \cup {NoUser}]
  BY TypedIs
<1>1. CASE UNCHANGED <<users, removed>>
  BY <1>1 DEF HasUsers, Exists
<1>2. CASE Asks(w) \/ Cut(w) \/ SaveSetup(w) \/ ClearSetup(w) \/ MailLink(w)
  BY <1>1, <1>2, AsksAre DEF Cut, SaveSetup, ClearSetup, MailLink, database, ghosts
<1>3. CASE InsertAdmin(w) \/ UserCreate(w)
  <2>1. \A i \in Ids : Exists(i) => Exists(i)'
    BY <1>0, <1>3 DEF InsertAdmin, UserCreate, Inserts, Fails, Exists, Row, NoUser
  <2>2. QED
    BY <1>3, <2>1 DEF HasUsers, InsertAdmin, UserCreate, ghosts
<1>4. CASE SetEmailVerified(w) \/ SetPhoneVerified(w) \/ ActivateIfReady(w) \/ UserUpdate(w)
  <2>1. removed' = removed
    BY <1>4 DEF SetEmailVerified, SetPhoneVerified, ActivateIfReady, UserUpdate, ghosts
  <2>2. \A i \in Ids : Exists(i) => Exists(i)'
    <3> SUFFICES ASSUME NEW i \in Ids, Exists(i) PROVE users'[i] # NoUser
      BY DEF Exists
    <3>1. users'[i] \in User
      BY <1>4, ColumnStep
    <3>2. QED
      BY <3>1, RowsAreThere
  <2>3. QED
    BY <2>1, <2>2 DEF HasUsers
<1>5. CASE UserDelete(w) \/ DeleteAll(w)
  BY <1>1, <1>5 DEF UserDelete, DeleteAll, ghosts
<1>6. QED
  BY <1>2, <1>3, <1>4, <1>5 DEF Step

\* The handler that has still to remove the setup form comes from InsertAdmin, which left an
\* account behind.
LEMMA FirstAdminStep ==
  ASSUME Typed, FirstAdminThere, NEW w \in Workers, Asks(w) \/ Step(w) \/ Cut(w)
  PROVE  FirstAdminThere'
<1> SUFFICES ASSUME NEW v \in Workers, At(v, "clear setup")'
             PROVE  HasUsers' \/ removed'
  BY DEF FirstAdminThere
<1>0. req \in [Workers -> Requests] /\ users \in [Ids -> User \cup {NoUser}]
  BY TypedIs
<1>1. CASE v # w
  BY <1>1, OthersKept, UsersStay DEF FirstAdminThere, At
<1>2. CASE v = w
  <2>1. InsertAdmin(w)
    <3>1. ~Asks(w)
      BY <1>0, <1>2, AsksAre DEF At, FirstOf
    <3>2. ~Cut(w)
      BY <1>2, EndsIdle DEF Cut, At
    <3>3. ~DeleteAll(w)
      <4>1. RolesGone(w) => req'[w] = Idle
        BY DEF RolesGone
      <4>2. Idle.next = "none"
        BY DEF Idle
      <4>3. QED
        BY <1>2, <4>1, <4>2, EndsIdle DEF DeleteAll, At
    <3>4. QED
      <4>1. Goes(w, "activate") => req'[w].next = "activate"
        <5>1. req[w] \in Requests
          BY <1>0
        <5>2. Goes(w, "activate") => req'[w] = [req[w] EXCEPT !.next = "activate"]
          BY <1>0 DEF Goes
        <5>3. QED
          BY <5>1, <5>2 DEF Requests
      <4>2. ~UserCreate(w)
        <5>1. ASSUME req' = [req EXCEPT ![w].next = "mail", ![w].id = lastId + 1]
              PROVE  req'[w].next = "mail"
          BY <1>0, <5>1 DEF Requests
        <5>2. QED
          BY <1>2, <5>1, EndsIdle DEF UserCreate, At
      <4>3. QED
        BY <1>2, <3>1, <3>2, <3>3, <4>1, <4>2, EndsIdle
        DEF Step, SaveSetup, ClearSetup, SetEmailVerified, SetPhoneVerified, ActivateIfReady,
            MailLink, UserUpdate, UserDelete, At
  <2>2. lastId + 1 \in Ids
    BY <2>1, NextIdIsThere DEF InsertAdmin, At, RowInserts
  <2>3. DEFINE row == Row(req[w].email, req[w].role, TRUE, TRUE, NoToken)
  <2>4. ~Fails(row)
    BY <1>2, <2>1, EndsIdle DEF InsertAdmin, At
  <2>5. users'[lastId + 1] = row /\ row # NoUser
    BY <1>0, <2>1, <2>2, <2>4 DEF InsertAdmin, Inserts, Row, NoUser
  <2>6. QED
    BY <2>2, <2>5 DEF HasUsers, Exists
<1>3. QED
  BY <1>1, <1>2

\* The inductive invariant, in every reachable state.
LEMMA SoundStep == ASSUME Typed, Sound, [Next]_vars PROVE Sound'
<1>1. CASE UNCHANGED <<users, req, invited, cut, removed>>
  BY <1>1
  DEF Sound, InvitedExist, FirstAdminThere, ActiveIsVerified, ReadyIsActive, Exists, HasUsers, At
<1>2. ASSUME NEW w \in Workers, Asks(w) \/ Step(w) \/ Cut(w) PROVE Sound'
  BY <1>2, InvitedStep, FirstAdminStep, ReadyStep DEF Sound
<1>3. QED
  BY <1>1, <1>2 DEF Next, Login, Logout, Resend, database, ghosts, vars

LEMMA AlwaysSound == Spec => [](Typed /\ Sound)
<1>1. Init => Sound
  <2> SUFFICES ASSUME Init PROVE Sound
    OBVIOUS
  <2>1. \A w \in Workers : ~At(w, "clear setup")
    BY DEF Init, At, Idle
  <2>2. CASE users = [i \in Ids |-> NoUser] /\ invited = {}
    BY <2>1, <2>2
    DEF Sound, InvitedExist, FirstAdminThere, ActiveIsVerified, ReadyIsActive, Exists
  <2>3. ASSUME NEW e \in Emails, NEW f \in Emails, invited = {2},
               users = [i \in Ids |-> CASE i = 1 -> Row(e, "admin", TRUE, TRUE, NoToken)
                                         [] i = 2 -> Row(f, "manager", FALSE, FALSE, OldToken)
                                         [] OTHER -> NoUser]
        PROVE  Sound
    <3>1. /\ users[1] = Row(e, "admin", TRUE, TRUE, NoToken)
          /\ users[2] = Row(f, "manager", FALSE, FALSE, OldToken)
          /\ \A i \in Ids : i # 1 /\ i # 2 => users[i] = NoUser
      BY <2>3, Constants
    <3>2. Row(f, "manager", FALSE, FALSE, OldToken) \in User
      BY DEF Row, User, Roles
    <3>3. InvitedExist
      BY <2>3, <3>1, <3>2, RowsAreThere DEF InvitedExist, Exists
    <3>4. users[1].active /\ ~users[2].active /\ ~users[2].emailOk
      BY <3>1 DEF Row
    <3>5. QED
      BY <2>1, <2>3, <3>1, <3>3, <3>4
      DEF Sound, FirstAdminThere, ActiveIsVerified, ReadyIsActive, Exists
  <2>4. QED
    BY <2>2, <2>3 DEF Init
<1>2. Typed /\ [Next]_vars => Typed'
  BY TypeNext
<1>3. Typed /\ Sound /\ [Next]_vars => Sound'
  BY SoundStep
<1>4. QED
  BY <1>1, <1>2, <1>3, TypeInit, PTL DEF Spec

\* An invited user's account is active only with both verifications.
THEOREM ActiveVerified == Spec => []ActiveIsVerified
<1>1. Sound => ActiveIsVerified
  BY DEF Sound
<1>2. QED
  BY <1>1, AlwaysSound, PTL

\* With both verifications it is active once the handlers have ended, whichever came first,
\* unless one was cut short in between.
THEOREM VerifiedActive == Spec => []ReadyIsActive
<1>1. Sound => ReadyIsActive
  BY DEF Sound
<1>2. QED
  BY <1>1, AlwaysSound, PTL

\* A stored form has a token.
LEMMA NoSuchSetup ==
  ASSUME NEW t, NEW e
  PROVE  [token |-> t, email |-> e] # NoSetup
<1>1. DOMAIN [token |-> t, email |-> e] = {"token", "email"} /\ DOMAIN NoSetup = {"token"}
  BY DEF NoSetup
<1>2. QED
  BY <1>1

\* The setup form goes only when somebody has, or had, an account.
THEOREM FormKept == Spec => FormKeptUntilUsed
<1>1. Typed /\ Sound /\ [Next]_vars
        => [pending # NoSetup /\ pending' = NoSetup => HasUsers \/ removed']_vars
  <2> SUFFICES ASSUME Typed, Sound, Next, pending # NoSetup, pending' = NoSetup
               PROVE  HasUsers \/ removed'
    BY DEF vars, database
  <2>1. PICK w \in Workers : Step(w)
    BY AsksAre DEF Next, Cut, Login, Logout, Resend, database
  <2>2. CASE SaveSetup(w)
    <3>1. pending' = [token |-> req[w].id, email |-> req[w].email]
      BY <2>2 DEF SaveSetup
    <3>2. QED
      BY <3>1, NoSuchSetup
  <2>3. CASE ClearSetup(w)
    BY <2>3 DEF ClearSetup, Sound, FirstAdminThere, ghosts
  <2>4. CASE DeleteAll(w)
    BY <2>4 DEF DeleteAll
  <2>5. QED
    BY <2>1, <2>2, <2>3, <2>4
    DEF Step, InsertAdmin, SetEmailVerified, SetPhoneVerified, ActivateIfReady, UserCreate,
        MailLink, UserUpdate, UserDelete, database
<1>2. QED
  BY <1>1, AlwaysSound, PTL DEF Spec, FormKeptUntilUsed
=============================================================================
