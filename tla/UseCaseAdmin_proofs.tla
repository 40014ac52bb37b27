------------------------- MODULE UseCaseAdmin_proofs -------------------------
(***************************************************************************)
(* Proofs about UseCaseAdmin, for any number of workers: types; that       *)
(* profiles belong to existing use cases; that the active use case is      *)
(* there, that demos keep their codes and share none, as long as no two    *)
(* handlers overlap in the ways the module names (Overlaps).               *)
(***************************************************************************)
EXTENDS UseCaseAdmin, TLAPS

-----------------------------------------------------------------------------
(***************************************************************************)
(* Types                                                                   *)
(***************************************************************************)
\* A worker's next request is well formed: so are all
LEMMA OneRequest ==
  ASSUME TypeOK, NEW w \in Workers, NEW r, Request(r), req' = [req EXCEPT ![w] = r]
  PROVE  DOMAIN req' = Workers /\ \A v \in Workers : Request(req'[v])
BY DEF TypeOK

LEMMA SeedsNotEmpty ==
  /\ Len(Seeds) \in Nat /\ 1 \in 1..Len(Seeds)
  /\ \A n \in 1..Len(Seeds) : Seeds[n] \in UseCaseIds
  /\ Default = Seeds[1] /\ Default \in UseCaseIds
BY UseCaseAdminAssumption DEF Default

LEMMA InRange == 0 \in 0..Len(Seeds) /\ 1 \in 0..Len(Seeds) /\ \A n \in 1..Len(Seeds) : n # 0
BY SeedsNotEmpty

LEMMA IdleRequest == Request(Idle) /\ Request(Down)
<1>0. {} \in SUBSET UseCaseIds /\ Silent \in [demo : {0, 1, Same}, code : Codes \cup {NoCode, Same}]
  BY DEF Silent
<1>1. Request(Idle)
  BY <1>0, InRange DEF Request, Idle, Starting, Transactions
<1>2. Request([Idle EXCEPT !.next = "start", !.boots = TRUE])
  BY <1>1 DEF Request, Idle, Starting, Transactions
<1>3. QED
  BY <1>1, <1>2 DEF Down

LEMMA BeginsRequest ==
  ASSUME NEW next \in {"wipe"} \cup Transactions, NEW id \in UseCaseIds \cup {Unset},
         NEW says \in [demo : {0, 1, Same}, code : Codes \cup {NoCode, Same}],
         NEW listed \in SUBSET UseCaseIds, next # "wipe" => id \in UseCaseIds,
         next = "get demo" => says.demo = 1 /\ says.code \in Codes, next # "upsert demo"
  PROVE  Request([Idle EXCEPT !.next = next, !.id = id, !.says = says, !.listed = listed])
<1>1. Request(Idle)
  BY IdleRequest
<1>2. QED
  BY <1>1 DEF Request, Starting, Transactions

LEMMA GoesRequest ==
  ASSUME NEW r, Request(r), NEW next \in Starting \cup {"delete", "activate"},
         NEW n \in 0..Len(Seeds), next = "seed" => n \in 1..Len(Seeds),
         next = "delete" => r.next = "demo inactive?", next = "activate" => r.next = "active?"
  PROVE  Request([r EXCEPT !.next = next, !.n = n])
<1>1. next = "seed" => n # 0
  BY InRange
<1>2. QED
  BY <1>1 DEF Request, Starting, Transactions

Says == [demo : {0, 1, Same}, code : Codes \cup {NoCode, Same}]

LEMMA SilentSays == Silent \in Says /\ \A c \in Codes : [demo |-> 1, code |-> c] \in Says
BY DEF Silent, Says

LEMMA NotedType ==
  ASSUME TypeOK, Noted PROVE met' \subseteq {"reset", "deletion", "save", "draw"}
BY DEF TypeOK, Noted, Overlaps

LEMMA AbsentIsNoRow == Absent \notin Rows
BY UseCaseAdminAssumption DEF Absent, Rows

\* What every handler's first transaction does
LEMMA BeginsType ==
  ASSUME TypeOK, NEW w \in Workers, NEW next \in {"wipe"} \cup Transactions,
         NEW id \in UseCaseIds \cup {Unset}, NEW says \in Says, NEW listed \in SUBSET UseCaseIds,
         next # "wipe" => id \in UseCaseIds,
         next = "get demo" => says.demo = 1 /\ says.code \in Codes,
         next # "upsert demo", Begins(w, next, id, says, listed)
  PROVE  TypeOK'
<1>1. DOMAIN req' = Workers /\ \A v \in Workers : Request(req'[v])
  BY BeginsRequest, OneRequest DEF Begins, Says
<1>2. met' \subseteq {"reset", "deletion", "save", "draw"}
  BY NotedType DEF Begins
<1>3. QED
  BY <1>1, <1>2 DEF Begins, database, TypeOK

LEMMA AsksType == ASSUME TypeOK, NEW w \in Workers, Asks(w) PROVE TypeOK'
<1>0. /\ Silent \in Says /\ {} \in SUBSET UseCaseIds
      /\ {v \in UseCaseIds : Regular(v)} \in SUBSET UseCaseIds
  BY SilentSays
<1>1. CASE Reset(w)
  <2>1. Begins(w, "wipe", Unset, Silent, {})
    BY <1>1 DEF Reset
  <2>2. QED
    BY <1>0, <2>1, BeginsType
<1>2. ASSUME NEW u \in UseCaseIds, NEW body \in Bodies, Create(w, u, body) \/ Update(w, u, body)
      PROVE  TypeOK'
  <2>1. body \in Says
    BY UseCaseAdminAssumption DEF Says
  <2>2. Begins(w, "upsert", u, body, {})
    BY <1>2 DEF Create, Update
  <2>3. QED
    BY <1>0, <2>1, <2>2, BeginsType DEF Transactions
<1>3. ASSUME NEW u \in UseCaseIds, Delete(w, u) \/ Activate(w, u) \/ View(w, u) \/ DeleteDemo(w, u)
      PROVE  TypeOK'
  <2>1. CASE Begins(w, "active?", u, Silent, {v \in UseCaseIds : Regular(v)})
    BY <1>0, <2>1, BeginsType DEF Transactions
  <2>2. ASSUME NEW next \in {"delete", "activate", "demo inactive?"}, Begins(w, next, u, Silent, {})
        PROVE  TypeOK'
    BY <1>0, <2>2, BeginsType DEF Transactions
  <2>3. QED
    BY <1>3, <2>1, <2>2 DEF Delete, Activate, View, DeleteDemo
<1>4. ASSUME NEW u \in UseCaseIds, NEW c \in Codes, SaveDemo(w, u, c) PROVE TypeOK'
  <2>1. [demo |-> 1, code |-> c] \in Says
    BY SilentSays
  <2>2. Begins(w, "get demo", u, [demo |-> 1, code |-> c], {})
    BY <1>4 DEF SaveDemo
  <2>3. QED
    BY <1>0, <2>1, <2>2, BeginsType DEF Transactions
<1>5. ASSUME NEW u \in UseCaseIds, NEW p \in Phones, DeleteProfile(w, p, u) PROVE TypeOK'
  BY <1>5 DEF DeleteProfile, TypeOK
<1>6. QED
  BY <1>1, <1>2, <1>3, <1>4, <1>5 DEF Asks

\* A request that goes on to its next transaction, or ends
LEMMA EndsType ==
  ASSUME TypeOK, NEW w \in Workers, Ends(w)
  PROVE  DOMAIN req' = Workers /\ \A v \in Workers : Request(req'[v])
BY IdleRequest, OneRequest DEF Ends

LEMMA GoesType ==
  ASSUME TypeOK, NEW w \in Workers, NEW next \in Starting \cup {"delete", "activate"},
         NEW n \in 0..Len(Seeds), next = "seed" => n \in 1..Len(Seeds),
         next = "delete" => At(w, "demo inactive?"), next = "activate" => At(w, "active?"),
         Goes(w, next, n)
  PROVE  DOMAIN req' = Workers /\ \A v \in Workers : Request(req'[v])
<1> DEFINE r == [req[w] EXCEPT !.next = next, !.n = n]
<1>1. Request(r)
  BY GoesRequest DEF TypeOK, At
<1>2. req' = [req EXCEPT ![w] = r]
  BY DEF Goes, TypeOK
<1>3. QED
  BY <1>1, <1>2, OneRequest

LEMMA SeedsOn ==
  ASSUME TypeOK, NEW w \in Workers, NEW n \in 1..Len(Seeds), n \in 0..Len(Seeds), Goes(w, "seed", n)
  PROVE  DOMAIN req' = Workers /\ \A v \in Workers : Request(req'[v])
BY GoesType DEF Starting

\* The row that uc_upsert writes
LEMMA UpsertedRow ==
  ASSUME TypeOK, NEW u \in UseCaseIds, NEW says \in Says, Upserted(u, says)
  PROVE  /\ useCases' \in [UseCaseIds -> Rows \cup {Absent}]
         /\ useCases'[u] \in Rows
         /\ useCases'[u].demo = IF says.demo = Same THEN Old(u).demo ELSE says.demo
         /\ useCases'[u].code = IF says.code = Same THEN Old(u).code ELSE says.code
         /\ \A v \in UseCaseIds : v # u => useCases'[v] = useCases[v]
<1> DEFINE demo == IF says.demo = Same THEN Old(u).demo ELSE says.demo
           code == IF says.code = Same THEN Old(u).code ELSE says.code
<1>1. Old(u).demo \in {0, 1} /\ Old(u).code \in Codes \cup {NoCode}
  BY DEF Old, TypeOK, Exists, Rows
<1>2. demo \in {0, 1} /\ code \in Codes \cup {NoCode}
  BY <1>1 DEF Says
<1>3. useCases' = [useCases EXCEPT ![u] = [demo |-> demo, code |-> code]]
  BY DEF Upserted
<1>4. [demo |-> demo, code |-> code] \in Rows
  BY <1>2 DEF Rows
<1>5. useCases \in [UseCaseIds -> Rows \cup {Absent}]
  BY DEF TypeOK
<1> HIDE DEF demo, code
<1>6. useCases'[u] = [demo |-> demo, code |-> code]
  BY <1>3, <1>5
<1>7. QED
  BY <1>3, <1>4, <1>5, <1>6 DEF demo, code

LEMMA StepType == ASSUME TypeOK, NEW w \in Workers, Step(w) PROVE TypeOK'
<1> DEFINE WellFormed == DOMAIN req' = Workers /\ \A v \in Workers : Request(req'[v])
           Met == met' \subseteq {"reset", "deletion", "save", "draw"}
<1>0. Request(req[w]) /\ 0 \in 0..Len(Seeds) /\ 1 \in 0..Len(Seeds) /\ 1 \in 1..Len(Seeds)
  BY SeedsNotEmpty, InRange DEF TypeOK
<1>m. Met
  BY NotedType DEF Step, Start, Count, SeedOne, SeedLoses, SeedFails, SeedConfig, ConfigFails, Wipe,
                   Upsert, UcDelete, ActiveListed, SetActive, GetDemo, UpsertDemo, DemoInactive
<1>1. CASE Start(w)
  <2>1. WellFormed
    BY <1>0, <1>1, GoesType DEF Start, Starting
  <2>2. QED
    BY <1>m, <1>1, <2>1 DEF Start, database, TypeOK
<1>2. CASE Count(w)
  <2>1. Goes(w, "config", 0) => WellFormed
    BY <1>0, GoesType DEF Starting
  <2>2. Goes(w, "seed", 1) => WellFormed
    BY <1>0, GoesType DEF Starting
  <2>3. QED
    BY <1>m, <1>2, <2>1, <2>2 DEF Count, database, TypeOK
<1>3. CASE SeedOne(w)
  <2>1. req[w].n \in 1..Len(Seeds) /\ Seeds[req[w].n] \in UseCaseIds
    BY <1>0, <1>3, SeedsNotEmpty DEF SeedOne, At, Request
  <2>2. WellFormed
    <3>1. CASE req[w].n < Len(Seeds)
      <4>1. req[w].n + 1 \in 0..Len(Seeds) /\ req[w].n + 1 \in 1..Len(Seeds)
        BY <2>1, <3>1, SeedsNotEmpty
      <4>2. Goes(w, "seed", req[w].n + 1)
        BY <1>3, <3>1 DEF SeedOne
      <4>3. QED
        BY <4>1, <4>2, SeedsOn
    <3>2. CASE ~(req[w].n < Len(Seeds))
      BY <1>0, <1>3, <3>2, GoesType DEF SeedOne, Starting
    <3>3. QED
      BY <3>1, <3>2
  <2>3. useCases' \in [UseCaseIds -> Rows \cup {Absent}]
    BY <1>3, <2>1, SilentSays, UpsertedRow DEF SeedOne
  <2>4. QED
    BY <1>m, <1>3, <2>2, <2>3 DEF SeedOne, TypeOK
<1>4. CASE SeedLoses(w) \/ SeedFails(w)
  <2>1. WellFormed
    BY <1>0, <1>4, GoesType DEF SeedLoses, SeedFails, Starting
  <2>2. CASE SeedLoses(w)
    BY <1>m, <2>1, <2>2 DEF SeedLoses, database, TypeOK
  <2>3. CASE SeedFails(w)
    BY <1>m, <2>1, <2>3, UseCaseAdminAssumption DEF SeedFails, database, TypeOK
  <2>4. QED
    BY <1>4, <2>2, <2>3
<1>5. CASE SeedConfig(w)
  <2>1. WellFormed
    BY <1>5, EndsType DEF SeedConfig
  <2>2. QED
    BY <1>m, <1>5, <2>1, SeedsNotEmpty DEF SeedConfig, Active, TypeOK
<1>6. CASE ConfigFails(w)
  <2>1. WellFormed
    BY <1>6, EndsType DEF ConfigFails
  <2>2. QED
    BY <1>m, <1>6, <2>1, UseCaseAdminAssumption DEF ConfigFails, database, TypeOK
<1>7. CASE Wipe(w)
  <2>1. WellFormed
    BY <1>0, <1>7, GoesType DEF Wipe, Starting
  <2>2. useCases' \in [UseCaseIds -> Rows \cup {Absent}] /\ activeId' \in UseCaseIds \cup {Unset}
        /\ profiles' \subseteq (Phones \X UseCaseIds)
    BY <1>7 DEF Wipe, database, TypeOK
  <2>3. faults' \in 0..MaxFaults
    BY <1>7, UseCaseAdminAssumption DEF Wipe, TypeOK
  <2>4. QED
    BY <1>m, <1>7, <2>1, <2>2, <2>3 DEF Wipe, TypeOK
<1>8. CASE Upsert(w) \/ UpsertDemo(w)
  <2>1. WellFormed
    BY <1>8, EndsType DEF Upsert, UpsertDemo
  <2>2. req[w].id \in UseCaseIds /\ req[w].says \in Says
    BY <1>0, <1>8 DEF Upsert, UpsertDemo, At, Request, Transactions, Says
  <2>3. useCases' \in [UseCaseIds -> Rows \cup {Absent}]
    BY <1>8, <2>2, UpsertedRow DEF Upsert, UpsertDemo
  <2>4. named' \in BOOLEAN
    BY <1>8 DEF Upsert, UpsertDemo, TypeOK
  <2>5. QED
    BY <1>m, <1>8, <2>1, <2>3, <2>4 DEF Upsert, UpsertDemo, TypeOK
<1>9. CASE UcDelete(w)
  <2>1. WellFormed
    BY <1>9, EndsType DEF UcDelete
  <2>2. QED
    BY <1>m, <1>9, <2>1 DEF UcDelete, TypeOK
<1>10. CASE ActiveListed(w)
  <2>1. Goes(w, "activate", 0) => WellFormed
    BY <1>0, <1>10, GoesType DEF ActiveListed
  <2>2. Ends(w) => WellFormed
    BY EndsType
  <2>3. QED
    BY <1>m, <1>10, <2>1, <2>2 DEF ActiveListed, database, TypeOK
<1>11. CASE SetActive(w)
  <2>1. WellFormed
    BY <1>11, EndsType DEF SetActive
  <2>2. req[w].id \in UseCaseIds
    BY <1>0, <1>11 DEF SetActive, At, Request, Transactions
  <2>3. QED
    BY <1>m, <1>11, <2>1, <2>2 DEF SetActive, TypeOK
<1>12. CASE GetDemo(w)
  <2> DEFINE u == req[w].id
             c == IF Coded(u) THEN useCases[u].code ELSE req[w].says.code
             r == [req[w] EXCEPT !.next = "upsert demo", !.says.code = c]
  <2>1. u \in UseCaseIds /\ req[w].says.demo = 1 /\ req[w].says.code \in Codes
    BY <1>0, <1>12 DEF GetDemo, At, Request, Transactions
  <2>2. c \in Codes
    BY <2>1 DEF TypeOK, Coded, Demo, Exists, Rows
  <2>3. Request(r)
    <3> HIDE DEF c
    <3>1. QED
      BY <1>0, <2>1, <2>2 DEF Request, Transactions
  <2>4. req' = [req EXCEPT ![w] = r]
    BY <1>12 DEF GetDemo, TypeOK
  <2>5. WellFormed
    BY <2>3, <2>4, OneRequest
  <2>6. QED
    BY <1>m, <1>12, <2>5 DEF GetDemo, database, TypeOK
<1>13. CASE DemoInactive(w)
  <2>1. WellFormed
    BY <1>0, <1>13, GoesType, EndsType DEF DemoInactive
  <2>2. QED
    BY <1>m, <1>13, <2>1 DEF DemoInactive, database, TypeOK
<1>14. QED
  BY <1>1, <1>2, <1>3, <1>4, <1>5, <1>6, <1>7, <1>8, <1>9, <1>10, <1>11, <1>12, <1>13 DEF Step

LEMMA CallsType ==
  ASSUME TypeOK, NEW p \in Phones, Remember(p) \/ HangUp(p) \/ \E u \in UseCaseIds : Dial(p, u)
  PROVE  TypeOK'
<1>1. CASE Remember(p)
  <2>1. Exists(calls[p]) => calls[p] \in UseCaseIds
    BY <1>1 DEF Remember, TypeOK
  <2>2. profiles' \subseteq (Phones \X UseCaseIds)
    BY <1>1, <2>1 DEF Remember, TypeOK
  <2>3. QED
    BY <1>1, <2>2 DEF Remember, TypeOK
<1>2. CASE HangUp(p)
  BY <1>2 DEF HangUp, database, TypeOK
<1>3. ASSUME NEW u \in UseCaseIds, Dial(p, u) PROVE TypeOK'
  BY <1>3 DEF Dial, database, TypeOK
<1>4. QED
  BY <1>1, <1>2, <1>3

LEMMA TypeInit == ASSUME Init PROVE TypeOK
<1>1. DOMAIN req = Workers /\ \A w \in Workers : Request(req[w])
  BY IdleRequest DEF Init
<1>2. 0 \in 0..MaxFaults
  BY UseCaseAdminAssumption
<1>3. QED
  BY <1>1, <1>2 DEF Init, TypeOK

LEMMA TypeStep == ASSUME TypeOK, [Next]_vars PROVE TypeOK'
<1>1. ASSUME NEW w \in Workers, Fails(w) PROVE TypeOK'
  <2>1. DOMAIN req' = Workers /\ \A v \in Workers : Request(req'[v])
    BY <1>1, EndsType DEF Fails
  <2>2. met' \subseteq {"reset", "deletion", "save", "draw"}
    BY <1>1, NotedType DEF Fails
  <2>3. unseeded' \in BOOLEAN
    BY <1>1 DEF Fails, TypeOK
  <2>4. QED
    BY <1>1, <2>1, <2>2, <2>3, UseCaseAdminAssumption DEF Fails, database, TypeOK
<1>2. ASSUME NEW w \in Workers, Killed(w) PROVE TypeOK'
  <2>1. DOMAIN req' = Workers /\ \A v \in Workers : Request(req'[v])
    BY <1>2, IdleRequest, OneRequest DEF Killed
  <2>2. met' \subseteq {"reset", "deletion", "save", "draw"}
    BY <1>2, NotedType DEF Killed
  <2>3. QED
    BY <1>2, <2>1, <2>2, UseCaseAdminAssumption DEF Killed, database, TypeOK
<1>3. CASE UNCHANGED vars
  BY <1>3 DEF vars, database, TypeOK
<1>4. QED
  BY <1>1, <1>2, <1>3, AsksType, StepType, CallsType DEF Next

\* Use cases, requests and calls stay within their types, for any number of workers: in
\* particular a demo is saved with a code (api_demo_save) and seeding stays within the file.
THEOREM TypeCorrect == Spec => []TypeOK
<1>1. Init => TypeOK
  BY TypeInit
<1>2. TypeOK /\ [Next]_vars => TypeOK'
  BY TypeStep
<1>3. QED
  BY <1>1, <1>2, PTL DEF Spec

-----------------------------------------------------------------------------
(***************************************************************************)
(* What a step changes                                                     *)
(***************************************************************************)
\* The steps of a worker that are noted
Act(w) ==
  \/ Reset(w)
  \/ \E u \in UseCaseIds :
       \/ \E body \in Bodies : Create(w, u, body) \/ Update(w, u, body)
       \/ Delete(w, u) \/ Activate(w, u) \/ View(w, u) \/ DeleteDemo(w, u)
       \/ \E c \in Codes : SaveDemo(w, u, c)
  \/ Step(w) \/ Fails(w) \/ Killed(w)

\* The others leave the use cases and the workers alone
Elsewhere == UNCHANGED <<useCases, activeId, req, unseeded, named, met>>

LEMMA NextActs ==
  ASSUME [Next]_vars PROVE (\E w \in Workers : Act(w)) \/ Elsewhere
BY DEF Next, Asks, Act, Elsewhere, Remember, HangUp, Dial, DeleteProfile, database, vars

\* The handlers' first transactions
Opens(w) ==
  \E next \in {"wipe"} \cup Transactions, id \in UseCaseIds \cup {Unset}, says \in Says,
     listed \in SUBSET UseCaseIds : Begins(w, next, id, says, listed)

LEMMA OneMoves ==
  ASSUME TypeOK, NEW w \in Workers, Act(w)
  PROVE  /\ Noted /\ (named => named') /\ (unseeded => unseeded')
         /\ \A v \in Workers : v # w => req'[v] = req[v]
<1>1. ASSUME NEW next, NEW id, NEW says, NEW listed, Begins(w, next, id, says, listed)
      PROVE  /\ Noted /\ UNCHANGED <<named, unseeded>>
             /\ \A v \in Workers : v # w => req'[v] = req[v]
  BY <1>1 DEF Begins, TypeOK
<1>2. CASE ~(Step(w) \/ Fails(w) \/ Killed(w))
  <2>1. CASE Reset(w)
    BY <1>1, <2>1 DEF Reset
  <2>2. ASSUME NEW u \in UseCaseIds, NEW body \in Bodies, Create(w, u, body) \/ Update(w, u, body)
        PROVE  \E next, says, listed : Begins(w, next, u, says, listed)
    BY <2>2 DEF Create, Update
  <2>3. ASSUME NEW u \in UseCaseIds, NEW c \in Codes,
               \/ Delete(w, u) \/ Activate(w, u) \/ View(w, u) \/ DeleteDemo(w, u)
        PROVE  \E next, says, listed : Begins(w, next, u, says, listed)
    BY <2>3 DEF Delete, Activate, View, DeleteDemo
  <2>4. QED
    BY <1>1, <1>2, <2>1, <2>2 DEF Act, Delete, Activate, View, DeleteDemo, SaveDemo
<1>3. CASE Step(w)
  <2>1. Noted
    BY <1>3 DEF Step, Start, Count, SeedOne, SeedLoses, SeedFails, SeedConfig, ConfigFails, Wipe,
                Upsert, UcDelete, ActiveListed, SetActive, GetDemo, UpsertDemo, DemoInactive
  <2>2. named' = named \/ Upsert(w)
    BY <1>3 DEF Step, Start, Count, SeedOne, SeedLoses, SeedFails, SeedConfig, ConfigFails, Wipe,
                UcDelete, ActiveListed, SetActive, GetDemo, UpsertDemo, DemoInactive
  <2>3. named => named'
    BY <2>2 DEF Upsert
  <2>4. unseeded' = unseeded \/ SeedFails(w) \/ ConfigFails(w)
    BY <1>3 DEF Step, Start, Count, SeedOne, SeedLoses, SeedConfig, Wipe, Upsert,
                UcDelete, ActiveListed, SetActive, GetDemo, UpsertDemo, DemoInactive
  <2>5. unseeded => unseeded'
    BY <2>4 DEF SeedFails, ConfigFails
  <2>6. \A v \in Workers : v # w => req'[v] = req[v]
    BY <1>3 DEF Step, Start, Count, SeedOne, SeedLoses, SeedFails, SeedConfig, ConfigFails, Wipe,
                Upsert, UcDelete, ActiveListed, SetActive, GetDemo, UpsertDemo, DemoInactive,
                Goes, Ends, TypeOK
  <2>7. QED
    BY <2>1, <2>3, <2>5, <2>6
<1>4. CASE Fails(w) \/ Killed(w)
  BY <1>4 DEF Fails, Killed, Ends, TypeOK
<1>5. QED
  BY <1>2, <1>3, <1>4

\* Who writes a row: uc_upsert, its handler's; a seeding only one that is missing
LEMMA RowChanges ==
  ASSUME TypeOK, NEW w \in Workers, Act(w), NEW u \in UseCaseIds
  PROVE  \/ useCases'[u] = useCases[u]
         \/ (Wipe(w) \/ (UcDelete(w) /\ u = req[w].id)) /\ ~Exists(u)'
         \/ SeedOne(w) /\ ~Exists(u) /\ useCases'[u] = [demo |-> 0, code |-> NoCode]
         \/ (Upsert(w) \/ UpsertDemo(w)) /\ u = req[w].id
<1>0. Request(req[w])
  BY DEF TypeOK
<1>1. CASE SeedOne(w)
  <2>1. PICK s \in UseCaseIds : s = Seeds[req[w].n]
    BY <1>0, <1>1, SeedsNotEmpty DEF SeedOne, At, Request
  <2>2. Upserted(s, Silent) /\ Silent.demo = Same /\ Silent.code = Same
    BY <1>1, <2>1 DEF SeedOne, Silent
  <2>3. useCases' = [useCases EXCEPT ![s] = [demo |-> Old(s).demo, code |-> Old(s).code]]
    BY <2>2 DEF Upserted
  <2>4. CASE Exists(s)
    <3>1. useCases[s] \in Rows
      BY <2>4 DEF Exists, TypeOK
    <3>2. [demo |-> Old(s).demo, code |-> Old(s).code] = useCases[s]
      BY <2>4, <3>1 DEF Old, Rows
    <3>3. QED
      BY <2>3, <3>2 DEF TypeOK
  <2>5. CASE ~Exists(s)
    <3>1. [demo |-> Old(s).demo, code |-> Old(s).code] = [demo |-> 0, code |-> NoCode]
      BY <2>5 DEF Old
    <3>2. QED
      BY <1>1, <2>3, <2>5, <3>1 DEF TypeOK
  <2>6. QED
    BY <2>4, <2>5
<1>2. CASE Upsert(w) \/ UpsertDemo(w)
  BY <1>2 DEF Upsert, UpsertDemo, Upserted, TypeOK
<1>3. CASE Wipe(w)
  BY <1>3 DEF Wipe, database, Exists
<1>4. CASE UcDelete(w)
  BY <1>4 DEF UcDelete, Exists, TypeOK
<1>5. CASE useCases' = useCases
  BY <1>5
<1>6. QED
  BY <1>1, <1>2, <1>3, <1>4, <1>5
     DEF Act, Reset, Create, Update, Delete, Activate, View, DeleteDemo, SaveDemo, Begins, Step,
         Start, Count, SeedLoses, SeedFails, SeedConfig, ConfigFails, ActiveListed, SetActive,
         GetDemo, DemoInactive, Fails, Killed, database

\* What is stored is there
LEMMA UpsertStores ==
  ASSUME TypeOK, NEW w \in Workers, Upsert(w) \/ UpsertDemo(w)
  PROVE  /\ req[w].id \in UseCaseIds /\ req[w].says \in Says
         /\ Upserted(req[w].id, req[w].says) /\ useCases'[req[w].id] \in Rows
<1>0. Request(req[w])
  BY DEF TypeOK
<1>1. req[w].id \in UseCaseIds /\ req[w].says \in Says /\ Upserted(req[w].id, req[w].says)
  BY <1>0 DEF Upsert, UpsertDemo, At, Request, Transactions, Says
<1>2. QED
  BY <1>1, UpsertedRow

\* Only a wipe and uc_delete remove use cases
LEMMA UseCasesStay ==
  ASSUME TypeOK, NEW w \in Workers, Act(w), NEW u \in UseCaseIds, Exists(u), ~Exists(u)'
  PROVE  Wipe(w) \/ (UcDelete(w) /\ u = req[w].id)
<1>1. CASE useCases'[u] = useCases[u]
  BY <1>1 DEF Exists
<1>2. CASE (Upsert(w) \/ UpsertDemo(w)) /\ u = req[w].id
  BY <1>2, UpsertStores, AbsentIsNoRow DEF Exists
<1>3. QED
  BY <1>1, <1>2, RowChanges

-----------------------------------------------------------------------------
(***************************************************************************)
(* Profiles                                                                *)
(***************************************************************************)
\* A caller's profile is kept only for a use case that exists: for any number of workers and
\* calls, whatever is deleted or reset while a call goes on (uc_delete, caller_profile_set).
THEOREM ProfilesCorrect == Spec => []ProfilesBelong
<1>1. Init => ProfilesBelong
  BY DEF Init, ProfilesBelong
<1>2. TypeOK /\ ProfilesBelong /\ [Next]_vars => ProfilesBelong'
  <2> SUFFICES ASSUME TypeOK, ProfilesBelong, [Next]_vars, NEW r \in profiles' PROVE Exists(r[2])'
    BY DEF ProfilesBelong
  <2>1. ASSUME NEW w \in Workers, Step(w) PROVE Exists(r[2])'
    <3>1. r \in profiles
      BY <2>1 DEF Step, Start, Count, SeedOne, SeedLoses, SeedFails, SeedConfig, ConfigFails, Wipe,
                  Upsert, UcDelete, ActiveListed, SetActive, GetDemo, UpsertDemo, DemoInactive,
                  database
    <3>2. r[2] \in UseCaseIds /\ Exists(r[2])
      BY <3>1 DEF TypeOK, ProfilesBelong
    <3>3. CASE UcDelete(w) /\ r[2] = req[w].id
      BY <3>3 DEF UcDelete
    <3>4. CASE Wipe(w)
      BY <3>2, <3>4 DEF Wipe, database, Exists
    <3>5. QED
      BY <2>1, <3>2, <3>3, <3>4, UseCasesStay DEF Act
  <2>2. ASSUME NEW w \in Workers, Asks(w) \/ Fails(w) \/ Killed(w) PROVE Exists(r[2])'
    <3>1. useCases' = useCases /\ profiles' \subseteq profiles
      BY <2>2 DEF Asks, Reset, Create, Update, Delete, Activate, View, DeleteDemo, SaveDemo, Begins,
                  DeleteProfile, Fails, Killed, database
    <3>2. QED
      BY <3>1 DEF ProfilesBelong, Exists
  <2>3. ASSUME NEW p \in Phones, Remember(p) PROVE Exists(r[2])'
    BY <2>3 DEF Remember, ProfilesBelong, Exists
  <2>4. CASE UNCHANGED <<useCases, profiles>>
    BY <2>4 DEF ProfilesBelong, Exists
  <2>5. QED
    BY <2>1, <2>2, <2>3, <2>4 DEF Next, HangUp, Dial, database, vars
<1>3. QED
  BY <1>1, <1>2, TypeCorrect, PTL DEF Spec

-----------------------------------------------------------------------------
(***************************************************************************)
(* The inductive invariant                                                 *)
(***************************************************************************)
\* Overlaps are noted
Noticed == Overlaps \subseteq met

Calm == ~unseeded /\ met \cap {"reset", "deletion"} = {}

\* What is named exists; before anything is named, the default is the first that exists.
Seeded ==
  \/ activeId # Unset /\ Exists(activeId)
  \/ /\ activeId = Unset
     /\ \E w \in Workers : req[w].next \in Starting
     /\ \/ Exists(Default)
        \/ /\ \A u \in UseCaseIds : ~Exists(u)
           /\ \A w \in Workers : ~At(w, "config") /\ (At(w, "seed") => req[w].n = 1)

\* What a handler about the active use case has checked still holds when it acts on it.
Checked(w) ==
  LET u == req[w].id IN
  /\ req[w].next \in {"active?", "activate"} => Exists(u)
  /\ At(w, "delete") => u # activeId

ActiveKept == Calm => Seeded /\ \A w \in Workers : Checked(w)

\* The same of handlers that save
SaveChecked(w) ==
  LET u == req[w].id IN
  /\ At(w, "upsert") => ~Coded(u)
  /\ At(w, "upsert demo") /\ Coded(u) => req[w].says.code = useCases[u].code

SavesKept == "save" \notin met => \A w \in Workers : SaveChecked(w)

Apart == ~named /\ met \cap {"draw", "save"} = {}

\* Only demos have codes, and the code in a handler's hand is no other demo's.
FreeBut(u, c) == \A v \in UseCaseIds : Coded(v) /\ useCases[v].code = c => v = u

CodesKept ==
  Apart => /\ \A u \in UseCaseIds : Regular(u) => useCases[u].code = NoCode
           /\ \A u \in UseCaseIds : Coded(u) => FreeBut(u, useCases[u].code)
           /\ \A w \in Workers : Saving(w) => FreeBut(req[w].id, req[w].says.code)

Inductive == Noticed /\ ActiveKept /\ SavesKept /\ CodesKept

LEMMA NoticedStep ==
  ASSUME TypeOK, Noticed, [Next]_vars PROVE Noticed'
<1>1. ASSUME NEW w \in Workers, Act(w) PROVE Noticed'
  BY <1>1, OneMoves DEF Noted, Noticed
<1>2. CASE Elsewhere
  <2>1. \A kind, w, v : Meet(kind, w, v)' <=> Meet(kind, w, v)
    BY <1>2 DEF Elsewhere, Meet, Serving, Saving, At
  <2>2. QED
    BY <1>2, <2>1 DEF Elsewhere, Noticed, Overlaps
<1>3. QED
  BY <1>1, <1>2, NextActs

LEMMA MeetingIsNoticed ==
  ASSUME Noticed, NEW w \in Workers, NEW v \in Workers, w # v,
         NEW kind \in {"reset", "deletion", "save", "draw"}, Meet(kind, w, v)
  PROVE  kind \in met
BY DEF Noticed, Overlaps

LEMMA MetStays == ASSUME TypeOK, NEW w \in Workers, Act(w) PROVE met \subseteq met'
BY OneMoves DEF Noted

-----------------------------------------------------------------------------
(***************************************************************************)
(* Saved codes                                                             *)
(***************************************************************************)
\* A worker that is about to save has just made its checks
LEMMA SaveOpens ==
  ASSUME TypeOK, NEW w \in Workers, Act(w)
  PROVE  /\ req'[w].next = "upsert" =>
              /\ useCases' = useCases
              /\ \E u \in UseCaseIds : ~Coded(u) /\ req'[w].id = u
         /\ req'[w].next = "get demo" => \E u \in UseCaseIds, c \in Codes :
              SaveDemo(w, u, c) /\ req'[w].id = u /\ req'[w].says.code = c
         /\ req'[w].next = "upsert demo" => GetDemo(w)
<1>1. ASSUME NEW next, NEW id, NEW says, NEW listed, Begins(w, next, id, says, listed)
      PROVE  req'[w].next = next /\ req'[w].id = id /\ req'[w].says = says /\ useCases' = useCases
  BY <1>1 DEF Begins, Idle, TypeOK, database
<1>2. CASE Reset(w)
  <2>1. req'[w].next = "wipe"
    BY <1>1, <1>2 DEF Reset
  <2>2. QED
    BY <2>1
<1>3. ASSUME NEW u \in UseCaseIds, NEW body \in Bodies, Create(w, u, body) \/ Update(w, u, body)
      PROVE  req'[w].next = "upsert" /\ useCases' = useCases /\ ~Coded(u) /\ req'[w].id = u
  BY <1>1, <1>3 DEF Create, Update, Coded, Demo, Regular
<1>4. ASSUME NEW u \in UseCaseIds, Delete(w, u) \/ Activate(w, u) \/ View(w, u) \/ DeleteDemo(w, u)
      PROVE  req'[w].next \in {"delete", "activate", "active?", "demo inactive?"}
  BY <1>1, <1>4 DEF Delete, Activate, View, DeleteDemo
<1>5. ASSUME NEW u \in UseCaseIds, NEW c \in Codes, SaveDemo(w, u, c)
      PROVE  req'[w].next = "get demo" /\ req'[w].id = u /\ req'[w].says.code = c
  <2>1. req'[w].next = "get demo" /\ req'[w].id = u /\ req'[w].says = [demo |-> 1, code |-> c]
    BY <1>1, <1>5 DEF SaveDemo
  <2>2. [demo |-> 1, code |-> c].code = c
    OBVIOUS
  <2>3. req'[w].says.code = c
    BY <2>1, <2>2
  <2>4. QED
    BY <2>1, <2>3
<1>6. CASE Fails(w) \/ Killed(w)
  <2>1. req'[w] = Idle \/ req'[w] = Down
    BY <1>6 DEF Fails, Killed, Ends, TypeOK
  <2>2. Idle.next = "none" /\ Down.next = "start"
    BY DEF Idle, Down
  <2>3. req'[w].next \in {"none", "start"}
    BY <2>1, <2>2
  <2>4. QED
    BY <2>3
<1>7. CASE Step(w) /\ ~GetDemo(w)
  <2>1. Ends(w) \/ \E next \in Starting \cup {"delete", "activate"}, n \in {0, 1, req[w].n + 1} :
                     Goes(w, next, n)
    BY <1>7 DEF Step, Start, Count, SeedOne, SeedLoses, SeedFails, SeedConfig, ConfigFails, Wipe,
                Upsert, UcDelete, ActiveListed, SetActive, UpsertDemo, DemoInactive, Starting
  <2>2. Ends(w) => req'[w].next = "none"
    BY DEF Ends, Idle, TypeOK
  <2>3. ASSUME NEW next \in Starting \cup {"delete", "activate"}, NEW n, Goes(w, next, n)
        PROVE  req'[w].next = next
    BY <2>3 DEF Goes, TypeOK, Request
  <2>4. QED
    BY <2>1, <2>2, <2>3 DEF Starting
<1>8. CASE GetDemo(w)
  <2>1. Request(req[w]) /\ w \in DOMAIN req
    BY DEF TypeOK
  <2>2. req'[w].next = "upsert demo"
    BY <1>8, <2>1 DEF GetDemo, Request
  <2>3. QED
    BY <1>8, <2>2
<1>9. CASE \E u \in UseCaseIds, body \in Bodies : Create(w, u, body) \/ Update(w, u, body)
  BY <1>3, <1>9
<1>10. CASE \E u \in UseCaseIds, c \in Codes : SaveDemo(w, u, c)
  BY <1>5, <1>10
<1>11. CASE \E u \in UseCaseIds : Delete(w, u) \/ Activate(w, u) \/ View(w, u) \/ DeleteDemo(w, u)
  BY <1>4, <1>11
<1>12. QED
  BY <1>2, <1>6, <1>7, <1>8, <1>9, <1>10, <1>11 DEF Act

LEMMA SavesStep ==
  ASSUME TypeOK, Noticed, SavesKept, NEW w \in Workers, Act(w)
  PROVE  SavesKept'
<1> SUFFICES ASSUME "save" \notin met', NEW v \in Workers PROVE SaveChecked(v)'
  BY DEF SavesKept
<1>0. "save" \notin met /\ SaveChecked(v) /\ SaveChecked(w) /\ Request(req[v]) /\ Request(req[w])
  BY MetStays DEF SavesKept, TypeOK
<1>1. CASE v # w
  <2>1. req'[v] = req[v]
    BY <1>1, OneMoves
  <2>2. SUFFICES ASSUME req[v].next \in {"upsert", "upsert demo"}
                 PROVE  SaveChecked(v)'
    BY <2>1 DEF SaveChecked, At
  <2>3. PICK u \in UseCaseIds : u = req[v].id
    BY <1>0, <2>2 DEF Request, Transactions
  <2>4. ~((Upsert(w) \/ UpsertDemo(w)) /\ u = req[w].id)
    BY <1>0, <1>1, <2>2, <2>3, MeetingIsNoticed DEF Meet, Upsert, UpsertDemo, At
  <2>5. useCases'[u] = useCases[u] \/ useCases'[u] = Absent
        \/ useCases'[u] = [demo |-> 0, code |-> NoCode]
    BY <2>4, RowChanges DEF Exists
  <2>6. useCases'[u] = useCases[u] \/ ~(useCases'[u] # Absent /\ useCases'[u].demo = 1)
    BY <2>5
  <2>7. QED
    BY <1>0, <2>1, <2>3, <2>6 DEF SaveChecked, At, Coded, Demo, Exists
<1>2. CASE v = w
  <2>1. CASE req'[w].next = "upsert"
    <3>1. PICK u \in UseCaseIds : ~Coded(u) /\ req'[w].id = u
      BY <2>1, SaveOpens
    <3>2. useCases' = useCases
      BY <2>1, SaveOpens
    <3>3. QED
      BY <1>2, <2>1, <3>1, <3>2 DEF SaveChecked, At, Coded, Demo, Exists
  <2>2. CASE req'[w].next = "upsert demo"
    <3>1. GetDemo(w) /\ useCases' = useCases
      BY <2>2, SaveOpens DEF GetDemo, database
    <3>2. PICK u \in UseCaseIds : u = req[w].id
      BY <1>0, <3>1 DEF GetDemo, At, Request, Transactions
    <3>3. req'[w].id = u /\ (Coded(u) => req'[w].says.code = useCases[u].code)
      BY <1>0, <3>1, <3>2 DEF GetDemo, Request, TypeOK
    <3>4. QED
      BY <1>2, <2>2, <3>1, <3>3 DEF SaveChecked, At, Coded, Demo, Exists
  <2>3. CASE req'[w].next \notin {"upsert", "upsert demo"}
    BY <1>2, <2>3 DEF SaveChecked, At
  <2>4. QED
    BY <2>1, <2>2, <2>3
<1>3. QED
  BY <1>1, <1>2

\* Without a named code or two savings of one use case, only api_demo_save gives a code
LEMMA CodesGiven ==
  ASSUME TypeOK, SavesKept, CodesKept, NEW w \in Workers, Act(w), Apart', NEW u \in UseCaseIds
  PROVE  /\ Regular(u)' => useCases'[u].code = NoCode
         /\ Coded(u)' => \/ Coded(u) /\ useCases'[u].code = useCases[u].code
                         \/ UpsertDemo(w) /\ u = req[w].id /\ useCases'[u].code = req[w].says.code
<1>0. Apart /\ "save" \notin met /\ SaveChecked(w) /\ Request(req[w])
  BY OneMoves, MetStays DEF Apart, SavesKept, TypeOK
<1>1. CASE useCases'[u] = useCases[u]
  BY <1>0, <1>1 DEF Coded, Demo, Regular, Exists, CodesKept
<1>2. CASE useCases'[u] = [demo |-> 0, code |-> NoCode]
  BY <1>2 DEF Coded, Demo
<1>3. CASE ~Exists(u)'
  BY <1>3 DEF Coded, Demo, Regular
<1>4. CASE UpsertDemo(w) /\ u = req[w].id
  <2>1. Upserted(u, req[w].says) /\ req[w].says \in Says
    BY <1>4, UpsertStores
  <2>2. req[w].says.demo = 1 /\ req[w].says.code \in Codes
    BY <1>0, <1>4 DEF UpsertDemo, At, Request
  <2>3. useCases'[u].demo = 1 /\ useCases'[u].code = req[w].says.code
    BY <2>1, <2>2, UpsertedRow, UseCaseAdminAssumption
  <2>4. QED
    BY <1>4, <2>3 DEF Regular
<1>5. CASE Upsert(w) /\ u = req[w].id
  <2>1. Upserted(u, req[w].says) /\ req[w].says \in Says
    BY <1>5, UpsertStores
  <2>2. req[w].says.code \in {NoCode, Same}
    BY <1>5, <2>1 DEF Upsert, Apart, Says
  <2>3. Old(u).code = NoCode
    <3>1. ~Coded(u)
      BY <1>0, <1>5 DEF SaveChecked, Upsert
    <3>2. Exists(u) => Regular(u) \/ Demo(u)
      BY DEF Exists, Regular, Demo, TypeOK, Rows
    <3>3. Exists(u) => useCases[u].code = NoCode
      BY <1>0, <3>1, <3>2 DEF Coded, CodesKept
    <3>4. QED
      BY <3>3 DEF Old
  <2>4. useCases'[u].code = NoCode
    BY <2>1, <2>2, <2>3, UpsertedRow
  <2>5. QED
    BY <2>4 DEF Coded
<1>6. QED
  BY <1>1, <1>2, <1>3, <1>4, <1>5, RowChanges

LEMMA CodesStep ==
  ASSUME TypeOK, Noticed, SavesKept, CodesKept, NEW w \in Workers, Act(w)
  PROVE  CodesKept'
<1> SUFFICES ASSUME Apart'
             PROVE  /\ \A u \in UseCaseIds : Regular(u)' => useCases'[u].code = NoCode
                    /\ \A u, v \in UseCaseIds :
                         Coded(u)' /\ Coded(v)' /\ useCases'[v].code = useCases'[u].code => v = u
                    /\ \A x \in Workers, v \in UseCaseIds :
                         Saving(x)' /\ Coded(v)' /\ useCases'[v].code = req'[x].says.code
                         => v = req'[x].id
  BY DEF CodesKept, FreeBut
<1>0. Apart /\ "save" \notin met /\ "draw" \notin met
  BY OneMoves, MetStays DEF Apart
<1>1. \A u, v \in UseCaseIds : Coded(u) /\ Coded(v) /\ useCases[v].code = useCases[u].code => v = u
  BY <1>0 DEF CodesKept, FreeBut
<1>2. \A x \in Workers, v \in UseCaseIds :
        Saving(x) /\ Coded(v) /\ useCases[v].code = req[x].says.code => v = req[x].id
  BY <1>0 DEF CodesKept, FreeBut
<1>3. UpsertDemo(w) => Saving(w)
  BY DEF UpsertDemo, Saving, At
<1>4. \A u \in UseCaseIds : Regular(u)' => useCases'[u].code = NoCode
  BY CodesGiven
<1>5. ASSUME NEW u \in UseCaseIds, NEW v \in UseCaseIds, Coded(u)', Coded(v)',
             useCases'[v].code = useCases'[u].code
      PROVE  v = u
  <2>1. CASE Coded(u) /\ useCases'[u].code = useCases[u].code
    <3>1. CASE Coded(v) /\ useCases'[v].code = useCases[v].code
      BY <1>1, <1>5, <2>1, <3>1
    <3>2. CASE UpsertDemo(w) /\ v = req[w].id /\ useCases'[v].code = req[w].says.code
      BY <1>2, <1>3, <1>5, <2>1, <3>2
    <3>3. QED
      BY <1>5, <3>1, <3>2, CodesGiven
  <2>2. CASE UpsertDemo(w) /\ u = req[w].id /\ useCases'[u].code = req[w].says.code
    <3>1. CASE Coded(v) /\ useCases'[v].code = useCases[v].code
      BY <1>2, <1>3, <1>5, <2>2, <3>1
    <3>2. CASE v = req[w].id
      BY <2>2, <3>2
    <3>3. QED
      BY <1>5, <3>1, <3>2, CodesGiven
  <2>3. QED
    BY <1>5, <2>1, <2>2, CodesGiven
<1>6. ASSUME NEW x \in Workers, NEW v \in UseCaseIds, Saving(x)', Coded(v)',
             useCases'[v].code = req'[x].says.code
      PROVE  v = req'[x].id
  <2>1. CASE x # w
    <3>1. req'[x] = req[x] /\ Saving(x)
      BY <1>6, <2>1, OneMoves DEF Saving
    <3>2. CASE Coded(v) /\ useCases'[v].code = useCases[v].code
      BY <1>2, <1>6, <3>1, <3>2
    <3>3. CASE UpsertDemo(w) /\ v = req[w].id /\ useCases'[v].code = req[w].says.code
      <4>1. req[x].id # req[w].id => Meet("draw", x, w)
        BY <1>3, <1>6, <3>1, <3>3 DEF Meet
      <4>2. QED
        BY <1>0, <2>1, <3>1, <3>3, <4>1, MeetingIsNoticed
    <3>4. QED
      BY <1>6, <3>2, <3>3, CodesGiven
  <2>2. CASE x = w /\ req'[w].next = "get demo"
    <3>1. PICK u \in UseCaseIds, c \in Codes : SaveDemo(w, u, c) /\ req'[w].says.code = c
      BY <2>2, SaveOpens
    <3>2. useCases' = useCases /\ ~(Demo(v) /\ useCases[v].code = c)
      BY <3>1 DEF SaveDemo, Begins, database
    <3>3. QED
      BY <1>6, <2>2, <3>1, <3>2 DEF Coded, Demo, Exists
  <2>3. CASE x = w /\ req'[w].next = "upsert demo"
    <3>1. GetDemo(w) /\ useCases' = useCases /\ Saving(w)
      BY <2>3, SaveOpens DEF GetDemo, database, Saving, At
    <3>2. Request(req[w]) /\ w \in DOMAIN req
      BY DEF TypeOK
    <3>3. PICK u \in UseCaseIds : u = req[w].id
      BY <3>1, <3>2 DEF GetDemo, At, Request, Transactions
    <3>4. /\ req'[w].id = u
          /\ req'[w].says.code = IF Coded(u) THEN useCases[u].code ELSE req[w].says.code
      BY <3>1, <3>2, <3>3 DEF GetDemo, Request
    <3>5. Coded(v)
      BY <1>6, <3>1 DEF Coded, Demo, Exists
    <3>6. QED
      BY <1>1, <1>2, <1>6, <2>3, <3>1, <3>3, <3>4, <3>5
  <2>4. QED
    BY <1>6, <2>1, <2>2, <2>3 DEF Saving
<1>7. QED
  BY <1>4, <1>5, <1>6

-----------------------------------------------------------------------------
(***************************************************************************)
(* The active use case                                                     *)
(***************************************************************************)
\* A worker that is about to delete or activate has just made its check
LEMMA CheckOpens ==
  ASSUME TypeOK, NEW w \in Workers, Act(w), req'[w].next \in {"active?", "activate", "delete"}
  PROVE  /\ useCases' = useCases /\ activeId' = activeId
         /\ \E u \in UseCaseIds :
              /\ req'[w].id = u
              /\ req'[w].next \in {"active?", "activate"} => Exists(u) \/ ActiveListed(w)
              /\ req'[w].next \in {"active?", "activate"} /\ ActiveListed(w) => req[w].id = u
              /\ req'[w].next = "delete" => u # activeId
<1>0. Request(req[w]) /\ w \in DOMAIN req
  BY DEF TypeOK
<1>1. ASSUME NEW next, NEW id, NEW says, NEW listed, Begins(w, next, id, says, listed)
      PROVE  /\ req'[w].next = next /\ req'[w].id = id
             /\ useCases' = useCases /\ activeId' = activeId
  BY <1>1 DEF Begins, Idle, TypeOK, database
<1>2. CASE Reset(w)
  <2>1. req'[w].next = "wipe"
    BY <1>1, <1>2 DEF Reset
  <2>2. QED
    BY <2>1
<1>3. CASE \/ \E u \in UseCaseIds, body \in Bodies : Create(w, u, body) \/ Update(w, u, body)
           \/ \E u \in UseCaseIds, c \in Codes : SaveDemo(w, u, c)
           \/ \E u \in UseCaseIds : DeleteDemo(w, u)
  <2>1. req'[w].next \in {"upsert", "get demo", "demo inactive?"}
    BY <1>1, <1>3 DEF Create, Update, SaveDemo, DeleteDemo
  <2>2. QED
    BY <2>1
<1>4. ASSUME NEW u \in UseCaseIds, Delete(w, u)
      PROVE  /\ req'[w].next = "delete" /\ req'[w].id = u /\ u # activeId
             /\ useCases' = useCases /\ activeId' = activeId
  BY <1>1, <1>4 DEF Delete
<1>5. ASSUME NEW u \in UseCaseIds, Activate(w, u) \/ View(w, u)
      PROVE  /\ req'[w].next \in {"active?", "activate"} /\ req'[w].id = u /\ Exists(u)
             /\ useCases' = useCases /\ activeId' = activeId
  BY <1>1, <1>5 DEF Activate, View, Regular
<1>6. CASE Fails(w) \/ Killed(w)
  <2>1. req'[w] = Idle \/ req'[w] = Down
    BY <1>6 DEF Fails, Killed, Ends, TypeOK
  <2>2. Idle.next = "none" /\ Down.next = "start"
    BY DEF Idle, Down
  <2>3. QED
    BY <2>1, <2>2
<1>7. CASE Step(w) /\ ~ActiveListed(w) /\ ~DemoInactive(w)
  <2>1. CASE GetDemo(w)
    <3>1. req'[w].next = "upsert demo"
      BY <1>0, <2>1 DEF GetDemo, Request
    <3>2. QED
      BY <3>1
  <2>2. CASE ~GetDemo(w)
    <3>1. Ends(w) \/ \E next \in Starting, n \in {0, 1, req[w].n + 1} : Goes(w, next, n)
      BY <1>7, <2>2 DEF Step, Start, Count, SeedOne, SeedLoses, SeedFails, SeedConfig, ConfigFails,
                        Wipe, Upsert, UcDelete, SetActive, UpsertDemo, Starting
    <3>2. Ends(w) => req'[w].next = "none"
      BY DEF Ends, Idle, TypeOK
    <3>3. ASSUME NEW next \in Starting, NEW n, Goes(w, next, n) PROVE req'[w].next = next
      BY <3>3 DEF Goes, TypeOK, Request
    <3>4. QED
      BY <3>1, <3>2, <3>3 DEF Starting
  <2>3. QED
    BY <2>1, <2>2
<1>8. CASE ActiveListed(w) \/ DemoInactive(w)
  <2>1. useCases' = useCases /\ activeId' = activeId
    BY <1>8 DEF ActiveListed, DemoInactive, database
  <2>2. PICK u \in UseCaseIds : u = req[w].id
    BY <1>0, <1>8 DEF ActiveListed, DemoInactive, At, Request, Transactions
  <2>3. Ends(w) => req'[w].next = "none"
    BY DEF Ends, Idle, TypeOK
  <2>4. ~Ends(w)
    BY <2>3
  <2>5. CASE ActiveListed(w)
    <3>1. Goes(w, "activate", 0)
      BY <2>4, <2>5 DEF ActiveListed
    <3>2. req'[w].next = "activate" /\ req'[w].id = u
      BY <1>0, <2>2, <3>1 DEF Goes, Request
    <3>3. QED
      BY <2>1, <2>2, <2>5, <3>2
  <2>6. CASE DemoInactive(w)
    <3>1. Goes(w, "delete", 0) /\ u # activeId
      BY <2>2, <2>4, <2>6 DEF DemoInactive
    <3>2. req'[w].next = "delete" /\ req'[w].id = u
      BY <1>0, <2>2, <3>1 DEF Goes, Request
    <3>3. QED
      BY <2>1, <2>2, <2>6, <3>1, <3>2
  <2>7. QED
    BY <1>8, <2>5, <2>6
<1>9. CASE \E u \in UseCaseIds : Delete(w, u)
  BY <1>4, <1>9
<1>10. CASE \E u \in UseCaseIds : Activate(w, u) \/ View(w, u)
  <2>1. PICK u \in UseCaseIds : Activate(w, u) \/ View(w, u)
    BY <1>10
  <2>2. /\ req'[w].next \in {"active?", "activate"} /\ req'[w].id = u /\ Exists(u)
        /\ useCases' = useCases /\ activeId' = activeId
    BY <1>5, <2>1
  <2>3. ~ActiveListed(w)
    BY <2>1 DEF Activate, View, Begins, ActiveListed, At, Idle
  <2>4. QED
    BY <2>2, <2>3
<1>11. QED
  BY <1>2, <1>3, <1>6, <1>7, <1>8, <1>9, <1>10 DEF Act

\* Who names another active use case
LEMMA ActiveChanges ==
  ASSUME TypeOK, NEW w \in Workers, Act(w), activeId' # activeId
  PROVE  \/ Wipe(w) /\ activeId' = Unset
         \/ SetActive(w)
         \/ SeedConfig(w) /\ activeId = Unset /\ activeId' = Default
BY DEF Act, Reset, Create, Update, Delete, Activate, View, DeleteDemo, SaveDemo, Begins, Step,
       Start, Count, SeedOne, SeedLoses, SeedFails, SeedConfig, ConfigFails, Wipe, Upsert, UcDelete,
       ActiveListed, SetActive, GetDemo, UpsertDemo, DemoInactive, Fails, Killed, Active, database

LEMMA CheckedStep ==
  ASSUME TypeOK, Noticed, ActiveKept, NEW w \in Workers, Act(w), Calm', NEW v \in Workers
  PROVE  Checked(v)'
<1>0. /\ Calm /\ Checked(v) /\ Checked(w) /\ Request(req[v]) /\ Request(req[w])
      /\ "reset" \notin met /\ "deletion" \notin met
  BY OneMoves, MetStays DEF Calm, ActiveKept, TypeOK
<1>1. SUFFICES ASSUME req'[v].next \in {"active?", "activate", "delete"} PROVE Checked(v)'
  BY DEF Checked, At
<1>2. CASE v = w
  <2>1. PICK u \in UseCaseIds :
          /\ req'[w].id = u
          /\ req'[w].next \in {"active?", "activate"} => Exists(u) \/ ActiveListed(w)
          /\ req'[w].next \in {"active?", "activate"} /\ ActiveListed(w) => req[w].id = u
          /\ req'[w].next = "delete" => u # activeId
    BY <1>1, <1>2, CheckOpens
  <2>2. useCases' = useCases /\ activeId' = activeId
    BY <1>1, <1>2, CheckOpens
  <2>3. req'[w].next \in {"active?", "activate"} => Exists(u)
    BY <1>0, <2>1 DEF Checked, ActiveListed, At
  <2>4. QED
    BY <1>2, <2>1, <2>2, <2>3 DEF Checked, At, Exists
<1>3. CASE v # w
  <2>1. req'[v] = req[v] /\ req[v].next \in {"active?", "activate", "delete"}
    BY <1>1, <1>3, OneMoves
  <2>2. PICK u \in UseCaseIds : u = req[v].id
    BY <1>0, <2>1 DEF Request, Transactions
  <2>3. ~Wipe(w)
    <3>1. req[v] # Idle
      BY <2>1 DEF Idle
    <3>2. Wipe(w) => Meet("reset", w, v)
      BY <3>1 DEF Wipe, Meet
    <3>3. QED
      BY <1>0, <1>3, <3>2, MeetingIsNoticed
  <2>4. CASE req[v].next \in {"active?", "activate"}
    <3>1. UcDelete(w) /\ u = req[w].id => Meet("deletion", w, v)
      BY <2>2, <2>4 DEF UcDelete, Meet
    <3>2. ~(UcDelete(w) /\ u = req[w].id)
      BY <1>0, <1>3, <3>1, MeetingIsNoticed
    <3>3. Exists(u)
      BY <1>0, <2>2, <2>4 DEF Checked
    <3>4. useCases'[u] # Absent
      BY <2>3, <3>2, <3>3, UseCasesStay DEF Exists
    <3>5. QED
      BY <2>1, <2>2, <2>4, <3>4 DEF Checked, At, Exists
  <2>5. CASE req[v].next = "delete"
    <3>1. u # activeId
      BY <1>0, <2>2, <2>5 DEF Checked, At
    <3>2. CASE activeId' = activeId
      BY <2>1, <2>2, <2>5, <3>1, <3>2 DEF Checked, At
    <3>3. CASE SetActive(w)
      <4>1. req[w].id = u => Meet("deletion", v, w)
        BY <2>2, <2>5, <3>3 DEF SetActive, Meet, At
      <4>2. activeId' # u
        BY <1>0, <1>3, <3>3, <4>1, MeetingIsNoticed DEF SetActive
      <4>3. QED
        BY <2>1, <2>2, <2>5, <4>2 DEF Checked, At
    <3>4. CASE SeedConfig(w) /\ activeId = Unset
      <4>1. Meet("reset", w, v)
        BY <2>5, <3>4 DEF SeedConfig, Meet, At, Starting, Serving
      <4>2. QED
        BY <1>0, <1>3, <4>1, MeetingIsNoticed
    <3>5. QED
      BY <2>3, <3>2, <3>3, <3>4, ActiveChanges
  <2>6. QED
    BY <2>1, <2>4, <2>5
<1>4. QED
  BY <1>2, <1>3

\* While nothing is named yet, whoever moves seeds, or is killed
LEMMA OnlySeeding ==
  ASSUME TypeOK, Noticed, NEW w \in Workers, Act(w), Calm', Calm, activeId = Unset,
         NEW s \in Workers, req[s].next \in Starting
  PROVE  Killed(w) \/ Start(w) \/ Count(w) \/ SeedOne(w) \/ SeedLoses(w) \/ SeedConfig(w)
<1>0. "reset" \notin met /\ "reset" \notin met' /\ ~unseeded'
  BY DEF Calm
<1>1. ~Serving(w)
  <2>1. Serving(w) => s # w
    BY DEF Serving
  <2>2. Serving(w) => Meet("reset", s, w)
    BY DEF Meet
  <2>3. QED
    BY <1>0, <2>1, <2>2, MeetingIsNoticed
<1>2. ASSUME NEW next \in {"wipe"} \cup Transactions, NEW id, NEW says, NEW listed,
             Begins(w, next, id, says, listed)
      PROVE  FALSE
  <2>1. req[w] = Idle /\ req'[w].next = next /\ activeId' = activeId /\ Noted
    BY <1>2 DEF Begins, Idle, TypeOK, database
  <2>2. s # w
    BY <2>1 DEF Idle, Starting
  <2>3. req'[s] = req[s]
    BY <2>2, OneMoves
  <2>4. Serving(w)'
    BY <2>1 DEF Serving, Starting, Transactions
  <2>5. Meet("reset", s, w)'
    BY <2>1, <2>3, <2>4 DEF Meet
  <2>6. "reset" \in Overlaps'
    BY <2>2, <2>5 DEF Overlaps
  <2>7. QED
    BY <1>0, <2>1, <2>6 DEF Noted
<1>3. ~Reset(w)
  <2>1. Reset(w) => Begins(w, "wipe", Unset, Silent, {})
    BY DEF Reset
  <2>2. QED
    BY <1>2, <2>1
<1>4. \A u \in UseCaseIds, body \in Bodies : ~Create(w, u, body) /\ ~Update(w, u, body)
  <2>1. ASSUME NEW u, NEW body, Begins(w, "upsert", u, body, {}) PROVE FALSE
    BY <1>2, <2>1 DEF Transactions
  <2>2. QED
    BY <2>1 DEF Create, Update
<1>5. \A u \in UseCaseIds, c \in Codes : ~SaveDemo(w, u, c)
  <2>1. ASSUME NEW u, NEW c, Begins(w, "get demo", u, [demo |-> 1, code |-> c], {}) PROVE FALSE
    BY <1>2, <2>1 DEF Transactions
  <2>2. QED
    BY <2>1 DEF SaveDemo
<1>6. \A u \in UseCaseIds : ~Delete(w, u) /\ ~Activate(w, u) /\ ~View(w, u) /\ ~DeleteDemo(w, u)
  <2>1. ASSUME NEW u, NEW next \in {"delete", "activate", "active?", "demo inactive?"}, NEW listed,
               Begins(w, next, u, Silent, listed)
        PROVE  FALSE
    BY <1>2, <2>1 DEF Transactions
  <2>2. QED
    BY <2>1 DEF Delete, Activate, View, DeleteDemo
<1>7. ~SeedFails(w) /\ ~ConfigFails(w)
  BY <1>0 DEF SeedFails, ConfigFails
<1>8. ~Fails(w)
  <2>1. Fails(w) => req[w].next \notin Transactions
    BY <1>1 DEF Serving, Starting, Transactions
  <2>2. QED
    BY <1>0, <2>1 DEF Fails
<1>9. /\ ~Wipe(w) /\ ~Upsert(w) /\ ~UcDelete(w) /\ ~ActiveListed(w) /\ ~SetActive(w)
      /\ ~GetDemo(w) /\ ~UpsertDemo(w) /\ ~DemoInactive(w)
  BY <1>1 DEF Serving, Starting, Wipe, Upsert, UcDelete, ActiveListed, SetActive, GetDemo,
              UpsertDemo, DemoInactive, At
<1>10. QED
  BY <1>3, <1>4, <1>5, <1>6, <1>7, <1>8, <1>9 DEF Act, Step

\* From an empty table on, the default use case is seeded first, then named
LEMMA SeedingStep ==
  ASSUME TypeOK, Noticed, NEW w \in Workers, Act(w), Calm', Calm,
         activeId = Unset, NEW s \in Workers, req[s].next \in Starting,
         \/ Exists(Default)
         \/ /\ \A u \in UseCaseIds : ~Exists(u)
            /\ \A v \in Workers : ~At(v, "config") /\ (At(v, "seed") => req[v].n = 1)
  PROVE  Seeded'
<1>0. Request(req[w]) /\ w \in DOMAIN req /\ Default \in UseCaseIds
  BY SeedsNotEmpty DEF TypeOK
<1>1. \A v \in Workers : v # w => req'[v] = req[v]
  BY OneMoves
<1> DEFINE Empty == \A u \in UseCaseIds : ~Exists(u)
<1>2. ASSUME useCases' = useCases, activeId' = activeId, req'[w].next \in Starting,
             Exists(Default) \/ (Empty /\ req'[w].next # "config" /\ (req'[w].next = "seed" => req'[w].n = 1))
      PROVE  Seeded'
  <2>1. \E v \in Workers : req'[v].next \in Starting
    BY <1>2
  <2>2. CASE Exists(Default)
    BY <1>2, <2>1, <2>2 DEF Seeded, Exists
  <2>3. CASE ~Exists(Default)
    <3>1. \A v \in Workers : ~(req'[v].next = "config") /\ (req'[v].next = "seed" => req'[v].n = 1)
      BY <1>1, <1>2, <2>3 DEF At
    <3>2. \A u \in UseCaseIds : ~Exists(u)'
      BY <1>2, <2>3 DEF Exists
    <3>3. QED
      BY <1>2, <2>1, <3>1, <3>2 DEF Seeded, At
  <2>4. QED
    BY <2>2, <2>3
<1>3. ASSUME NEW next, NEW n, Goes(w, next, n) PROVE req'[w].next = next /\ req'[w].n = n
  BY <1>0, <1>3 DEF Goes, Request
<1>4. CASE Killed(w)
  <2>1. req'[w] = Down
    BY <1>0, <1>4 DEF Killed
  <2>2. req'[w].next = "start" /\ useCases' = useCases /\ activeId' = activeId
    BY <1>4, <2>1 DEF Killed, database, Down, Idle
  <2>3. QED
    BY <1>2, <2>2 DEF Starting
<1>5. CASE Start(w)
  <2>1. req'[w].next = "count" /\ useCases' = useCases /\ activeId' = activeId
    BY <1>3, <1>5 DEF Start, database
  <2>2. QED
    BY <1>2, <2>1 DEF Starting
<1>6. CASE Count(w)
  <2>1. useCases' = useCases /\ activeId' = activeId
    BY <1>6 DEF Count, database
  <2>2. CASE Exists(Default)
    <3>1. Goes(w, "config", 0)
      BY <1>0, <1>6, <2>2 DEF Count
    <3>2. req'[w].next = "config"
      BY <1>3, <3>1
    <3>3. QED
      BY <1>2, <2>1, <2>2, <3>2 DEF Starting
  <2>3. CASE Empty
    <3>1. Goes(w, "seed", 1)
      BY <1>6, <2>3 DEF Count
    <3>2. req'[w].next = "seed" /\ req'[w].n = 1
      BY <1>3, <3>1
    <3>3. QED
      BY <1>2, <2>1, <2>3, <3>2 DEF Starting
  <2>4. QED
    BY <2>2, <2>3
<1>7. CASE SeedOne(w)
  <2>1. activeId' = activeId
    BY <1>7 DEF SeedOne
  <2>2. req'[w].next \in Starting
    BY <1>3, <1>7 DEF SeedOne, Starting
  <2>3. useCases'[Default] # Absent
    <3>1. CASE Exists(Default)
      <4>1. ~Wipe(w) /\ ~UcDelete(w)
        BY <1>7 DEF SeedOne, Wipe, UcDelete, At
      <4>2. QED
        BY <1>0, <3>1, <4>1, UseCasesStay DEF Exists
    <3>2. CASE ~Exists(Default)
      <4>1. Seeds[req[w].n] = Default
        BY <1>7, <3>2, SeedsNotEmpty DEF SeedOne
      <4>2. Upserted(Default, Silent)
        BY <1>7, <4>1 DEF SeedOne
      <4>3. QED
        BY <1>0, <4>2, SilentSays, UpsertedRow, AbsentIsNoRow
    <3>3. QED
      BY <3>1, <3>2
  <2>4. QED
    BY <2>1, <2>2, <2>3 DEF Seeded, Exists
<1>8. CASE SeedLoses(w)
  <2>1. useCases' = useCases /\ activeId' = activeId /\ Goes(w, "config", 0)
    BY <1>8 DEF SeedLoses, database
  <2>2. req'[w].next = "config"
    BY <1>3, <2>1
  <2>3. Seeds[req[w].n] \in UseCaseIds /\ Exists(Seeds[req[w].n])
    BY <1>0, <1>8, SeedsNotEmpty DEF SeedLoses, At, Request
  <2>4. Exists(Default)
    BY <2>3
  <2>5. QED
    BY <1>2, <2>1, <2>2, <2>4 DEF Starting
<1>9. CASE SeedConfig(w)
  <2>1. activeId' = Default /\ useCases' = useCases
    BY <1>9 DEF SeedConfig, Active
  <2>2. Exists(Default)
    BY <1>9 DEF SeedConfig
  <2>3. QED
    BY <1>0, <2>1, <2>2, UseCaseAdminAssumption DEF Seeded, Exists
<1>10. QED
  BY <1>4, <1>5, <1>6, <1>7, <1>8, <1>9, OnlySeeding

LEMMA SeededStep ==
  ASSUME TypeOK, Noticed, ActiveKept, NEW w \in Workers, Act(w), Calm'
  PROVE  Seeded'
<1>0. Calm /\ Seeded /\ Checked(w) /\ "reset" \notin met
  BY OneMoves, MetStays DEF Calm, ActiveKept
<1>1. CASE activeId = Unset
  BY <1>0, <1>1, SeedingStep DEF Seeded
<1>2. CASE activeId # Unset
  <2>0. activeId \in UseCaseIds /\ Exists(activeId)
    BY <1>0, <1>2 DEF Seeded, TypeOK
  <2>1. CASE Wipe(w) /\ activeId' # activeId
    <3>1. \A u \in UseCaseIds : useCases'[u] = Absent
      BY <2>1 DEF Wipe, database
    <3>2. activeId' = Unset
      BY <2>1 DEF Wipe, database
    <3>3. req'[w].next = "count"
      BY <2>1 DEF Wipe, Goes, TypeOK, Request
    <3>4. \A v \in Workers : v # w => req'[v] = Idle
      <4>1. ASSUME NEW v \in Workers, v # w, req[v] # Idle PROVE FALSE
        <5>1. Meet("reset", w, v)
          BY <2>1, <4>1 DEF Wipe, Meet
        <5>2. QED
          BY <1>0, <4>1, <5>1, MeetingIsNoticed
      <4>2. QED
        BY <4>1, OneMoves
    <3>5. \A v \in Workers : req'[v].next \in {"count", "none"}
      BY <3>3, <3>4 DEF Idle
    <3>6. \A v \in Workers : ~(req'[v].next = "config") /\ ~(req'[v].next = "seed")
      BY <3>5
    <3>7. QED
      BY <3>1, <3>2, <3>3, <3>6 DEF Seeded, Exists, At, Starting
  <2>2. CASE SetActive(w)
    <3>1. PICK u \in UseCaseIds : u = req[w].id
      BY <2>2 DEF SetActive, At, TypeOK, Request, Transactions
    <3>2. activeId' = u /\ Exists(u) /\ useCases' = useCases
      BY <1>0, <2>2, <3>1 DEF SetActive, Checked, At
    <3>3. QED
      BY <3>2, UseCaseAdminAssumption DEF Seeded, Exists
  <2>3. CASE activeId' = activeId /\ useCases'[activeId] # Absent
    BY <1>2, <2>3 DEF Seeded, Exists
  <2>4. CASE activeId' = activeId /\ useCases'[activeId] = Absent
    <3>1. Wipe(w) \/ (UcDelete(w) /\ activeId = req[w].id)
      <4>1. PICK u \in UseCaseIds : u = activeId
        BY <2>0
      <4>2. Exists(u) /\ ~Exists(u)'
        BY <2>0, <2>4, <4>1 DEF Exists
      <4>3. QED
        BY <4>1, <4>2, UseCasesStay
    <3>2. ~(UcDelete(w) /\ activeId = req[w].id)
      BY <1>0 DEF UcDelete, Checked
    <3>3. CASE Wipe(w)
      BY <1>2, <2>0, <2>4, <3>3 DEF Wipe, database, Exists
    <3>4. QED
      BY <3>1, <3>2, <3>3
  <2>5. QED
    BY <1>2, <2>1, <2>2, <2>3, <2>4, ActiveChanges
<1>3. QED
  BY <1>1, <1>2

LEMMA InductiveInit == ASSUME Init, Workers # {} PROVE Inductive
<1>1. \A w \in Workers : req[w].next = "start"
  BY DEF Init, Down, Idle
<1>2. Overlaps = {}
  BY <1>1 DEF Overlaps, Meet, Serving, Saving, Starting, At
<1>3. Seeded /\ \A w \in Workers : Checked(w)
  BY <1>1 DEF Seeded, Checked, Init, Starting, At, Exists
<1>4. QED
  BY <1>1, <1>2, <1>3
     DEF Inductive, Noticed, ActiveKept, SavesKept, SaveChecked, CodesKept, Init, At, Coded, Demo,
         Regular, Exists, Saving

LEMMA InductiveStep ==
  ASSUME TypeOK, Inductive, [Next]_vars PROVE Inductive'
<1>1. ASSUME NEW w \in Workers, Act(w) PROVE Inductive'
  <2>1. Noticed'
    BY NoticedStep DEF Inductive
  <2>2. ActiveKept'
    BY <1>1, SeededStep, CheckedStep DEF Inductive, ActiveKept
  <2>3. SavesKept' /\ CodesKept'
    BY <1>1, SavesStep, CodesStep DEF Inductive
  <2>4. QED
    BY <2>1, <2>2, <2>3 DEF Inductive
<1>2. CASE Elsewhere
  <2>1. Noticed'
    BY NoticedStep DEF Inductive
  <2>2. ActiveKept'
    BY <1>2 DEF Elsewhere, Inductive, ActiveKept, Calm, Seeded, Checked, At, Exists
  <2>3. SavesKept' /\ CodesKept'
    BY <1>2 DEF Elsewhere, Inductive, SavesKept, SaveChecked, CodesKept, Apart, FreeBut, Coded,
                Demo, Regular, Exists, Saving, At
  <2>4. QED
    BY <2>1, <2>2, <2>3 DEF Inductive
<1>3. QED
  BY <1>1, <1>2, NextActs

\* For any number of workers: what a handler has checked still holds when it acts on it, the
\* active use case is named and there from the first start on, and the codes in the handlers'
\* hands are free, as long as no handlers overlap in one of the ways of Overlaps.
THEOREM InductiveCorrect == ASSUME Workers # {} PROVE Spec => []Inductive
<1>1. Init => Inductive
  BY InductiveInit
<1>2. TypeOK /\ Inductive /\ [Next]_vars => Inductive'
  BY InductiveStep
<1>3. QED
  BY <1>1, <1>2, TypeCorrect, PTL DEF Spec

\* For any number of workers, the use case that answers the calls exists, whatever fails and
\* whoever is killed, but for a seeding left incomplete, a reset overlapped by another handler,
\* or a deletion by an activation of the same use case.
THEOREM ActiveCorrect == ASSUME Workers # {} PROVE Spec => []ActiveIsThere
<1>1. Inductive => ActiveIsThere
  BY DEF Inductive, ActiveKept, Calm, Seeded, ActiveIsThere, Active
<1>2. QED
  BY <1>1, InductiveCorrect, PTL

\* For any number of workers, no two demos have one code, whichever is saved again, unless
\* two overlapping handlers drew it or saved one use case, or a request named a code.
THEOREM DistinctCorrect == ASSUME Workers # {} PROVE Spec => []CodesDistinct
<1>1. Inductive => CodesDistinct
  BY DEF Inductive, CodesKept, Apart, FreeBut, CodesDistinct
<1>2. QED
  BY <1>1, InductiveCorrect, PTL

\* For any number of workers, a demo keeps its code for as long as it exists, however often it
\* is saved, unless two handlers saved one use case at the same time.
THEOREM CodeCorrect == ASSUME Workers # {} PROVE Spec => CodeStays
<1> DEFINE Stays ==
      \A u \in UseCaseIds :
        Coded(u) /\ Exists(u)' => useCases[u].code = useCases[u].code' \/ "save" \in met
<1>1. TypeOK /\ Inductive /\ [Next]_vars => [Stays]_vars
  <2> SUFFICES ASSUME TypeOK, Inductive, Next, NEW u \in UseCaseIds, Coded(u), Exists(u)',
                      "save" \notin met
               PROVE  useCases'[u].code = useCases[u].code
    OBVIOUS
  <2>1. CASE Elsewhere
    BY <2>1 DEF Elsewhere
  <2>2. ASSUME NEW w \in Workers, Act(w) PROVE useCases'[u].code = useCases[u].code
    <3>0. SaveChecked(w) /\ Request(req[w])
      BY DEF Inductive, SavesKept, TypeOK
    <3>1. ~(Upsert(w) /\ u = req[w].id)
      BY <3>0 DEF SaveChecked, Upsert
    <3>2. CASE UpsertDemo(w) /\ u = req[w].id
      <4>1. req[w].says.code = useCases[u].code /\ req[w].says.code \in Codes
        BY <3>0, <3>2 DEF SaveChecked, UpsertDemo, At, Request
      <4>2. Upserted(u, req[w].says) /\ req[w].says \in Says
        BY <3>2, UpsertStores
      <4>3. useCases'[u].code = req[w].says.code
        BY <4>1, <4>2, UpsertedRow, UseCaseAdminAssumption
      <4>4. QED
        BY <4>1, <4>3
    <3>3. QED
      BY <2>2, <3>1, <3>2, RowChanges DEF Coded, Demo
  <2>3. QED
    BY <2>1, <2>2, NextActs
<1>2. QED
  BY <1>1, TypeCorrect, InductiveCorrect, PTL DEF Spec, CodeStays
=============================================================================
