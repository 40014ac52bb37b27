---------------------------- MODULE UseCaseAdmin ----------------------------
(***************************************************************************)
(* Use cases and demos: their seeding at the first start, what the admin   *)
(* pages do to them (routes/admin.py), and the callers' profiles that live *)
(* calls write (db.py, use_case_loader.py, app.py).                        *)
(*                                                                         *)
(* A handler is a sequence of database transactions. Each gunicorn worker  *)
(* runs one handler at a time, the workers' transactions interleave, and   *)
(* the realtime process writes profiles in between; a transaction may fail *)
(* for good and a worker may be killed, and is then started again.         *)
(***************************************************************************)
EXTENDS Naturals, Sequences

CONSTANTS
  Workers,    \* gunicorn's workers (GUNICORN_WORKERS)
  UseCaseIds, \* the ids in use
  Seeds,      \* the use cases of use_cases.json, in their order
  Codes,      \* demo codes: six digits, here enough of them
  Phones,     \* callers of demos
  NoCode, Unset, \* no demo code; no use case
  Same,       \* what a request's JSON does not say
  Bodies,     \* what the JSON of a request about a use case says of is_demo and demo_code
  MaxFaults   \* bound on failed transactions and killed workers

Default == Head(Seeds)  \* "robles_ai", the default everywhere

ASSUME UseCaseAdminAssumption ==
  /\ Seeds \in Seq(UseCaseIds) /\ Seeds # <<>>
  /\ NoCode \notin Codes
  /\ Unset \notin UseCaseIds \cup Codes \cup {NoCode}
  /\ Same \notin {0, 1} \cup Codes \cup {NoCode}
  /\ Bodies \subseteq [demo : {0, 1, Same}, code : Codes \cup {NoCode, Same}]
  /\ MaxFaults \in Nat

VARIABLES
  \* PostgreSQL
  useCases, \* use_cases: absent, or is_demo and demo_code
  activeId, \* config use_case_id
  profiles, \* caller_profiles: <<phone, use case>>
  \* the processes
  req,      \* what each worker is doing: its next transaction, a use case, what is to be stored,
            \* the use cases it has listed, a position in Seeds, and whether it is starting
  calls,    \* the demo each caller is talking to
  faults,
  \* history variables
  unseeded, \* a failure left a seeding incomplete
  named,    \* a request about a use case named a demo code
  met       \* the kinds of handlers that have overlapped

database == <<useCases, activeId, profiles>>
vars     == <<database, req, calls, faults, unseeded, named, met>>

Absent  == [demo |-> 0, code |-> Unset]
Rows    == [demo : {0, 1}, code : Codes \cup {NoCode}]
Silent  == [demo |-> Same, code |-> Same]
Idle    == [next |-> "none", id |-> Unset, says |-> Silent, listed |-> {}, n |-> 0,
            boots |-> FALSE]
Down    == [Idle EXCEPT !.next = "start", !.boots = TRUE]

Exists(u)  == useCases[u] # Absent
Regular(u) == Exists(u) /\ useCases[u].demo = 0
Demo(u)    == Exists(u) /\ useCases[u].demo = 1
Coded(u)   == Demo(u) /\ useCases[u].code # NoCode

\* runtime_config.get("use_case_id", the default)
Active == IF activeId = Unset THEN Default ELSE activeId

\* An empty database, and every worker about to start
Init ==
  /\ useCases = [u \in UseCaseIds |-> Absent]
  /\ activeId = Unset
  /\ profiles = {}
  /\ req = [w \in Workers |-> Down]
  /\ calls = [p \in Phones |-> Unset]
  /\ faults = 0
  /\ unseeded = FALSE /\ named = FALSE /\ met = {}

-----------------------------------------------------------------------------
(***************************************************************************)
(* Handlers of two workers that overlap. No lock or constraint of the      *)
(* database keeps them apart, and each checks in one transaction what it   *)
(* relies on in a later one.                                               *)
(***************************************************************************)
At(w, next) == req[w].next = next

Starting == {"start", "count", "seed", "config"}

Serving(w) == req[w].next \notin Starting \cup {"none"}
Saving(w)  == req[w].next \in {"get demo", "upsert demo"}

Meet(kind, w, v) ==
  \* w resets everything while v does anything at all
  \/ /\ kind = "reset"
     /\ \/ At(w, "wipe") /\ req[v] # Idle
        \/ activeId = Unset /\ req[w].next \in Starting /\ Serving(v)
  \* w deletes the use case that v is about to make the active one
  \/ /\ kind = "deletion"
     /\ At(w, "delete") /\ req[v].next \in {"active?", "activate"} /\ req[v].id = req[w].id
  \* w and v save the same use case
  \/ /\ kind = "save"
     /\ {req[w].next, req[v].next} \subseteq {"upsert", "get demo", "upsert demo"}
     /\ req[v].id = req[w].id
  \* w and v save two demos, having drawn one code
  \/ /\ kind = "draw"
     /\ Saving(w) /\ Saving(v) /\ req[v].id # req[w].id /\ req[v].says.code = req[w].says.code

Overlaps ==
  {kind \in {"reset", "deletion", "save", "draw"} :
     \E w, v \in Workers : w # v /\ Meet(kind, w, v)}

\* The last conjunct of every step of a worker
Noted == met' = met \cup Overlaps'

-----------------------------------------------------------------------------
(***************************************************************************)
(* Handlers and their failures                                             *)
(***************************************************************************)
Begins(w, next, id, says, listed) ==
  /\ req[w] = Idle
  /\ req' = [req EXCEPT ![w] = [Idle EXCEPT !.next = next, !.id = id, !.says = says,
                                            !.listed = listed]]
  /\ UNCHANGED <<database, calls, faults, unseeded, named>>
  /\ Noted

Goes(w, next, n) == req' = [req EXCEPT ![w].next = next, ![w].n = n]
Ends(w)          == req' = [req EXCEPT ![w] = Idle]

Transactions ==
  {"upsert", "delete", "active?", "activate", "get demo", "upsert demo", "demo inactive?"}

\* A transaction fails three times, or is refused (a row that another worker has inserted or
\* deleted since it was read): the handler raises, and whoever called gets a 500. A reset that
\* raises after its deletion seeds nothing.
Fails(w) ==
  /\ req[w].next \in Transactions \/ (At(w, "count") /\ ~req[w].boots)
  /\ faults < MaxFaults
  /\ faults' = faults + 1
  /\ unseeded' = (unseeded \/ At(w, "count"))
  /\ Ends(w)
  /\ UNCHANGED <<database, calls, named>>
  /\ Noted

\* A worker dies: by a signal, gunicorn's timeout, or an exception while it starts
Killed(w) ==
  /\ req[w] # Down
  /\ faults < MaxFaults
  /\ faults' = faults + 1
  /\ req' = [req EXCEPT ![w] = Down]
  /\ UNCHANGED <<database, calls, unseeded, named>>
  /\ Noted

-----------------------------------------------------------------------------
(***************************************************************************)
(* Seeding: at the start of app.py, and at the end of a reset              *)
(***************************************************************************)
Start(w) ==
  /\ req[w] = Down
  /\ Goes(w, "count", 0)
  /\ UNCHANGED <<database, calls, faults, unseeded, named>>
  /\ Noted

\* seed_roles_and_admin, whose roles are UserAccounts'; then migrate_use_cases_from_json: only
\* into an empty table
Count(w) ==
  /\ At(w, "count")
  /\ IF \E u \in UseCaseIds : Exists(u) THEN Goes(w, "config", 0) ELSE Goes(w, "seed", 1)
  /\ UNCHANGED <<database, calls, faults, unseeded, named>>
  /\ Noted

\* uc_upsert: what the data does not say stays as it was
Old(u) == IF Exists(u) THEN useCases[u] ELSE [demo |-> 0, code |-> NoCode]

Upserted(u, says) ==
  useCases' = [useCases EXCEPT ![u] =
                 [demo |-> IF says.demo = Same THEN Old(u).demo ELSE says.demo,
                  code |-> IF says.code = Same THEN Old(u).code ELSE says.code]]

\* Fault: the end of the file is not noticed.
SeedOn(w) ==
  LET n == req[w].n IN
  /\ At(w, "seed")
  /\ Upserted(Seeds[n], Silent)
  /\ Goes(w, IF n <= Len(Seeds) THEN "seed" ELSE "config", n + 1)
  /\ UNCHANGED <<activeId, profiles, calls, faults, unseeded, named>>
  /\ Noted

SeedOne(w) ==
  LET n == req[w].n IN
  /\ At(w, "seed")
  /\ Upserted(Seeds[n], Silent)
  /\ IF n < Len(Seeds) THEN Goes(w, "seed", n + 1) ELSE Goes(w, "config", 0)
  /\ UNCHANGED <<activeId, profiles, calls, faults, unseeded, named>>
  /\ Noted

\* Another worker inserts the same use case first: the rest of the file is given up
SeedLoses(w) ==
  /\ At(w, "seed") /\ Exists(Seeds[req[w].n])
  /\ Goes(w, "config", 0)
  /\ UNCHANGED <<database, calls, faults, unseeded, named>>
  /\ Noted

\* The rest of the file is given up, and only a line printed
SeedFails(w) ==
  /\ At(w, "seed")
  /\ faults < MaxFaults
  /\ faults' = faults + 1
  /\ unseeded' = TRUE
  /\ Goes(w, "config", 0)
  /\ UNCHANGED <<database, calls, named>>
  /\ Noted

\* config_seed of runtime_config_defaults.json: only the keys that are missing
SeedConfig(w) ==
  /\ At(w, "config")
  /\ activeId' = Active
  /\ Ends(w)
  /\ UNCHANGED <<useCases, profiles, calls, faults, unseeded, named>>
  /\ Noted

\* In a reset, a failure of that is passed over as well (at the start, the import of
\* runtime_config.py seeds the same key and raises)
ConfigFails(w) ==
  /\ At(w, "config") /\ ~req[w].boots
  /\ faults < MaxFaults
  /\ faults' = faults + 1
  /\ unseeded' = TRUE
  /\ Ends(w)
  /\ UNCHANGED <<database, calls, named>>
  /\ Noted

\* api_reset: everything is deleted at once, or nothing is and only a line printed
Reset(w) == Begins(w, "wipe", Unset, Silent, {})

Wipe(w) ==
  /\ At(w, "wipe")
  /\ Goes(w, "count", 0)
  /\ \/ /\ useCases' = [u \in UseCaseIds |-> Absent]
        /\ activeId' = Unset
        /\ profiles' = {}
        /\ UNCHANGED faults
     \/ /\ faults < MaxFaults
        /\ faults' = faults + 1
        /\ UNCHANGED database
  /\ UNCHANGED <<calls, unseeded, named>>
  /\ Noted

-----------------------------------------------------------------------------
(***************************************************************************)
(* Use cases. A handler's checks are its first transactions.               *)
(***************************************************************************)
\* api_create_use_case, api_update_use_case: the JSON is stored as it comes
Create(w, u, body) == ~Exists(u) /\ Begins(w, "upsert", u, body, {})
Update(w, u, body) == Regular(u) /\ Begins(w, "upsert", u, body, {})

Upsert(w) ==
  /\ At(w, "upsert")
  /\ Upserted(req[w].id, req[w].says)
  /\ named' = (named \/ req[w].says.code \in Codes)
  /\ Ends(w)
  /\ UNCHANGED <<activeId, profiles, calls, faults, unseeded>>
  /\ Noted

\* Fault: an active use case may be deleted.
DeleteAny(w, u) == Begins(w, "delete", u, Silent, {})

\* api_delete_use_case: "Cannot delete active use case"; demos are not told apart
Delete(w, u) == activeId # u /\ Begins(w, "delete", u, Silent, {})

\* uc_delete: with its topics and its callers' profiles
UcDelete(w) ==
  /\ At(w, "delete")
  /\ useCases' = [useCases EXCEPT ![req[w].id] = Absent]
  /\ profiles' = {r \in profiles : r[2] # req[w].id}
  /\ Ends(w)
  /\ UNCHANGED <<activeId, calls, faults, unseeded, named>>
  /\ Noted

\* api_config: a use case that is not a demo becomes the active one
Activate(w, u) == Regular(u) /\ Begins(w, "activate", u, Silent, {})

\* The admin page lists the use cases; when the active one is not among them, the first that
\* is becomes active
View(w, u) == Regular(u) /\ Begins(w, "active?", u, Silent, {v \in UseCaseIds : Regular(v)})

ActiveListed(w) ==
  /\ At(w, "active?")
  /\ IF activeId \in req[w].listed THEN Ends(w) ELSE Goes(w, "activate", 0)
  /\ UNCHANGED <<database, calls, faults, unseeded, named>>
  /\ Noted

SetActive(w) ==
  /\ At(w, "activate")
  /\ activeId' = req[w].id
  /\ Ends(w)
  /\ UNCHANGED <<useCases, profiles, calls, faults, unseeded, named>>
  /\ Noted

-----------------------------------------------------------------------------
(***************************************************************************)
(* Demos                                                                   *)
(***************************************************************************)
\* Fault: any code will do.
SaveAnyCode(w, u, c) == Begins(w, "get demo", u, [demo |-> 1, code |-> c], {})

\* api_demo_save draws a code until no demo has it
SaveDemo(w, u, c) ==
  /\ \A v \in UseCaseIds : ~(Demo(v) /\ useCases[v].code = c)
  /\ Begins(w, "get demo", u, [demo |-> 1, code |-> c], {})

\* Fault: the code drawn is the demo's code.
TakeDrawn(w) ==
  /\ At(w, "get demo")
  /\ Goes(w, "upsert demo", 0)
  /\ UNCHANGED <<database, calls, faults, unseeded, named>>
  /\ Noted

\* A demo that exists keeps its code
GetDemo(w) ==
  LET u == req[w].id IN
  /\ At(w, "get demo")
  /\ req' = [req EXCEPT ![w].next = "upsert demo",
                        ![w].says.code = IF Coded(u) THEN useCases[u].code ELSE @]
  /\ UNCHANGED <<database, calls, faults, unseeded, named>>
  /\ Noted

\* A use case of that id, be it the active one, becomes a demo
UpsertDemo(w) ==
  /\ At(w, "upsert demo")
  /\ Upserted(req[w].id, req[w].says)
  /\ Ends(w)
  /\ UNCHANGED <<activeId, profiles, calls, faults, unseeded, named>>
  /\ Noted

\* api_demo_delete: "Cannot delete the currently active use case"
DeleteDemo(w, u) == Demo(u) /\ Begins(w, "demo inactive?", u, Silent, {})

DemoInactive(w) ==
  /\ At(w, "demo inactive?")
  /\ IF activeId = req[w].id THEN Ends(w) ELSE Goes(w, "delete", 0)
  /\ UNCHANGED <<database, calls, faults, unseeded, named>>
  /\ Noted

\* api_demo_profile_delete
DeleteProfile(w, p, u) ==
  /\ req[w] = Idle
  /\ <<p, u>> \in profiles
  /\ profiles' = profiles \ {<<p, u>>}
  /\ UNCHANGED <<useCases, activeId, req, calls, faults, unseeded, named, met>>

-----------------------------------------------------------------------------
(***************************************************************************)
(* Calls to a demo, of the TwiML flow or the realtime process              *)
(***************************************************************************)
\* demo_code_handle: the caller enters a demo's code
Dial(p, u) ==
  /\ calls[p] = Unset
  /\ Coded(u)
  /\ calls' = [calls EXCEPT ![p] = u]
  /\ UNCHANGED <<database, req, faults, unseeded, named, met>>

\* Fault: caller_profiles has no foreign key.
RememberAnyway(p) ==
  /\ calls[p] # Unset
  /\ profiles' = profiles \cup {<<p, calls[p]>>}
  /\ UNCHANGED <<useCases, activeId, req, calls, faults, unseeded, named, met>>

\* caller_profile_set after a turn: refused, and the error printed, when the demo is gone
Remember(p) ==
  /\ calls[p] # Unset
  /\ profiles' = IF Exists(calls[p]) THEN profiles \cup {<<p, calls[p]>>} ELSE profiles
  /\ UNCHANGED <<useCases, activeId, req, calls, faults, unseeded, named, met>>

HangUp(p) ==
  /\ calls[p] # Unset
  /\ calls' = [calls EXCEPT ![p] = Unset]
  /\ UNCHANGED <<database, req, faults, unseeded, named, met>>

-----------------------------------------------------------------------------
Asks(w) ==
  \/ Reset(w)
  \/ \E u \in UseCaseIds :
       \/ \E body \in Bodies : Create(w, u, body) \/ Update(w, u, body)
       \/ Delete(w, u) \/ Activate(w, u) \/ View(w, u) \/ DeleteDemo(w, u)
       \/ \E c \in Codes : SaveDemo(w, u, c)
       \/ \E p \in Phones : DeleteProfile(w, p, u)

Step(w) ==
  \/ Start(w) \/ Count(w) \/ SeedOne(w) \/ SeedLoses(w) \/ SeedFails(w) \/ SeedConfig(w)
  \/ ConfigFails(w) \/ Wipe(w)
  \/ Upsert(w) \/ UcDelete(w) \/ ActiveListed(w) \/ SetActive(w)
  \/ GetDemo(w) \/ UpsertDemo(w) \/ DemoInactive(w)

Next ==
  \/ \E w \in Workers : Asks(w) \/ Step(w) \/ Fails(w) \/ Killed(w)
  \/ \E p \in Phones : Remember(p) \/ HangUp(p) \/ \E u \in UseCaseIds : Dial(p, u)

Spec == Init /\ [][Next]_vars

-----------------------------------------------------------------------------
(***************************************************************************)
(* Properties                                                              *)
(***************************************************************************)
\* What a worker may be doing: at a use case of the file while it seeds, with the use case
\* and the code it was asked for in a handler that needs them
Request(r) ==
  /\ r \in [next : {"none", "wipe"} \cup Starting \cup Transactions,
             id : UseCaseIds \cup {Unset},
             says : [demo : {0, 1, Same}, code : Codes \cup {NoCode, Same}],
             listed : SUBSET UseCaseIds, n : 0..Len(Seeds), boots : BOOLEAN]
  /\ r.next = "seed" => r.n # 0
  /\ r.next \in Transactions => r.id \in UseCaseIds
  /\ r.next \in {"get demo", "upsert demo"} => r.says.demo = 1 /\ r.says.code \in Codes

\* The types of the state.
TypeOK ==
  /\ useCases \in [UseCaseIds -> Rows \cup {Absent}]
  /\ activeId \in UseCaseIds \cup {Unset}
  /\ profiles \subseteq (Phones \X UseCaseIds)
  /\ DOMAIN req = Workers /\ \A w \in Workers : Request(req[w])
  /\ calls \in [Phones -> UseCaseIds \cup {Unset}]
  /\ faults \in 0..MaxFaults
  /\ unseeded \in BOOLEAN /\ named \in BOOLEAN
  /\ met \subseteq {"reset", "deletion", "save", "draw"}

\* "Cannot delete active use case" (admin.py): the use case that answers the calls exists,
\* from the first start on and after a reset, on however many workers, whichever transaction
\* fails and whenever a worker is killed - unless a failure left a seeding incomplete, a reset
\* overlapped another handler, or a deletion the activation of the same use case.
ActiveIsThere ==
  \/ Exists(Active)
  \/ activeId = Unset /\ \E w \in Workers : req[w].next \in Starting
  \/ unseeded \/ met \cap {"reset", "deletion"} # {}

\* A caller is remembered for a use case only as long as that exists, whatever is deleted
\* during the call (uc_delete; the foreign key of models/caller_profile.py).
ProfilesBelong == \A r \in profiles : Exists(r[2])

\* A code leads to one demo: whoever dials it reaches the demo it was printed for
\* (api_demo_save draws until no demo has it) - unless two overlapping handlers drew it or
\* saved the same demo, or a request about a use case named a code.
CodesDistinct ==
  \/ \A u, v \in UseCaseIds : Coded(u) /\ Coded(v) /\ useCases[u].code = useCases[v].code => u = v
  \/ named \/ met \cap {"draw", "save"} # {}

\* The code printed for a demo is the demo's for as long as it exists: saving the demo again
\* keeps it (api_demo_save: "If updating existing demo, preserve its code"), whatever other
\* workers do, but for saving the same demo at the same time.
CodeStays ==
  [][\A u \in UseCaseIds :
       Coded(u) /\ Exists(u)' => useCases[u].code = useCases[u].code' \/ "save" \in met]_vars
=============================================================================
