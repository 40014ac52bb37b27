--------------------------- MODULE CallLifecycle ---------------------------
(***************************************************************************)
(* What one Media Stream WebSocket owes the rest of the system, whatever   *)
(* happens inside the voice pipeline: a connection that got a session ends *)
(* in exactly one end-of-call report, filed before the session's resources *)
(* are released; the report calls the call complete exactly when the       *)
(* assistant had said goodbye by then; a connection that never got a       *)
(* session files no report; and a filed report is followed by the release. *)
(*                                                                         *)
(* CallPipeline implements this specification (see Lifecycle there).       *)
(***************************************************************************)
EXTENDS Sequences

VARIABLES
  phase,     \* where the connection stands
  farewell,  \* whether the assistant has said goodbye
  reports    \* the end-of-call reports filed, each TRUE when "incomplete"

vars == <<phase, farewell, reports>>

Init ==
  /\ phase = "waiting"
  /\ farewell = FALSE
  /\ reports = <<>>

\* The stream's start event produced a session.
Start ==
  /\ phase = "waiting"
  /\ phase' = "talking"
  /\ UNCHANGED <<farewell, reports>>

\* The connection ends without a session.
Abandon ==
  /\ phase = "waiting"
  /\ phase' = "released"
  /\ UNCHANGED <<farewell, reports>>

\* The assistant says goodbye. A generation that outlives the report may
\* still do so, and changes no report.
SayGoodbye ==
  /\ phase # "waiting"
  /\ farewell' = TRUE
  /\ UNCHANGED <<phase, reports>>

\* The call ends and its one report is filed.
File ==
  /\ phase = "talking"
  /\ phase' = "reported"
  /\ reports' = Append(reports, ~farewell)
  /\ UNCHANGED farewell

\* The session's tasks are gone and its connections closed.
Release ==
  /\ phase = "reported"
  /\ phase' = "released"
  /\ UNCHANGED <<farewell, reports>>

Next == Start \/ Abandon \/ SayGoodbye \/ File \/ Release

Safety == Init /\ [][Next]_vars

Spec == Safety /\ WF_vars(Release)

============================================================================
