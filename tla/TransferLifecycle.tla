-------------------------- MODULE TransferLifecycle -------------------------
(***************************************************************************)
(* What a transfer to the operator may do to its caller, whatever fails    *)
(* and however its webhooks cross. The operator is called at most Last     *)
(* times, each time after the previous call has been concluded by its      *)
(* status callback. A caller is put through only while a call is under     *)
(* way, and left alone from then on. A caller who waits may be told at any *)
(* time that nobody is available, and is then in a dialog with the AI. Out *)
(* of that dialog the transfer fetches them twice at most: back to the     *)
(* room when the last call but one is concluded, and to the beginning of   *)
(* the dialog when the last one is. The caller's file is marked as briefed *)
(* only while a call is under way.                                         *)
(*                                                                         *)
(* OperatorTransfer implements this specification (see Transfer there).    *)
(* AiDialog, which has the dialogs in detail and nothing of the room,      *)
(* relies on it: it bounds the redirects and leaves their place free.      *)
(***************************************************************************)
EXTENDS Integers

CONSTANT Last  \* the last attempt to call the operator

VARIABLES
  where,      \* the caller: "asking", in the "room", "served", in the "callback"
              \* dialog, or "over"
  placed,     \* the calls to the operator
  concluded,  \* those whose status callback has been handled
  noted       \* whether the caller's info says that an operator was briefed

vars == <<where, placed, concluded, noted>>

UnderWay == placed \ concluded

Waiting == where \in {"room", "callback"}

Init ==
  /\ where = "asking"
  /\ placed = {}
  /\ concluded = {}
  /\ noted = FALSE

\* The caller is sent to the room, or turned away. The first call may be placed
\* or fail in both cases.
Ask ==
  /\ where = "asking"
  /\ where' \in {"room", "over"}
  /\ placed' \in {{}, {1}}
  /\ UNCHANGED <<concluded, noted>>

\* The operator of a call under way and the caller meet.
Meet ==
  /\ where = "room"
  /\ UnderWay # {}
  /\ where' = "served"
  /\ UNCHANGED <<placed, concluded, noted>>

\* The hold music leads to no_availability.
Dismiss ==
  /\ where = "room"
  /\ where' = "callback"
  /\ UNCHANGED <<placed, concluded, noted>>

\* Somebody answered and the briefing is stored.
Brief ==
  /\ UnderWay # {}
  /\ ~noted
  /\ noted' = TRUE
  /\ UNCHANGED <<where, placed, concluded>>

\* A call's status callback: the next call may be placed, and a waiting caller
\* may be redirected.
Conclude(a) ==
  /\ a \in UnderWay
  /\ concluded' = concluded \cup {a}
  /\ \/ UNCHANGED placed
     \/ a < Last /\ placed' = placed \cup {a + 1}
  /\ \/ UNCHANGED where
     \/ Waiting /\ a = Last - 1 /\ where' = "room"
     \/ Waiting /\ a = Last /\ where' = "callback"
  /\ UNCHANGED noted

\* The caller's call ends.
Leave ==
  /\ where # "over"
  /\ where' = "over"
  /\ UNCHANGED <<placed, concluded, noted>>

Next ==
  \/ Ask \/ Meet \/ Dismiss \/ Brief \/ Leave
  \/ \E a \in 1..Last : Conclude(a)

Spec == Init /\ [][Next]_vars

=============================================================================
