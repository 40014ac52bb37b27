--------------------------- MODULE MCReportStore ---------------------------
(***************************************************************************)
(* Two reports: two calls that end at once, or one recording that Twilio   *)
(* delivers twice. Three faults: an upload given up, or three others.      *)
(***************************************************************************)
EXTENDS ReportStore
=============================================================================
