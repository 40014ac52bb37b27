------------------------- MODULE MCRailwayMigration -------------------------
(***************************************************************************)
(* The instances of RailwayMigration that TLC checks: one small source     *)
(* with a row or two of every kind.                                        *)
(***************************************************************************)
EXTENDS RailwayMigration, TLC

SourceRows ==
  << <<"admin">>, <<"ana", "luis">>, <<"clinic">>, <<"visits">>, <<"luis clinic">>,
     <<"caller">>, <<"forward_to", "_sec_twilio", "_sec_openai">>, <<"call 1", "call 2">> >>

AllRows == UNION {{SourceRows[t][i] : i \in DOMAIN SourceRows[t]} : t \in DOMAIN SourceRows}

References ==
  [r \in AllRows |->
     CASE r \in {"ana", "luis"}           -> {"admin"}
       [] r \in {"visits", "caller"}      -> {"clinic"}
       [] r = "luis clinic"               -> {"luis", "clinic"}
       [] OTHER                           -> {}]

SecretRows  == {"_sec_twilio", "_sec_openai"}
ReportFiles == "call 1" :> {"1.json", "1.mp3"} @@ "call 2" :> {"2.json"}

AppSeeds == {"admin", "forward_to"}
None     == {}

AnyEnvironment == {Full, [Full EXCEPT !.bucket = FALSE], [Full EXCEPT !.key = "none"],
                   [Full EXCEPT !.key = "wrong"], [Full EXCEPT !.region = FALSE]}
=============================================================================
