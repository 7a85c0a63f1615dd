------------------------- MODULE MC_OfflineAnalysis -------------------------
(* Model-checking instance of OfflineAnalysis; the bounds are in the .cfg *)
(* files.  The category keywords of the two test names: t1 is named like  *)
(* an algorithm test, t2 contains a micro-benchmark and a data-structure  *)
(* keyword (the first category checked wins).                             *)
EXTENDS OfflineAnalysis

MC_FormatChoices == {<<"json">>, <<"csv">>}   \* the default, and CSV only

MC_KeywordsIn == ("t1" :> {"fibonacci"}) @@ ("t2" :> {"closure", "list"})
=============================================================================
