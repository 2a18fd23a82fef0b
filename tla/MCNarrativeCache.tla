--------------------------- MODULE MCNarrativeCache -------------------------
(* Three verdicts, two of which have the same signature. *)
EXTENDS NarrativeCache

ThreeVerdicts == {<<"root a", "eta 10">>, <<"root a", "eta 20">>, <<"root b", "eta 10">>}
=============================================================================
