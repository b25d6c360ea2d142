--------------------------- MODULE MCSmartConfig ---------------------------
(* Two groups of symbols, the second one nearly full.                       *)
EXTENDS SmartConfig

MCMessages == {[ssid |-> <<33, 34>>, passwd |-> <<7, 9, 11, 13, 15>>]}
MCKnown    == {<<>>, <<33, 34>>, <<1, 2, 3>>}
MCDeaf     == {{}, {0}, {1}}
=============================================================================
