------------------------------- MODULE MCPresence -------------------------------
(* One host that hears itself, or two; 60 and 120 seconds are scaled to 1  *)
(* and 2.                                                                  *)
EXTENDS Presence

CONSTANTS h1, h2, spartacus, alice, default

OneHost == {h1}
TwoHosts == {h1, h2}
TwoNicks == {spartacus, alice}
OneChannel == {default}
OnlyAlice == [h \in OneHost |-> alice]
\* h2 has no nick in its settings.
AliceAndSpartacus == [h \in TwoHosts |-> IF h = h1 THEN alice ELSE spartacus]
\* What may happen where one client takes part, and where two do.
WhenAlone == <<1, 0>>
WhenTwo == <<0, 1>>
Once == <<1>>
Never == <<0>>
===============================================================================
