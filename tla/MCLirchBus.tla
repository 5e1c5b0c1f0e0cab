------------------------------- MODULE MCLirchBus -------------------------------
EXTENDS LirchBus, TLC

CONSTANTS a, b, t1, l1, l2, l3, d1

TwoNames == {a, b}
OnlyA == {a}
OnlyB == {b}
Nobody == {}
OneType == {t1}
TwoLoads == {l1, l2}
ThreeLoads == {l1, l2, l3}
OneMessage == {d1}
PreloadBoth == <<a, b>>
BSwallows == {<<b, t1>>}
NoSwallow == {}

ValidRequests == {0, 1}
OnlyZero == {0}
===============================================================================
