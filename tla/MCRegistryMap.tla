------------------------------ MODULE MCRegistryMap ------------------------------
EXTENDS RegistryMap, TLC

CONSTANTS a, b, c

ThreeNames == {a, b, c}
Lowest == -2
Highest == 2
===============================================================================
