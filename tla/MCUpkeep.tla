----------------------------- MODULE MCUpkeep ------------------------------
EXTENDS Upkeep
CONSTANTS r1, r2
MCPreference == [r \in {r1, r2} |-> IF r = r1 THEN 1 ELSE 0]
=============================================================================
