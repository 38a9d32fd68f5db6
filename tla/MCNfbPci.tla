------------------------------ MODULE MCNfbPci ------------------------------
EXTENDS NfbPci
CONSTANTS m1, s1, t1, m2, s2
MCDsn == [e \in {m1, s1, t1, m2, s2} |-> IF e \in {m2, s2} THEN 2 ELSE 1]
MCWorlds ==
    {[present |-> {m1, s1, m2, s2}, overlap |-> FALSE, subid |-> {}],
     [present |-> {m1, s1, m2, s2}, overlap |-> FALSE, subid |-> {m1, m2}],
     [present |-> {m1, s1, t1}, overlap |-> TRUE, subid |-> {m1}],
     [present |-> {m1, s1, t1}, overlap |-> TRUE, subid |-> {}]}
=============================================================================
