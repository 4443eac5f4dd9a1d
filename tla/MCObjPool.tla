----------------------------- MODULE MCObjPool ------------------------------
EXTENDS ObjPool
CONSTANTS c1, c2, c3, t1, t2
Caches3 == {c1, c2, c3}
Threads2 == {t1, t2}
=============================================================================
