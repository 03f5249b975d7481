SPECIFICATION LocksSpec
CONSTANT Tasks = {t1, t2}
INVARIANT NoCircularWait
