SPECIFICATION FairSpec
CONSTANT CPU = {c1, c2, c3}
INVARIANTS MutualExclusion NoSelfDeadlock HandlerStaysMasked InterruptsBack
PROPERTIES LockReleased ImplementsAbstractLock
