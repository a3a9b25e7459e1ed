SPECIFICATION Spec
CONSTANT HeapSize = 6
INVARIANT NoDoubleAllocation
INVARIANT HeldNotOnList
INVARIANT IInv
PROPERTY ImplementsPool
PROPERTY OnlyRestartLeaks
