SPECIFICATION HandlesSpec
CONSTANT Obj <- MCObj
INVARIANT RefusedCanBeDeallocated
