\* Two dispatcher threads and the host; two handles, two marks or failures.
CONSTANTS
    Kernel = {k1, k2}
    Host = host
    Letters = 2
    Fallback = 2
    MaxHandles = 2
    MaxEvents = 2
SPECIFICATION Spec
INVARIANTS NoStrayHandles HandlesUsable ReturnsClean ResolvedIsFree
  
CHECK_DEADLOCK FALSE
