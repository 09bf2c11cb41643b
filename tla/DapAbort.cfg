SPECIFICATION Spec
CONSTANT
    MaxOutstanding = 2
INVARIANT
    AbortNotQueued
