---------------------------- MODULE MCIdempotency ----------------------------
EXTENDS Idempotency, TLC

CONSTANTS r1, r2, r3, k1

\* Three attempts of one node execution: the back end retries under one key.
SameKey == [r \in Request |-> k1]

\* Two attempts under one key and a request whose node has retries switched off.
WithUnkeyed == [r \in Request |-> IF r = r3 THEN NoKey ELSE k1]

\* Attempts are interchangeable.
Attempts == Permutations(Request)
==============================================================================
