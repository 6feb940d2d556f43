------------------------------- MODULE KeyGuard -------------------------------
(***************************************************************************)
(* What the duplicate-execution guard of db/idempotency.py promises, with  *)
(* nothing of how it does it: each idempotency key has one slot, which is  *)
(* free, held by one request or sealed with the response of one request.   *)
(* `active' is the set of requests that execute because they hold a slot.  *)
(* A slot changes hands only through "free", it is sealed only by its own  *)
(* active holder, and it is never taken away from an active holder.        *)
(***************************************************************************)

CONSTANTS
    Request,    \* the requests that may reach the service
    Key,        \* idempotency keys
    KeyOf,      \* the key a request carries
    Nobody      \* not a request

VARIABLES
    slot,       \* slot[k]: "free", "held" or "sealed"
    owner,      \* owner[k]: the request the slot belongs to
    active      \* the requests that execute under the guard

guardVars == <<slot, owner, active>>

GuardInit ==
    /\ slot = [k \in Key |-> "free"]
    /\ owner = [k \in Key |-> Nobody]
    /\ active = {}

SetSlot(k, s, r) ==
    /\ slot' = [slot EXCEPT ![k] = s]
    /\ owner' = [owner EXCEPT ![k] = r]

\* A request takes a free slot and starts executing.
Acquire(r) ==
    /\ KeyOf[r] \in Key
    /\ slot[KeyOf[r]] = "free"
    /\ r \notin active
    /\ SetSlot(KeyOf[r], "held", r)
    /\ active' = active \cup {r}

\* A free slot becomes held, but the request never learns that it holds it.
Strand(r) ==
    /\ KeyOf[r] \in Key
    /\ slot[KeyOf[r]] = "free"
    /\ r \notin active
    /\ SetSlot(KeyOf[r], "held", r)
    /\ UNCHANGED active

\* The active holder stops and leaves its response in the slot.
Seal(r) ==
    /\ r \in active
    /\ slot[KeyOf[r]] = "held"
    /\ owner[KeyOf[r]] = r
    /\ SetSlot(KeyOf[r], "sealed", r)
    /\ active' = active \ {r}

\* The active holder stops and frees its slot.
Free(r) ==
    /\ r \in active
    /\ slot[KeyOf[r]] = "held"
    /\ owner[KeyOf[r]] = r
    /\ SetSlot(KeyOf[r], "free", Nobody)
    /\ active' = active \ {r}

\* The active holder stops and the slot stays as it is.
Abandon(r) ==
    /\ r \in active
    /\ active' = active \ {r}
    /\ UNCHANGED <<slot, owner>>

\* A slot that no active request owns is forgotten.
Forget(k) ==
    /\ slot[k] # "free"
    /\ owner[k] \notin active
    /\ SetSlot(k, "free", Nobody)
    /\ UNCHANGED active

GuardNext ==
    \/ \E r \in Request : Acquire(r) \/ Strand(r) \/ Seal(r) \/ Free(r) \/ Abandon(r)
    \/ \E k \in Key : Forget(k)

GuardSpec == GuardInit /\ [][GuardNext]_guardVars

===============================================================================
