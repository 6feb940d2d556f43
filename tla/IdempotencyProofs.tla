--------------------------- MODULE IdempotencyProofs ---------------------------
(***************************************************************************)
(* Safety of the duplicate-execution guard for any number of requests and  *)
(* keys, from the two assumptions of module Idempotency.                   *)
(***************************************************************************)
EXTENDS Idempotency, TLAPS

\* The control state of a request fixes what it holds and how old it is.
PcInv ==
    \A r \in Request :
        /\ pc[r] = "idle" => elapsed[r] = 0
        /\ pc[r] \in {"idle", "insert", "find"} => ~claimed[r]
        /\ pc[r] \in {"insert", "find"} => KeyOf[r] \in Key
        /\ pc[r] \in {"complete", "release", "shielded"} => claimed[r]
        /\ pc[r] = "complete" => success[r]
        /\ claimed[r] => KeyOf[r] \in Key
        /\ pc[r] \in Live => elapsed[r] \leq HandlerLimit

\* A holder's record is its own and expires InFlightTTL after it arrived.
HoldInv ==
    \A r \in holders :
        /\ rec[KeyOf[r]].status = "IN_PROGRESS"
        /\ rec[KeyOf[r]].by = r
        /\ rec[KeyOf[r]].ttl = InFlightTTL - elapsed[r]

\* A stored response is that of a guarded execution of its key that succeeded.
StoredInv ==
    \A k \in Key : rec[k].status = "COMPLETED" =>
        /\ rec[k].by \in Request
        /\ KeyOf[rec[k].by] = k
        /\ claimed[rec[k].by] /\ success[rec[k].by]

\* A record belongs to a request of its key.
OwnedByKey ==
    \A k \in Key : rec[k].status # "ABSENT" => rec[k].by \in Request /\ KeyOf[rec[k].by] = k

\* As long as nothing went wrong with a key, its record never disappears, it
\* belongs to the only request that ever executed, and nobody runs unguarded.
CleanInv ==
    \A r \in Request : (KeyOf[r] \in Key /\ excuse[KeyOf[r]] = {}) =>
        /\ claimed[r] => rec[KeyOf[r]].status # "ABSENT" /\ rec[KeyOf[r]].by = r
        /\ r \in effect \/ pc[r] = "run" => claimed[r]
        /\ pc[r] = "find" => rec[KeyOf[r]].status # "ABSENT"
        /\ pc[r] \notin {"release", "shielded"}
        /\ r \notin straggler

IInv == TypeOK /\ PcInv /\ HoldInv /\ OwnedByKey /\ StoredInv /\ ReplayIsGenuine /\ CleanInv

--------------------------------------------------------------------------------
\* Blaming a key keeps the type of excuse.
LEMMA BlameType ==
    ASSUME NEW k, NEW why \in Excuse, excuse \in [Key -> SUBSET Excuse], Blame(k, why)
    PROVE  excuse' \in [Key -> SUBSET Excuse]
<1>1. excuse[k] \cup {why} \in SUBSET Excuse \/ k \notin Key
  OBVIOUS
<1> QED
  BY <1>1 DEF Blame

\* A key is blamed for good, and only the key that is blamed changes.
LEMMA Blamed ==
    ASSUME TypeOK, NEW k \in Key, NEW why, Blame(k, why),
           NEW j \in Key, excuse'[j] = {}
    PROVE  j # k /\ excuse[j] = {}
<1>1. j # k
  BY DEF Blame, TypeOK
<1> QED
  BY <1>1 DEF Blame, TypeOK

\* The three writes of a request keep the type of the store.
LEMMA WriteType ==
    ASSUME TypeOK, PcInv, NEW r \in Request, pc[r] \in Live,
           Inserted(r) \/ Completed(r) \/ Deleted(r)
    PROVE  rec' \in [Key -> Record]
<1>1. InFlightTTL - elapsed[r] \in Nat
  BY TimingAssumption DEF PcInv, TypeOK, Live
<1>2. CASE Inserted(r)
  BY <1>1, <1>2 DEF Inserted, TypeOK, Record
<1>3. CASE Completed(r)
  BY <1>3, TimingAssumption DEF Completed, TypeOK, Record
<1>4. CASE Deleted(r)
  BY <1>4 DEF Deleted, Absent, TypeOK, Record
<1> QED
  BY <1>2, <1>3, <1>4

\* Replying keeps the type of answer.
LEMMA ReplyType ==
    ASSUME TypeOK, NEW r \in Request, NEW from \in Request \cup {Nobody},
           NEW kind \in {"own", "cached", "duplicate", "raised"}, Reply(r, kind, from)
    PROVE  answer' \in [Request -> Answer]
BY DEF Reply, Answer, TypeOK

\* Two holders never share a key: the record names one of them.
LEMMA HoldersApart ==
    ASSUME HoldInv, NEW r \in holders, NEW h \in holders, r # h
    PROVE  KeyOf[r] # KeyOf[h]
<1>1. rec[KeyOf[r]].by = r /\ rec[KeyOf[h]].by = h
  BY DEF HoldInv
<1> QED
  BY <1>1


\* Every step keeps the types; the ttl of an insert is a natural number because
\* a live request is young.
LEMMA TypeStep ==
    ASSUME TypeOK, PcInv, [Next]_vars
    PROVE  TypeOK'
<1> USE KeysAssumption, TimingAssumption DEF TypeOK
<1>1. ASSUME NEW r \in Request, Arrive(r) PROVE TypeOK'
  BY <1>1 DEF Arrive, Goto, Live
<1>2. ASSUME NEW r \in Request, InsertWins(r) PROVE TypeOK'
  <2>1. rec' \in [Key -> Record]
    BY <1>2, WriteType DEF InsertWins, Goto, Live
  <2> QED
    BY <1>2, <2>1 DEF InsertWins, Goto, Live
<1>3. ASSUME NEW r \in Request, InsertDuplicate(r) PROVE TypeOK'
  BY <1>3 DEF InsertDuplicate, Goto, Live
<1>4. ASSUME NEW r \in Request, InsertError(r) PROVE TypeOK'
  <2>1. rec' \in [Key -> Record]
    BY <1>4, WriteType DEF InsertError, Goto, Live
  <2>2. excuse' \in [Key -> SUBSET Excuse]
    BY <1>4, BlameType DEF InsertError, Excuse
  <2>3. answer' \in [Request -> Answer]
    BY <1>4, ReplyType DEF InsertError
  <2> QED
    BY <1>4, <2>1, <2>2, <2>3 DEF InsertError, Goto, Live
<1>5. ASSUME NEW r \in Request, FindError(r) PROVE TypeOK'
  <2>1. rec' \in [Key -> Record]
    BY <1>5 DEF FindError
  <2>2. excuse' \in [Key -> SUBSET Excuse]
    BY <1>5, BlameType DEF FindError, Excuse
  <2>3. answer' \in [Request -> Answer]
    BY <1>5, ReplyType DEF FindError
  <2> QED
    BY <1>5, <2>1, <2>2, <2>3 DEF FindError, Goto, Live
<1>6. ASSUME NEW r \in Request, FindNothing(r) PROVE TypeOK'
  BY <1>6 DEF FindNothing, Goto, Live
<1>7. ASSUME NEW r \in Request, FindCompleted(r) PROVE TypeOK'
  <2>1. answer' \in [Request -> Answer]
    BY <1>7, ReplyType DEF FindCompleted, Goto, PcInv, Record
  <2> QED
    BY <1>7, <2>1 DEF FindCompleted, Goto, Live
<1>8. ASSUME NEW r \in Request, FindUnreadable(r) PROVE TypeOK'
  <2>1. rec' \in [Key -> Record]
    BY <1>8 DEF FindUnreadable
  <2>2. excuse' \in [Key -> SUBSET Excuse]
    BY <1>8, BlameType DEF FindUnreadable, Excuse
  <2>3. answer' \in [Request -> Answer]
    BY <1>8, ReplyType DEF FindUnreadable
  <2> QED
    BY <1>8, <2>1, <2>2, <2>3 DEF FindUnreadable, Goto, Live
<1>9. ASSUME NEW r \in Request, FindInProgress(r) PROVE TypeOK'
  <2>1. answer' \in [Request -> Answer]
    BY <1>9, ReplyType DEF FindInProgress
  <2> QED
    BY <1>9, <2>1 DEF FindInProgress, Goto, Live
<1>10. ASSUME NEW r \in Request, SideEffect(r) PROVE TypeOK'
  BY <1>10 DEF SideEffect
<1>11. ASSUME NEW r \in Request, Succeed(r) PROVE TypeOK'
  <2>1. rec' \in [Key -> Record]
    BY <1>11 DEF Succeed
  <2>2. excuse' \in [Key -> SUBSET Excuse]
    BY <1>11, BlameType DEF Succeed, Excuse
  <2>3. answer' \in [Request -> Answer]
    BY <1>11, ReplyType DEF Succeed
  <2> QED
    BY <1>11, <2>1, <2>2, <2>3 DEF Succeed, Goto, Live
<1>12. ASSUME NEW r \in Request, Fail(r) PROVE TypeOK'
  <2>1. rec' \in [Key -> Record]
    BY <1>12 DEF Fail
  <2>2. excuse' \in [Key -> SUBSET Excuse]
    BY <1>12, BlameType DEF Fail, Excuse
  <2>3. answer' \in [Request -> Answer]
    BY <1>12, ReplyType DEF Fail
  <2> QED
    BY <1>12, <2>1, <2>2, <2>3 DEF Fail, Goto, Live
<1>13. ASSUME NEW r \in Request, Cancel(r) PROVE TypeOK'
  <2>1. rec' \in [Key -> Record]
    BY <1>13 DEF Cancel
  <2>2. excuse' \in [Key -> SUBSET Excuse]
    BY <1>13, BlameType DEF Cancel, Excuse
  <2>3. answer' \in [Request -> Answer]
    BY <1>13, ReplyType DEF Cancel
  <2> QED
    BY <1>13, <2>1, <2>2, <2>3 DEF Cancel, Goto, Live
<1>14. ASSUME NEW r \in Request, StoreAndReply(r) PROVE TypeOK'
  <2>1. rec' \in [Key -> Record]
    BY <1>14, WriteType DEF StoreAndReply, Goto, Live
  <2>2. excuse' \in [Key -> SUBSET Excuse]
    BY <1>14, BlameType DEF StoreAndReply, Excuse
  <2>3. answer' \in [Request -> Answer]
    BY <1>14, ReplyType DEF StoreAndReply
  <2> QED
    BY <1>14, <2>1, <2>2, <2>3 DEF StoreAndReply, Goto, Live
<1>15. ASSUME NEW r \in Request, ReleaseAndReply(r) PROVE TypeOK'
  <2>1. rec' \in [Key -> Record]
    BY <1>15, WriteType DEF ReleaseAndReply, Goto, Live
  <2>2. excuse' \in [Key -> SUBSET Excuse]
    BY <1>15, BlameType DEF ReleaseAndReply, Excuse
  <2>3. answer' \in [Request -> Answer]
    BY <1>15, ReplyType DEF ReleaseAndReply
  <2> QED
    BY <1>15, <2>1, <2>2, <2>3 DEF ReleaseAndReply, Goto, Live
<1>16. ASSUME NEW r \in Request, ReleaseAndRaise(r) PROVE TypeOK'
  <2>1. rec' \in [Key -> Record]
    BY <1>16, WriteType DEF ReleaseAndRaise, Goto, Live
  <2>2. excuse' \in [Key -> SUBSET Excuse]
    BY <1>16, BlameType DEF ReleaseAndRaise, Excuse
  <2>3. answer' \in [Request -> Answer]
    BY <1>16, ReplyType DEF ReleaseAndRaise
  <2> QED
    BY <1>16, <2>1, <2>2, <2>3 DEF ReleaseAndRaise, Goto, Live
<1>17. ASSUME NEW r \in Request, Die(r) PROVE TypeOK'
  <2>1. rec' \in [Key -> Record]
    BY <1>17, WriteType DEF Die, Live
  <2>2. excuse' \in [Key -> SUBSET Excuse]
    BY <1>17, BlameType DEF Die, Excuse
  <2>3. answer' \in [Request -> Answer]
    BY <1>17, ReplyType DEF Die
  <2> QED
    BY <1>17, <2>1, <2>2, <2>3 DEF Die, Goto, Live
<1>18. ASSUME Tick PROVE TypeOK'
  <2>1. rec' \in [Key -> Record]
    BY <1>18 DEF Tick, Record
  <2>2. elapsed' \in [Request -> Nat]
    BY <1>18 DEF Tick
  <2> QED
    BY <1>18, <2>1, <2>2 DEF Tick
<1>19. ASSUME NEW k \in Key, Expire(k) PROVE TypeOK'
  <2>1. rec' \in [Key -> Record]
    BY <1>19 DEF Expire, Absent, Record
  <2> QED
    BY <1>19, <2>1, BlameType DEF Expire, Excuse
<1>20. ASSUME NEW r \in Request, StoreRaises(r) PROVE TypeOK'
  <2>1. answer' \in [Request -> Answer]
    BY <1>20, ReplyType DEF StoreRaises
  <2> QED
    BY <1>20, <2>1 DEF StoreRaises, Goto, Live
<1>21. CASE UNCHANGED vars
  BY <1>21 DEF vars
<1> QED
  BY <1>1, <1>2, <1>3, <1>4, <1>5, <1>6, <1>7, <1>8, <1>9, <1>10, <1>11, <1>12, <1>13, <1>14, <1>15, <1>16, <1>17, <1>18, <1>19, <1>20, <1>21 DEF Next, Claiming, Closing

\* Every step keeps the control invariant.
LEMMA PcStep ==
    ASSUME TypeOK, PcInv, [Next]_vars
    PROVE  PcInv'
<1> USE KeysAssumption, TimingAssumption DEF TypeOK, PcInv, Live
<1>1. ASSUME NEW r \in Request, Arrive(r) PROVE PcInv'
  BY <1>1 DEF Arrive, Goto
<1>2. ASSUME NEW r \in Request, InsertWins(r) PROVE PcInv'
  BY <1>2 DEF InsertWins, Goto, Inserted
<1>3. ASSUME NEW r \in Request, InsertDuplicate(r) PROVE PcInv'
  BY <1>3 DEF InsertDuplicate, Goto
<1>4. ASSUME NEW r \in Request, InsertError(r) PROVE PcInv'
  BY <1>4 DEF InsertError, Goto, Inserted, Blame
<1>5. ASSUME NEW r \in Request, FindError(r) PROVE PcInv'
  BY <1>5 DEF FindError, Goto, Blame
<1>6. ASSUME NEW r \in Request, FindNothing(r) PROVE PcInv'
  BY <1>6 DEF FindNothing, Goto
<1>7. ASSUME NEW r \in Request, FindCompleted(r) PROVE PcInv'
  BY <1>7 DEF FindCompleted, Goto, Reply
<1>8. ASSUME NEW r \in Request, FindUnreadable(r) PROVE PcInv'
  BY <1>8 DEF FindUnreadable, Goto, Blame
<1>9. ASSUME NEW r \in Request, FindInProgress(r) PROVE PcInv'
  BY <1>9 DEF FindInProgress, Goto, Reply
<1>10. ASSUME NEW r \in Request, SideEffect(r) PROVE PcInv'
  BY <1>10 DEF SideEffect
<1>11. ASSUME NEW r \in Request, Succeed(r) PROVE PcInv'
  BY <1>11 DEF Succeed, Goto, Reply
<1>12. ASSUME NEW r \in Request, Fail(r) PROVE PcInv'
  BY <1>12 DEF Fail, Goto, Reply, Blame
<1>13. ASSUME NEW r \in Request, Cancel(r) PROVE PcInv'
  BY <1>13 DEF Cancel, Goto, Blame
<1>14. ASSUME NEW r \in Request, StoreAndReply(r) PROVE PcInv'
  BY <1>14 DEF StoreAndReply, Goto, Reply, Completed, Blame
<1>15. ASSUME NEW r \in Request, ReleaseAndReply(r) PROVE PcInv'
  BY <1>15 DEF ReleaseAndReply, Goto, Reply, Deleted, Blame
<1>16. ASSUME NEW r \in Request, ReleaseAndRaise(r) PROVE PcInv'
  BY <1>16 DEF ReleaseAndRaise, Goto, Reply, Deleted, Blame
<1>17. ASSUME NEW r \in Request, Die(r) PROVE PcInv'
  BY <1>17 DEF Die, Inserted, Completed, Deleted, Blame
<1>18. ASSUME Tick PROVE PcInv'
  BY <1>18 DEF Tick
<1>19. ASSUME NEW k \in Key, Expire(k) PROVE PcInv'
  BY <1>19 DEF Expire, Blame
<1>20. ASSUME NEW r \in Request, StoreRaises(r) PROVE PcInv'
  BY <1>20 DEF StoreRaises, Goto, Reply
<1>21. CASE UNCHANGED vars
  BY <1>21 DEF vars
<1> QED
  BY <1>1, <1>2, <1>3, <1>4, <1>5, <1>6, <1>7, <1>8, <1>9, <1>10, <1>11, <1>12, <1>13, <1>14, <1>15, <1>16, <1>17, <1>18, <1>19, <1>20, <1>21 DEF Next, Claiming, Closing

\* Every step leaves the record of every other holder alone: two holders never
\* share a key, and the record of a holder is too young to expire.
LEMMA HoldStep ==
    ASSUME TypeOK, PcInv, HoldInv, [Next]_vars
    PROVE  HoldInv'
<1> USE KeysAssumption, TimingAssumption DEF TypeOK, PcInv, HoldInv, holders, Holding, Live
<1>1. ASSUME NEW r \in Request, Arrive(r) PROVE HoldInv'
  BY <1>1 DEF Arrive, Goto
<1>2. ASSUME NEW r \in Request, InsertWins(r) PROVE HoldInv'
  BY <1>2 DEF InsertWins, Goto, Inserted
<1>3. ASSUME NEW r \in Request, InsertDuplicate(r) PROVE HoldInv'
  BY <1>3 DEF InsertDuplicate, Goto
<1>4. ASSUME NEW r \in Request, InsertError(r) PROVE HoldInv'
  BY <1>4 DEF InsertError, Goto, Inserted, Blame
<1>5. ASSUME NEW r \in Request, FindError(r) PROVE HoldInv'
  BY <1>5 DEF FindError, Goto, Blame
<1>6. ASSUME NEW r \in Request, FindNothing(r) PROVE HoldInv'
  BY <1>6 DEF FindNothing, Goto
<1>7. ASSUME NEW r \in Request, FindCompleted(r) PROVE HoldInv'
  BY <1>7 DEF FindCompleted, Goto, Reply
<1>8. ASSUME NEW r \in Request, FindUnreadable(r) PROVE HoldInv'
  BY <1>8 DEF FindUnreadable, Goto, Blame
<1>9. ASSUME NEW r \in Request, FindInProgress(r) PROVE HoldInv'
  BY <1>9 DEF FindInProgress, Goto, Reply
<1>10. ASSUME NEW r \in Request, SideEffect(r) PROVE HoldInv'
  BY <1>10 DEF SideEffect
<1>11. ASSUME NEW r \in Request, Succeed(r) PROVE HoldInv'
  BY <1>11 DEF Succeed, Goto, Reply
<1>12. ASSUME NEW r \in Request, Fail(r) PROVE HoldInv'
  BY <1>12 DEF Fail, Goto, Reply, Blame
<1>13. ASSUME NEW r \in Request, Cancel(r) PROVE HoldInv'
  BY <1>13 DEF Cancel, Goto, Blame
<1>14. ASSUME NEW r \in Request, StoreAndReply(r) PROVE HoldInv'
  <2>1. holders' \subseteq holders /\ r \in holders \ holders' /\ elapsed' = elapsed
    BY <1>14 DEF StoreAndReply, Goto
  <2>2. ASSUME NEW h \in holders' PROVE rec'[KeyOf[h]] = rec[KeyOf[h]]
    <3>1. KeyOf[h] # KeyOf[r] /\ KeyOf[h] \in Key
      BY <2>1, <2>2, HoldersApart
    <3> QED
      BY <3>1, <1>14 DEF StoreAndReply, Completed, Deleted
  <2> QED
    BY <2>1, <2>2
<1>15. ASSUME NEW r \in Request, ReleaseAndReply(r) PROVE HoldInv'
  <2>1. holders' \subseteq holders /\ r \in holders \ holders' /\ elapsed' = elapsed
    BY <1>15 DEF ReleaseAndReply, Goto
  <2>2. ASSUME NEW h \in holders' PROVE rec'[KeyOf[h]] = rec[KeyOf[h]]
    <3>1. KeyOf[h] # KeyOf[r] /\ KeyOf[h] \in Key
      BY <2>1, <2>2, HoldersApart
    <3> QED
      BY <3>1, <1>15 DEF ReleaseAndReply, Completed, Deleted
  <2> QED
    BY <2>1, <2>2
<1>16. ASSUME NEW r \in Request, ReleaseAndRaise(r) PROVE HoldInv'
  <2>1. holders' \subseteq holders /\ r \in holders \ holders' /\ elapsed' = elapsed
    BY <1>16 DEF ReleaseAndRaise, Goto
  <2>2. ASSUME NEW h \in holders' PROVE rec'[KeyOf[h]] = rec[KeyOf[h]]
    <3>1. KeyOf[h] # KeyOf[r] /\ KeyOf[h] \in Key
      BY <2>1, <2>2, HoldersApart
    <3> QED
      BY <3>1, <1>16 DEF ReleaseAndRaise, Completed, Deleted
  <2> QED
    BY <2>1, <2>2
<1>17. ASSUME NEW r \in Request, Die(r) PROVE HoldInv'
  <2>1. holders' \subseteq holders \ {r} /\ elapsed' = elapsed
    BY <1>17 DEF Die
  <2>2. ASSUME NEW h \in holders' PROVE rec'[KeyOf[h]] = rec[KeyOf[h]]
    <3>1. h \in holders /\ h # r /\ KeyOf[h] \in Key
      BY <2>1, <2>2
    <3>2. rec[KeyOf[h]].status = "IN_PROGRESS"
      BY <3>1
    <3>3. pc[r] \in {"complete", "release", "shielded"} => KeyOf[h] # KeyOf[r]
      BY <3>1, HoldersApart
    <3> QED
      BY <3>1, <3>2, <3>3, <1>17 DEF Die, Inserted, Completed, Deleted
  <2> QED
    BY <2>1, <2>2
<1>18. ASSUME Tick PROVE HoldInv'
  <2>1. holders' = holders
    BY <1>18 DEF Tick
  <2>2. ASSUME NEW h \in holders
        PROVE  /\ rec'[KeyOf[h]].status = "IN_PROGRESS"
               /\ rec'[KeyOf[h]].by = h
               /\ rec'[KeyOf[h]].ttl = InFlightTTL - elapsed'[h]
    <3>1. pc[h] \in Live /\ KeyOf[h] \in Key /\ elapsed[h] < HandlerLimit
      BY <2>2, <1>18 DEF Tick
    <3>2. /\ rec[KeyOf[h]].status = "IN_PROGRESS" /\ rec[KeyOf[h]].by = h
          /\ rec[KeyOf[h]].ttl = InFlightTTL - elapsed[h]
      BY <2>2
    <3>3. rec[KeyOf[h]].ttl > 0 /\ elapsed'[h] = elapsed[h] + 1
      BY <3>1, <3>2, <1>18 DEF Tick
    <3>4. rec'[KeyOf[h]] = [rec[KeyOf[h]] EXCEPT !.ttl = @ - 1]
      BY <3>1, <3>3, <1>18 DEF Tick
    <3> QED
      BY <3>1, <3>2, <3>3, <3>4
  <2> QED
    BY <2>1, <2>2
<1>19. ASSUME NEW k \in Key, Expire(k) PROVE HoldInv'
  BY <1>19 DEF Expire, Blame
<1>20. ASSUME NEW r \in Request, StoreRaises(r) PROVE HoldInv'
  BY <1>20 DEF StoreRaises, Goto
<1>21. CASE UNCHANGED vars
  BY <1>21 DEF vars
<1> QED
  BY <1>1, <1>2, <1>3, <1>4, <1>5, <1>6, <1>7, <1>8, <1>9, <1>10, <1>11, <1>12, <1>13, <1>14, <1>15, <1>16, <1>17, <1>18, <1>19, <1>20, <1>21 DEF Next, Claiming, Closing

\* Whoever writes the record of a key carries that key.
LEMMA OwnedStep ==
    ASSUME TypeOK, PcInv, OwnedByKey, [Next]_vars
    PROVE  OwnedByKey'
<1> USE KeysAssumption DEF TypeOK, PcInv, OwnedByKey, Live
<1>1. ASSUME rec' = rec PROVE OwnedByKey'
  BY <1>1
<1>2. ASSUME NEW r \in Request, pc[r] \in Live, KeyOf[r] \in Key,
             Inserted(r) \/ Completed(r) \/ Deleted(r)
      PROVE  OwnedByKey'
  BY <1>2 DEF Inserted, Completed, Deleted, Absent
<1>3. ASSUME NEW r \in Request, InsertWins(r) \/ InsertError(r) PROVE OwnedByKey'
  BY <1>1, <1>2, <1>3 DEF InsertWins, InsertError, Goto
<1>4. ASSUME NEW r \in Request, Closing(r) PROVE OwnedByKey'
  <2>1. pc[r] \in {"complete", "release", "shielded"} /\ KeyOf[r] \in Key
    BY <1>4 DEF Closing, StoreAndReply, StoreRaises, ReleaseAndReply, ReleaseAndRaise, Goto
  <2>2. Completed(r) \/ Deleted(r) \/ rec' = rec
    BY <1>4 DEF Closing, StoreAndReply, StoreRaises, ReleaseAndReply, ReleaseAndRaise
  <2> QED
    BY <1>1, <1>2, <2>1, <2>2
<1>5. ASSUME NEW r \in Request, Die(r) PROVE OwnedByKey'
  <2>1. pc[r] \in {"insert", "complete", "release", "shielded"} => KeyOf[r] \in Key
    OBVIOUS
  <2> QED
    BY <1>1, <1>2, <1>5, <2>1 DEF Die
<1>6. ASSUME Tick PROVE OwnedByKey'
  <2>1. \A k \in Key : rec'[k].status = rec[k].status /\ rec'[k].by = rec[k].by
    BY <1>6 DEF Tick, Record
  <2> QED
    BY <2>1
<1>7. ASSUME NEW k \in Key, Expire(k) PROVE OwnedByKey'
  BY <1>7 DEF Expire, Absent
<1>8. ASSUME NEW r \in Request,
             Arrive(r) \/ InsertDuplicate(r) \/ FindError(r) \/ FindNothing(r) \/ FindCompleted(r)
               \/ FindUnreadable(r) \/ FindInProgress(r) \/ SideEffect(r) \/ Succeed(r)
               \/ Fail(r) \/ Cancel(r)
      PROVE  OwnedByKey'
  BY <1>1, <1>8 DEF Arrive, InsertDuplicate, FindError, FindNothing, FindCompleted,
     FindUnreadable, FindInProgress, SideEffect, Succeed, Fail, Cancel
<1> QED
  BY <1>1, <1>3, <1>4, <1>5, <1>6, <1>7, <1>8 DEF Next, Claiming, vars

\* A stored response is written by complete() only, of an execution that succeeded.
LEMMA StoredStep ==
    ASSUME TypeOK, PcInv, StoredInv, [Next]_vars
    PROVE  StoredInv'
<1> USE KeysAssumption, TimingAssumption DEF TypeOK, PcInv, StoredInv, Record, Absent
<1>1. ASSUME NEW r \in Request, Arrive(r) PROVE StoredInv'
  BY <1>1 DEF Arrive, Goto
<1>2. ASSUME NEW r \in Request, InsertWins(r) PROVE StoredInv'
  BY <1>2 DEF InsertWins, Goto, Inserted
<1>3. ASSUME NEW r \in Request, InsertDuplicate(r) PROVE StoredInv'
  BY <1>3 DEF InsertDuplicate, Goto
<1>4. ASSUME NEW r \in Request, InsertError(r) PROVE StoredInv'
  BY <1>4 DEF InsertError, Goto, Inserted, Blame
<1>5. ASSUME NEW r \in Request, FindError(r) PROVE StoredInv'
  BY <1>5 DEF FindError, Goto, Blame
<1>6. ASSUME NEW r \in Request, FindNothing(r) PROVE StoredInv'
  BY <1>6 DEF FindNothing, Goto
<1>7. ASSUME NEW r \in Request, FindCompleted(r) PROVE StoredInv'
  BY <1>7 DEF FindCompleted, Goto, Reply
<1>8. ASSUME NEW r \in Request, FindUnreadable(r) PROVE StoredInv'
  BY <1>8 DEF FindUnreadable, Goto, Blame
<1>9. ASSUME NEW r \in Request, FindInProgress(r) PROVE StoredInv'
  BY <1>9 DEF FindInProgress, Goto, Reply
<1>10. ASSUME NEW r \in Request, SideEffect(r) PROVE StoredInv'
  BY <1>10 DEF SideEffect
<1>11. ASSUME NEW r \in Request, Succeed(r) PROVE StoredInv'
  BY <1>11 DEF Succeed, Goto, Reply
<1>12. ASSUME NEW r \in Request, Fail(r) PROVE StoredInv'
  BY <1>12 DEF Fail, Goto, Reply, Blame
<1>13. ASSUME NEW r \in Request, Cancel(r) PROVE StoredInv'
  BY <1>13 DEF Cancel, Goto, Blame
<1>14. ASSUME NEW r \in Request, StoreAndReply(r) PROVE StoredInv'
  <2>1. pc[r] \in {"complete", "release", "shielded"} /\ KeyOf[r] \in Key /\ claimed[r]
    BY <1>14 DEF StoreAndReply, Goto
  <2>2. claimed' = claimed /\ success' = success
    BY <1>14 DEF StoreAndReply
  <2>3. Completed(r) \/ rec' = rec
    BY <1>14 DEF StoreAndReply, Completed
  <2> QED
    BY <1>14, <2>1, <2>2, <2>3 DEF StoreAndReply, Goto, Completed
<1>15. ASSUME NEW r \in Request, ReleaseAndReply(r) PROVE StoredInv'
  <2>1. pc[r] \in {"complete", "release", "shielded"} /\ KeyOf[r] \in Key /\ claimed[r]
    BY <1>15 DEF ReleaseAndReply, Goto
  <2>2. claimed' = claimed /\ success' = success
    BY <1>15 DEF ReleaseAndReply
  <2>3. Deleted(r) \/ rec' = rec
    BY <1>15 DEF ReleaseAndReply, Deleted
  <2> QED
    BY <1>15, <2>1, <2>2, <2>3 DEF ReleaseAndReply, Goto, Deleted
<1>16. ASSUME NEW r \in Request, ReleaseAndRaise(r) PROVE StoredInv'
  <2>1. pc[r] \in {"complete", "release", "shielded"} /\ KeyOf[r] \in Key /\ claimed[r]
    BY <1>16 DEF ReleaseAndRaise, Goto
  <2>2. claimed' = claimed /\ success' = success
    BY <1>16 DEF ReleaseAndRaise
  <2>3. Deleted(r) \/ rec' = rec
    BY <1>16 DEF ReleaseAndRaise, Deleted
  <2> QED
    BY <1>16, <2>1, <2>2, <2>3 DEF ReleaseAndRaise, Goto, Deleted
<1>17. ASSUME NEW r \in Request, Die(r) PROVE StoredInv'
  BY <1>17 DEF Die, Inserted, Completed, Deleted, Blame
<1>18. ASSUME Tick PROVE StoredInv'
  BY <1>18 DEF Tick
<1>19. ASSUME NEW k \in Key, Expire(k) PROVE StoredInv'
  BY <1>19 DEF Expire, Blame
<1>20. ASSUME NEW r \in Request, StoreRaises(r) PROVE StoredInv'
  BY <1>20 DEF StoreRaises, Goto
<1>21. CASE UNCHANGED vars
  BY <1>21 DEF vars
<1> QED
  BY <1>1, <1>2, <1>3, <1>4, <1>5, <1>6, <1>7, <1>8, <1>9, <1>10, <1>11, <1>12, <1>13, <1>14, <1>15, <1>16, <1>17, <1>18, <1>19, <1>20, <1>21 DEF Next, Claiming, Closing

\* What is replayed is what is stored; who looks a record up has not claimed it.
LEMMA ReplayStep ==
    ASSUME TypeOK, PcInv, StoredInv, ReplayIsGenuine, [Next]_vars
    PROVE  ReplayIsGenuine'
<1> USE KeysAssumption, TimingAssumption DEF TypeOK, PcInv, StoredInv, ReplayIsGenuine, Answer
<1>1. ASSUME NEW r \in Request, Arrive(r) PROVE ReplayIsGenuine'
  BY <1>1 DEF Arrive, Goto
<1>2. ASSUME NEW r \in Request, InsertWins(r) PROVE ReplayIsGenuine'
  BY <1>2 DEF InsertWins, Goto, Inserted
<1>3. ASSUME NEW r \in Request, InsertDuplicate(r) PROVE ReplayIsGenuine'
  BY <1>3 DEF InsertDuplicate, Goto
<1>4. ASSUME NEW r \in Request, InsertError(r) PROVE ReplayIsGenuine'
  BY <1>4 DEF InsertError, Goto, Inserted, Blame
<1>5. ASSUME NEW r \in Request, FindError(r) PROVE ReplayIsGenuine'
  BY <1>5 DEF FindError, Goto, Blame
<1>6. ASSUME NEW r \in Request, FindNothing(r) PROVE ReplayIsGenuine'
  BY <1>6 DEF FindNothing, Goto
<1>7. ASSUME NEW r \in Request, FindCompleted(r) PROVE ReplayIsGenuine'
  BY <1>7 DEF FindCompleted, Goto, Reply
<1>8. ASSUME NEW r \in Request, FindUnreadable(r) PROVE ReplayIsGenuine'
  BY <1>8 DEF FindUnreadable, Goto, Blame
<1>9. ASSUME NEW r \in Request, FindInProgress(r) PROVE ReplayIsGenuine'
  BY <1>9 DEF FindInProgress, Goto, Reply
<1>10. ASSUME NEW r \in Request, SideEffect(r) PROVE ReplayIsGenuine'
  BY <1>10 DEF SideEffect
<1>11. ASSUME NEW r \in Request, Succeed(r) PROVE ReplayIsGenuine'
  BY <1>11 DEF Succeed, Goto, Reply
<1>12. ASSUME NEW r \in Request, Fail(r) PROVE ReplayIsGenuine'
  BY <1>12 DEF Fail, Goto, Reply, Blame
<1>13. ASSUME NEW r \in Request, Cancel(r) PROVE ReplayIsGenuine'
  BY <1>13 DEF Cancel, Goto, Blame
<1>14. ASSUME NEW r \in Request, StoreAndReply(r) PROVE ReplayIsGenuine'
  BY <1>14 DEF StoreAndReply, Goto, Reply, Completed, Blame
<1>15. ASSUME NEW r \in Request, ReleaseAndReply(r) PROVE ReplayIsGenuine'
  BY <1>15 DEF ReleaseAndReply, Goto, Reply, Deleted, Blame
<1>16. ASSUME NEW r \in Request, ReleaseAndRaise(r) PROVE ReplayIsGenuine'
  BY <1>16 DEF ReleaseAndRaise, Goto, Reply, Deleted, Blame
<1>17. ASSUME NEW r \in Request, Die(r) PROVE ReplayIsGenuine'
  BY <1>17 DEF Die, Inserted, Completed, Deleted, Blame
<1>18. ASSUME Tick PROVE ReplayIsGenuine'
  BY <1>18 DEF Tick
<1>19. ASSUME NEW k \in Key, Expire(k) PROVE ReplayIsGenuine'
  BY <1>19 DEF Expire, Blame
<1>20. ASSUME NEW r \in Request, StoreRaises(r) PROVE ReplayIsGenuine'
  BY <1>20 DEF StoreRaises, Goto, Reply
<1>21. CASE UNCHANGED vars
  BY <1>21 DEF vars
<1> QED
  BY <1>1, <1>2, <1>3, <1>4, <1>5, <1>6, <1>7, <1>8, <1>9, <1>10, <1>11, <1>12, <1>13, <1>14, <1>15, <1>16, <1>17, <1>18, <1>19, <1>20, <1>21 DEF Next, Claiming, Closing

\* As long as nothing goes wrong with a key, its first executor stays the only one.
LEMMA CleanStep ==
    ASSUME TypeOK, PcInv, HoldInv, CleanInv, [Next]_vars
    PROVE  CleanInv'
<1> USE KeysAssumption, TimingAssumption DEF TypeOK, PcInv, HoldInv, CleanInv, holders, Holding, Record, Absent
<1>1. ASSUME NEW r \in Request, Arrive(r) PROVE CleanInv'
  BY <1>1 DEF Arrive, Goto
<1>2. ASSUME NEW r \in Request, InsertWins(r) PROVE CleanInv'
  BY <1>2 DEF InsertWins, Goto, Inserted
<1>3. ASSUME NEW r \in Request, InsertDuplicate(r) PROVE CleanInv'
  BY <1>3 DEF InsertDuplicate, Goto
<1>4. ASSUME NEW r \in Request, InsertError(r) PROVE CleanInv'
  <2>1. ASSUME NEW s \in Request, KeyOf[s] \in Key, excuse'[KeyOf[s]] = {}
        PROVE  KeyOf[s] # KeyOf[r] /\ excuse[KeyOf[s]] = {}
    BY <2>1, <1>4, Blamed DEF InsertError, Goto
  <2> QED
    BY <1>4, <2>1 DEF InsertError, Goto, Inserted
<1>5. ASSUME NEW r \in Request, FindError(r) PROVE CleanInv'
  <2>1. ASSUME NEW s \in Request, KeyOf[s] \in Key, excuse'[KeyOf[s]] = {}
        PROVE  KeyOf[s] # KeyOf[r] /\ excuse[KeyOf[s]] = {}
    BY <2>1, <1>5, Blamed DEF FindError, Goto
  <2> QED
    BY <1>5, <2>1 DEF FindError, Goto
<1>6. ASSUME NEW r \in Request, FindNothing(r) PROVE CleanInv'
  BY <1>6 DEF FindNothing, Goto
<1>7. ASSUME NEW r \in Request, FindCompleted(r) PROVE CleanInv'
  BY <1>7 DEF FindCompleted, Goto, Reply
<1>8. ASSUME NEW r \in Request, FindUnreadable(r) PROVE CleanInv'
  <2>1. ASSUME NEW s \in Request, KeyOf[s] \in Key, excuse'[KeyOf[s]] = {}
        PROVE  KeyOf[s] # KeyOf[r] /\ excuse[KeyOf[s]] = {}
    BY <2>1, <1>8, Blamed DEF FindUnreadable, Goto
  <2> QED
    BY <1>8, <2>1 DEF FindUnreadable, Goto
<1>9. ASSUME NEW r \in Request, FindInProgress(r) PROVE CleanInv'
  BY <1>9 DEF FindInProgress, Goto, Reply
<1>10. ASSUME NEW r \in Request, SideEffect(r) PROVE CleanInv'
  BY <1>10 DEF SideEffect
<1>11. ASSUME NEW r \in Request, Succeed(r) PROVE CleanInv'
  BY <1>11 DEF Succeed, Goto, Reply
<1>12. ASSUME NEW r \in Request, Fail(r) PROVE CleanInv'
  <2>1. ASSUME NEW s \in Request, KeyOf[s] \in Key, excuse'[KeyOf[s]] = {}
        PROVE  excuse[KeyOf[s]] = {} /\ (claimed[r] => KeyOf[s] # KeyOf[r])
    BY <2>1, <1>12, Blamed DEF Fail
  <2>2. UNCHANGED <<rec, claimed, effect>> /\ straggler' \subseteq straggler \cup {r}
    BY <1>12 DEF Fail
  <2>3. /\ pc[r] = "run"
        /\ pc' = [pc EXCEPT ![r] = IF claimed[r] THEN "release" ELSE "replied"]
    BY <1>12 DEF Fail, Goto
  <2>4. ASSUME NEW s \in Request, KeyOf[s] \in Key, excuse'[KeyOf[s]] = {} PROVE s # r
    BY <2>1, <2>3, <2>4
  <2> QED
    BY <2>1, <2>2, <2>3, <2>4
<1>13. ASSUME NEW r \in Request, Cancel(r) PROVE CleanInv'
  <2>1. ASSUME NEW s \in Request, KeyOf[s] \in Key, excuse'[KeyOf[s]] = {}
        PROVE  excuse[KeyOf[s]] = {} /\ (claimed[r] => KeyOf[s] # KeyOf[r])
    BY <2>1, <1>13, Blamed DEF Cancel
  <2>2. UNCHANGED <<rec, claimed, effect>> /\ straggler' \subseteq straggler \cup {r}
    BY <1>13 DEF Cancel
  <2>3. /\ pc[r] = "run"
        /\ pc' = [pc EXCEPT ![r] = IF claimed[r] THEN "shielded" ELSE "dead"]
    BY <1>13 DEF Cancel, Goto
  <2>4. ASSUME NEW s \in Request, KeyOf[s] \in Key, excuse'[KeyOf[s]] = {} PROVE s # r
    BY <2>1, <2>3, <2>4
  <2> QED
    BY <2>1, <2>2, <2>3, <2>4
<1>14. ASSUME NEW r \in Request, StoreAndReply(r) PROVE CleanInv'
  <2>1. ASSUME NEW s \in Request, KeyOf[s] \in Key, excuse'[KeyOf[s]] = {}
        PROVE  excuse[KeyOf[s]] = {}
    BY <2>1, <1>14, Blamed DEF StoreAndReply, Goto
  <2>2. UNCHANGED <<claimed, effect, straggler>> /\ pc' = [pc EXCEPT ![r] = "replied"]
    BY <1>14 DEF StoreAndReply, Goto
  <2>3. r \in holders /\ KeyOf[r] \in Key /\ rec[KeyOf[r]].by = r
    BY <1>14 DEF StoreAndReply, Goto
  <2>4. Completed(r) \/ rec' = rec
    BY <1>14 DEF StoreAndReply, Completed
  <2>5. ASSUME NEW k \in Key, rec[k].status # "ABSENT"
        PROVE  rec'[k].status # "ABSENT" /\ rec'[k].by = rec[k].by
    BY <2>3, <2>4, <2>5 DEF Completed
  <2> QED
    BY <2>1, <2>2, <2>5
<1>15. ASSUME NEW r \in Request, ReleaseAndReply(r) PROVE CleanInv'
  <2>1. ASSUME NEW s \in Request, KeyOf[s] \in Key, excuse'[KeyOf[s]] = {}
        PROVE  KeyOf[s] # KeyOf[r] /\ excuse[KeyOf[s]] = {}
    <3>1. excuse[KeyOf[s]] = {}
      BY <2>1, <1>15, Blamed DEF ReleaseAndReply, Goto
    <3> QED
      BY <3>1, <1>15 DEF ReleaseAndReply, Goto
  <2>2. ASSUME NEW s \in Request, KeyOf[s] \in Key, KeyOf[s] # KeyOf[r]
        PROVE  rec'[KeyOf[s]] = rec[KeyOf[s]]
    BY <2>2, <1>15 DEF ReleaseAndReply, Deleted
  <2> QED
    BY <1>15, <2>1, <2>2 DEF ReleaseAndReply, Goto
<1>16. ASSUME NEW r \in Request, ReleaseAndRaise(r) PROVE CleanInv'
  <2>1. ASSUME NEW s \in Request, KeyOf[s] \in Key, excuse'[KeyOf[s]] = {}
        PROVE  KeyOf[s] # KeyOf[r] /\ excuse[KeyOf[s]] = {}
    <3>1. excuse[KeyOf[s]] = {}
      BY <2>1, <1>16, Blamed DEF ReleaseAndRaise, Goto
    <3> QED
      BY <3>1, <1>16 DEF ReleaseAndRaise, Goto
  <2>2. ASSUME NEW s \in Request, KeyOf[s] \in Key, KeyOf[s] # KeyOf[r]
        PROVE  rec'[KeyOf[s]] = rec[KeyOf[s]]
    BY <2>2, <1>16 DEF ReleaseAndRaise, Deleted
  <2> QED
    BY <1>16, <2>1, <2>2 DEF ReleaseAndRaise, Goto
<1>17. ASSUME NEW r \in Request, Die(r) PROVE CleanInv'
  <2>1. ASSUME NEW s \in Request, KeyOf[s] \in Key, excuse'[KeyOf[s]] = {}
        PROVE  KeyOf[s] # KeyOf[r] /\ excuse[KeyOf[s]] = {}
    BY <2>1, <1>17, Blamed DEF Die
  <2>2. ASSUME NEW s \in Request, KeyOf[s] \in Key, KeyOf[s] # KeyOf[r]
        PROVE  rec'[KeyOf[s]] = rec[KeyOf[s]]
    BY <2>2, <1>17 DEF Die, Inserted, Completed, Deleted
  <2> QED
    BY <1>17, <2>1, <2>2 DEF Die
<1>18. ASSUME Tick PROVE CleanInv'
  BY <1>18 DEF Tick
<1>19. ASSUME NEW k \in Key, Expire(k) PROVE CleanInv'
  <2>1. ASSUME NEW s \in Request, KeyOf[s] \in Key, excuse'[KeyOf[s]] = {}
        PROVE  KeyOf[s] # k /\ excuse[KeyOf[s]] = {}
    BY <2>1, <1>19, Blamed DEF Expire
  <2> QED
    BY <1>19, <2>1 DEF Expire
<1>20. ASSUME NEW r \in Request, StoreRaises(r) PROVE CleanInv'
  BY <1>20 DEF StoreRaises, Goto
<1>21. CASE UNCHANGED vars
  BY <1>21 DEF vars
<1> QED
  BY <1>1, <1>2, <1>3, <1>4, <1>5, <1>6, <1>7, <1>8, <1>9, <1>10, <1>11, <1>12, <1>13, <1>14, <1>15, <1>16, <1>17, <1>18, <1>19, <1>20, <1>21 DEF Next, Claiming, Closing

--------------------------------------------------------------------------------
\* The guard has not been used yet.
LEMMA InitIInv == Init => IInv
BY KeysAssumption, TimingAssumption
   DEF Init, IInv, TypeOK, PcInv, HoldInv, OwnedByKey, StoredInv, ReplayIsGenuine, CleanInv,
       holders, Holding, Live, Record, Absent, Answer, Silent, Excuse

\* Every step keeps the inductive invariant.
LEMMA StepIInv == IInv /\ [Next]_vars => IInv'
BY TypeStep, PcStep, HoldStep, OwnedStep, StoredStep, ReplayStep, CleanStep DEF IInv

LEMMA SpecIInv == Spec => []IInv
BY InitIInv, StepIInv, PTL DEF Spec

\* Type correctness of the guard: no expiry time is ever negative, whatever the
\* number of requests and keys (db/idempotency.py).
THEOREM TypeCorrect == Spec => []TypeOK
<1>1. IInv => TypeOK
  BY DEF IInv
<1> QED
  BY SpecIInv, <1>1, PTL

\* A request that executes under the guard owns the record of its key until it
\* lets go of it: IN_FLIGHT_TTL outlasts the request, and no other request's
\* complete() or release() reaches a record it did not insert.
THEOREM Exclusive == Spec => []ExclusiveClaim
<1>1. IInv => ExclusiveClaim
  BY DEF IInv, HoldInv, ExclusiveClaim
<1> QED
  BY SpecIInv, <1>1, PTL

\* Two requests that execute with one key at the same time are not both under
\* the guard, and even one beside the other without the guard is seen only after
\* something went wrong with that key: claim() lets a request run unguarded
\* (idempotency.py:64-104) after a store error, an unreadable record, or a record
\* that expired or was released between the insert and the look.
THEOREM MutualExclusion ==
    Spec => [](\A r, s \in Request :
                 r # s /\ pc[r] = "run" /\ pc[s] = "run" /\ KeyOf[r] = KeyOf[s] /\ KeyOf[r] # NoKey =>
                   /\ ~(claimed[r] /\ claimed[s])
                   /\ excuse[KeyOf[r]] # {})
<1>1. IInv => \A r, s \in Request :
                r # s /\ pc[r] = "run" /\ pc[s] = "run" /\ KeyOf[r] = KeyOf[s] /\ KeyOf[r] # NoKey =>
                  /\ ~(claimed[r] /\ claimed[s])
                  /\ excuse[KeyOf[r]] # {}
  <2> SUFFICES ASSUME IInv, NEW r \in Request, NEW s \in Request, r # s,
                      pc[r] = "run", pc[s] = "run", KeyOf[r] = KeyOf[s], KeyOf[r] # NoKey
               PROVE  ~(claimed[r] /\ claimed[s]) /\ excuse[KeyOf[r]] # {}
    OBVIOUS
  <2>1. KeyOf[r] \in Key /\ KeyOf[s] \in Key
    BY KeysAssumption
  <2>2. ~(claimed[r] /\ claimed[s])
    BY HoldersApart DEF IInv, holders, Holding
  <2>3. excuse[KeyOf[r]] = {} => claimed[r] /\ claimed[s]
    BY <2>1 DEF IInv, CleanInv
  <2> QED
    BY <2>2, <2>3
<1> QED
  BY SpecIInv, <1>1, PTL

\* A replayed response is the response of a guarded execution of the same key
\* that succeeded ("same key, same response").
THEOREM GenuineReplay == Spec => []ReplayIsGenuine
<1>1. IInv => ReplayIsGenuine
  BY DEF IInv
<1> QED
  BY SpecIInv, <1>1, PTL

\* Two requests of one key both have their side effect only if a store error, an
\* unreadable or expired record or an unsuccessful execution came in between.
THEOREM OneEffect == Spec => []EffectOnce
<1>1. IInv => EffectOnce
  <2> SUFFICES ASSUME IInv, NEW r \in effect, NEW s \in effect, r # s,
                      KeyOf[r] = KeyOf[s], KeyOf[r] # NoKey, excuse[KeyOf[r]] = {}
               PROVE  FALSE
    BY DEF EffectOnce
  <2>1. r \in Request /\ s \in Request /\ KeyOf[r] \in Key
    BY KeysAssumption DEF IInv, TypeOK
  <2>2. claimed[r] /\ claimed[s]
    BY <2>1 DEF IInv, CleanInv
  <2>3. rec[KeyOf[r]].by = r /\ rec[KeyOf[s]].by = s
    BY <2>1, <2>2 DEF IInv, CleanInv
  <2> QED
    BY <2>3
<1> QED
  BY SpecIInv, <1>1, PTL

--------------------------------------------------------------------------------
(* The store protocol implements module KeyGuard *)

\* Changing nothing but the control state of requests that hold no key is
\* invisible to KeyGuard.
LEMMA Invisible ==
    ASSUME rec' = rec, holders' = holders
    PROVE  UNCHANGED Guard!guardVars
BY DEF Guard!guardVars

\* Time passes without KeyGuard noticing.
LEMMA TickInvisible ==
    ASSUME IInv, Tick
    PROVE  UNCHANGED Guard!guardVars
<1>1. holders' = holders
  BY DEF Tick, holders
<1>2. \A k \in Key : rec'[k].status = rec[k].status /\ rec'[k].by = rec[k].by
  BY DEF Tick, IInv, TypeOK, Record
<1> QED
  BY <1>1, <1>2 DEF Guard!guardVars

\* One write of the record of r's key is one write of KeyGuard's slot.
LEMMA WriteMaps ==
    ASSUME IInv, NEW k \in Key, NEW s \in {"ABSENT", "IN_PROGRESS", "COMPLETED"},
           NEW b \in Request \cup {Nobody}, NEW t \in Nat,
           rec' = [rec EXCEPT ![k] = [status |-> s, by |-> b, ttl |-> t]]
    PROVE  Guard!SetSlot(k, SlotOf(s), b)
<1>1. rec \in [Key -> Record]
  BY DEF IInv, TypeOK
<1>2. [j \in Key |-> SlotOf(rec[j].status)]' =
          [[j \in Key |-> SlotOf(rec[j].status)] EXCEPT ![k] = SlotOf(s)]
  BY <1>1
<1>3. [j \in Key |-> rec[j].by]' = [[j \in Key |-> rec[j].by] EXCEPT ![k] = b]
  BY <1>1
<1> QED
  BY <1>2, <1>3 DEF Guard!SetSlot

\* A request that leaves the guard's protection is no longer active.
LEMMA LeaveMaps ==
    ASSUME IInv, NEW r \in holders, claimed' = claimed,
           NEW to \in {"replied", "dead"}, pc' = [pc EXCEPT ![r] = to]
    PROVE  holders' = holders \ {r}
BY DEF holders, Holding, IInv, TypeOK

\* complete() seals the slot, release() frees it, a lost write leaves it held.
LEMMA SealMaps ==
    ASSUME IInv, NEW r \in holders, Completed(r), holders' = holders \ {r}
    PROVE  Guard!Seal(r)
<1>1. /\ KeyOf[r] \in Key /\ r \in Request
      /\ rec[KeyOf[r]].status = "IN_PROGRESS" /\ rec[KeyOf[r]].by = r
  BY DEF IInv, PcInv, HoldInv, holders
<1>2. rec' = [rec EXCEPT ![KeyOf[r]] = [status |-> "COMPLETED", by |-> r, ttl |-> CompletedTTL]]
  BY <1>1 DEF Completed
<1>3. Guard!SetSlot(KeyOf[r], SlotOf("COMPLETED"), r)
  BY <1>1, <1>2, WriteMaps, TimingAssumption
<1> QED
  BY <1>1, <1>3 DEF Guard!Seal, SlotOf

LEMMA FreeMaps ==
    ASSUME IInv, NEW r \in holders, Deleted(r), holders' = holders \ {r}
    PROVE  Guard!Free(r)
<1>1. /\ KeyOf[r] \in Key /\ r \in Request
      /\ rec[KeyOf[r]].status = "IN_PROGRESS" /\ rec[KeyOf[r]].by = r
  BY DEF IInv, PcInv, HoldInv, holders
<1>2. Guard!SetSlot(KeyOf[r], SlotOf("ABSENT"), Nobody)
  BY <1>1, WriteMaps DEF Deleted, Absent
<1> QED
  BY <1>1, <1>2 DEF Guard!Free, SlotOf

LEMMA AbandonMaps ==
    ASSUME NEW r \in holders, rec' = rec, holders' = holders \ {r}
    PROVE  Guard!Abandon(r)
BY DEF Guard!Abandon

\* An insert that reaches the store takes a free slot, known to the request or not.
LEMMA InsertMaps ==
    ASSUME IInv, NEW r \in Request, pc[r] = "insert", Inserted(r)
    PROVE  /\ holders' = holders \cup {r} => Guard!Acquire(r)
           /\ holders' = holders => Guard!Strand(r)
<1>1. /\ KeyOf[r] \in Key /\ r \notin holders /\ rec[KeyOf[r]].status = "ABSENT"
      /\ InFlightTTL - elapsed[r] \in Nat
  BY TimingAssumption DEF IInv, PcInv, TypeOK, holders, Inserted, Live
<1>2. Guard!SetSlot(KeyOf[r], SlotOf("IN_PROGRESS"), r)
  BY <1>1, WriteMaps DEF Inserted
<1> QED
  BY <1>1, <1>2 DEF Guard!Acquire, Guard!Strand, SlotOf

\* Every step of the store protocol is a step of KeyGuard or invisible to it.
LEMMA StepMaps ==
    ASSUME IInv, [Next]_vars
    PROVE  [Guard!GuardNext]_(Guard!guardVars)
<1> DEFINE Goal == [Guard!GuardNext]_(Guard!guardVars)
<1> USE DEF IInv, TypeOK, PcInv, holders, Holding, Live
<1>1. ASSUME NEW r \in Request, Arrive(r) PROVE Goal
  <2>1. rec' = rec /\ holders' = holders
    BY <1>1 DEF Arrive, Goto
  <2> QED
    BY <2>1, Invisible
<1>2. ASSUME NEW r \in Request, InsertDuplicate(r) PROVE Goal
  <2>1. rec' = rec /\ holders' = holders
    BY <1>2 DEF InsertDuplicate, Goto
  <2> QED
    BY <2>1, Invisible
<1>3. ASSUME NEW r \in Request, FindError(r) PROVE Goal
  <2>1. rec' = rec /\ holders' = holders
    BY <1>3 DEF FindError, Goto
  <2> QED
    BY <2>1, Invisible
<1>4. ASSUME NEW r \in Request, FindNothing(r) PROVE Goal
  <2>1. rec' = rec /\ holders' = holders
    BY <1>4 DEF FindNothing, Goto
  <2> QED
    BY <2>1, Invisible
<1>5. ASSUME NEW r \in Request, FindCompleted(r) PROVE Goal
  <2>1. rec' = rec /\ holders' = holders
    BY <1>5 DEF FindCompleted, Goto
  <2> QED
    BY <2>1, Invisible
<1>6. ASSUME NEW r \in Request, FindUnreadable(r) PROVE Goal
  <2>1. rec' = rec /\ holders' = holders
    BY <1>6 DEF FindUnreadable, Goto
  <2> QED
    BY <2>1, Invisible
<1>7. ASSUME NEW r \in Request, FindInProgress(r) PROVE Goal
  <2>1. rec' = rec /\ holders' = holders
    BY <1>7 DEF FindInProgress, Goto
  <2> QED
    BY <2>1, Invisible
<1>8. ASSUME NEW r \in Request, SideEffect(r) PROVE Goal
  <2>1. rec' = rec /\ holders' = holders
    BY <1>8 DEF SideEffect
  <2> QED
    BY <2>1, Invisible
<1>9. ASSUME NEW r \in Request, Succeed(r) PROVE Goal
  <2>1. rec' = rec /\ holders' = holders
    BY <1>9 DEF Succeed, Goto
  <2> QED
    BY <2>1, Invisible
<1>10. ASSUME NEW r \in Request, Fail(r) PROVE Goal
  <2>1. rec' = rec /\ holders' = holders
    BY <1>10 DEF Fail, Goto
  <2> QED
    BY <2>1, Invisible
<1>11. ASSUME NEW r \in Request, Cancel(r) PROVE Goal
  <2>1. rec' = rec /\ holders' = holders
    BY <1>11 DEF Cancel, Goto
  <2> QED
    BY <2>1, Invisible
<1>12. ASSUME NEW r \in Request, InsertWins(r) PROVE Goal
  <2>1. holders' = holders \cup {r}
    BY <1>12 DEF InsertWins, Goto
  <2>2. Guard!Acquire(r)
    BY <1>12, <2>1, InsertMaps DEF InsertWins, Goto
  <2> QED
    BY <2>2 DEF Guard!GuardNext
<1>13. ASSUME NEW r \in Request, InsertError(r) PROVE Goal
  <2>1. holders' = holders
    BY <1>13 DEF InsertError, Goto
  <2>2. CASE Inserted(r)
    <3>1. Guard!Strand(r)
      BY <1>13, <2>1, <2>2, InsertMaps DEF InsertError, Goto
    <3> QED
      BY <3>1 DEF Guard!GuardNext
  <2>3. CASE rec' = rec
    BY <2>1, <2>3, Invisible
  <2> QED
    BY <1>13, <2>2, <2>3 DEF InsertError
<1>14. ASSUME NEW r \in Request, StoreAndReply(r) PROVE Goal
  <2>1. r \in holders /\ holders' = holders \ {r}
    BY <1>14, LeaveMaps DEF StoreAndReply, Goto
  <2>2. CASE Completed(r)
    BY <2>1, <2>2, SealMaps DEF Guard!GuardNext
  <2>3. CASE rec' = rec
    BY <2>1, <2>3, AbandonMaps DEF Guard!GuardNext
  <2> QED
    BY <1>14, <2>2, <2>3 DEF StoreAndReply, Completed
<1>15. ASSUME NEW r \in Request, ReleaseAndReply(r) PROVE Goal
  <2>1. r \in holders /\ holders' = holders \ {r}
    BY <1>15, LeaveMaps DEF ReleaseAndReply, Goto
  <2>2. CASE Deleted(r)
    BY <2>1, <2>2, FreeMaps DEF Guard!GuardNext
  <2>3. CASE rec' = rec
    BY <2>1, <2>3, AbandonMaps DEF Guard!GuardNext
  <2> QED
    BY <1>15, <2>2, <2>3 DEF ReleaseAndReply, Deleted
<1>16. ASSUME NEW r \in Request, ReleaseAndRaise(r) PROVE Goal
  <2>1. r \in holders /\ holders' = holders \ {r}
    BY <1>16, LeaveMaps DEF ReleaseAndRaise, Goto
  <2>2. CASE Deleted(r)
    BY <2>1, <2>2, FreeMaps DEF Guard!GuardNext
  <2>3. CASE rec' = rec
    BY <2>1, <2>3, AbandonMaps DEF Guard!GuardNext
  <2> QED
    BY <1>16, <2>2, <2>3 DEF ReleaseAndRaise, Deleted
<1>17. ASSUME NEW r \in Request, Die(r) PROVE Goal
  <2>1. CASE pc[r] = "insert" /\ Inserted(r)
    <3>1. holders' = holders
      BY <1>17, <2>1 DEF Die
    <3> QED
      BY <2>1, <3>1, InsertMaps DEF Guard!GuardNext
  <2>2. CASE pc[r] = "complete" /\ Completed(r)
    <3>1. r \in holders /\ holders' = holders \ {r}
      BY <1>17, <2>2, LeaveMaps DEF Die
    <3> QED
      BY <2>2, <3>1, SealMaps DEF Guard!GuardNext
  <2>3. CASE pc[r] \in {"release", "shielded"} /\ Deleted(r)
    <3>1. r \in holders /\ holders' = holders \ {r}
      BY <1>17, <2>3, LeaveMaps DEF Die
    <3> QED
      BY <2>3, <3>1, FreeMaps DEF Guard!GuardNext
  <2>4. CASE rec' = rec /\ r \in holders
    <3>1. holders' = holders \ {r}
      BY <1>17, <2>4, LeaveMaps DEF Die
    <3> QED
      BY <2>4, <3>1, AbandonMaps DEF Guard!GuardNext
  <2>5. CASE rec' = rec /\ r \notin holders
    <3>1. holders' = holders
      BY <1>17, <2>5 DEF Die
    <3> QED
      BY <2>5, <3>1, Invisible
  <2> QED
    BY <1>17, <2>1, <2>2, <2>3, <2>4, <2>5 DEF Die
<1>18. ASSUME Tick PROVE Goal
  BY <1>18, TickInvisible
<1>19. ASSUME NEW k \in Key, Expire(k) PROVE Goal
  <2>1. holders' = holders /\ rec' = [rec EXCEPT ![k] = Absent]
    BY <1>19 DEF Expire
  <2>2. rec[k].by \notin holders
    <3>1. ASSUME rec[k].by \in holders, KeyOf[rec[k].by] = k PROVE FALSE
      BY <1>19, <3>1, TimingAssumption DEF Expire, HoldInv
    <3>2. ASSUME rec[k].by \in holders PROVE KeyOf[rec[k].by] = k
      BY <1>19, <3>2 DEF OwnedByKey, Expire, Record
    <3> QED
      BY <3>1, <3>2
  <2>3. Guard!SetSlot(k, SlotOf("ABSENT"), Nobody)
    BY <2>1, WriteMaps DEF Absent
  <2>4. Guard!Forget(k)
    BY <1>19, <2>1, <2>2, <2>3 DEF Guard!Forget, SlotOf, Expire, Record
  <2> QED
    BY <2>4 DEF Guard!GuardNext
<1>20. ASSUME NEW r \in Request, StoreRaises(r) PROVE Goal
  <2>1. rec' = rec /\ r \in holders /\ holders' = holders \ {r}
    BY <1>20, LeaveMaps DEF StoreRaises, Goto
  <2> QED
    BY <2>1, AbandonMaps DEF Guard!GuardNext
<1>21. CASE UNCHANGED vars
  BY <1>21, Invisible DEF vars
<1> QED
  BY <1>1, <1>2, <1>3, <1>4, <1>5, <1>6, <1>7, <1>8, <1>9, <1>10, <1>11, <1>12, <1>13, <1>14, <1>15, <1>16, <1>17, <1>18, <1>19, <1>20, <1>21 DEF Next, Claiming, Closing

\* The guard of db/idempotency.py keeps the promise of module KeyGuard for any
\* number of requests and keys: a slot changes hands only through "free", only
\* its active holder seals it, and it is never taken from an active holder.
THEOREM Implements == Spec => ImplementsGuard
<1>1. Init => Guard!GuardInit
  BY DEF Init, Guard!GuardInit, SlotOf, Absent, holders, Holding
<1>2. IInv /\ [Next]_vars => [Guard!GuardNext]_(Guard!guardVars)
  BY StepMaps
<1> QED
  BY <1>1, <1>2, SpecIInv, PTL DEF Spec, ImplementsGuard, Guard!GuardSpec

================================================================================
