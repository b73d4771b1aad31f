----------------------------- MODULE Login_proofs -----------------------------
(***************************************************************************)
(* Proofs about Login: types, the counter of wrong codes and its lock, and *)
(* what only a verification or a request that was overtaken can do.        *)
(***************************************************************************)
EXTENDS Login, TLAPS

-------------------------------------------------------------------------------
(* The inductive invariant.                                                 *)

\* A verification that nobody has outrun holds the count as it is.
CountOK ==
  /\ WrongCodesAreCounted
  /\ \A r \in Counting : r \in outrun \/ jobs[r].seen = attempts.count

\* A code was drawn before anybody has it, and stays with one row.
CodesOK ==
  /\ \A u \in UserIds : code[u] # NoCode => code[u] \in issued \ redeemed
  /\ \A u, v \in UserIds : code[u] = code[v] => u = v \/ code[u] = NoCode

\* What a request knows of a user: rows do not become unused again, and a
\* verification holds a code that was drawn, of one row.
Verifying == {r \in Requests : jobs[r].at \in {"compare", "session"}}
JobsOK ==
  /\ \A r \in Requests : jobs[r].user \in UserIds => role[jobs[r].user] # "unused"
  /\ \A r \in Verifying : jobs[r].user \in UserIds /\ jobs[r].code \in issued
  /\ \A r \in Verifying, u \in UserIds : code[u] = jobs[r].code => u = jobs[r].user
  /\ \A r, q \in Verifying : jobs[r].code = jobs[q].code => jobs[r].user = jobs[q].user

\* A request that nobody has overtaken is right about the row it has read: its
\* code has not been redeemed, nor replaced, and there still is none.
BasisOK ==
  /\ \A r \in Verifying \ overtaken :
       jobs[r].code \notin redeemed /\ code[jobs[r].user] \in {jobs[r].code, NoCode}
  /\ \A r \in Requests \ overtaken :
       jobs[r].at = "store" /\ jobs[r].user = NoUser => Rows = {}

Inv == TypeOK /\ CountOK /\ LockedOutUnlessBegunBefore /\ CodesOK /\ JobsOK /\ BasisOK

-------------------------------------------------------------------------------
(* Lemmas.                                                                  *)

LEMMA DoneJob ==
  /\ Done.at = "idle" /\ Done.user = NoUser /\ Done.code = NoCode
  /\ Done \in [at : {"idle", "hash", "store", "read", "compare", "session"}, user : UserIds \union {NoUser},
               typed : Codes \union {NoCode}, code : Codes \union {NoCode}, seen : 0 .. MaxAttempts]
  BY BoundAssumption DEF Done

LEMMA DeletedCount ==
  /\ Deleted \in [count : 0 .. MaxAttempts, lock : {"none", "locked", "over"}]
  /\ Deleted.lock = "none" /\ Deleted.count = 0 /\ 0 < MaxAttempts
  BY BoundAssumption DEF Deleted

LEMMA CappedCount ==
  ASSUME NEW n \in 0 .. MaxAttempts
  PROVE  Capped(n + 1) \in 0 .. MaxAttempts
  BY BoundAssumption DEF Capped

LEMMA AttemptsCount ==
  ASSUME NEW n \in 0 .. MaxAttempts
  PROVE  LET a == Attempts(n) IN
         /\ a \in [count : 0 .. MaxAttempts, lock : {"none", "locked", "over"}]
         /\ a.lock = "none" <=> a.count < MaxAttempts
         /\ a.count = Capped(n + 1)
  BY BoundAssumption DEF Attempts, Capped

LEMMA InitInv == Init => Inv
<1> SUFFICES ASSUME Init PROVE Inv
  OBVIOUS
<1>1. TypeOK
  <2>1. role \in [UserIds -> {"unused", "OWNER", "STAFF", "deleted"}]
    BY DEF Init
  <2>2. expired \in [UserIds -> BOOLEAN] /\ miscounted \in BOOLEAN
    BY DEF Init
  <2>3. wrong \in 0 .. MaxAttempts /\ sessions \in [UserIds -> 0 .. MaxSessions]
    BY BoundAssumption DEF Init
  <2> QED BY <2>1, <2>2, <2>3, DoneJob, DeletedCount DEF Init, TypeOK
<1>2. Counting = {} /\ Verifying = {}
  BY DEF Init, Counting, Verifying, Done
<1>3. CountOK /\ LockedOutUnlessBegunBefore
  BY <1>2 DEF Init, CountOK, WrongCodesAreCounted, LockedOutUnlessBegunBefore, Deleted
<1>4. CodesOK
  BY DEF Init, CodesOK
<1>5. JobsOK /\ BasisOK
  BY <1>2, NoneAssumption DEF Init, JobsOK, BasisOK, Done
<1> QED BY <1>1, <1>3, <1>4, <1>5 DEF Inv

LEMMA TypeStep == Inv /\ [Next]_vars => TypeOK'
<1> SUFFICES ASSUME Inv, [Next]_vars PROVE TypeOK'
  OBVIOUS
<1>0. TypeOK
  BY DEF Inv
<1> USE DEF TypeOK
<1>1. ASSUME NEW r \in Requests, RequestStep(r) PROVE TypeOK'
  <2>1. CASE BeginRequest(r)
    BY <1>0, <2>1, DoneJob, DeletedCount, BoundAssumption DEF BeginRequest, DeleteAttempts, Counting, rows
  <2>2. CASE LookUp(r)
    <3>1. PICK u \in UserIds \union {NoUser} :
            jobs' = [jobs EXCEPT ![r].at = "store", ![r].user = u]
      BY <1>0, <2>2 DEF LookUp, First, Rows
    <3>2. jobs' = [jobs EXCEPT ![r] = [jobs[r] EXCEPT !.at = "store", !.user = u]]
      BY <1>0, <3>1, <1>0
    <3> QED BY <1>0, <3>2, <2>2 DEF LookUp, rows, counter
  <2>3. ASSUME NEW k \in Codes, UpdateUser(r, k) PROVE TypeOK'
    BY <1>0, <2>3, DoneJob DEF UpdateUser, Finish, counter
  <2>4. ASSUME NEW k \in Codes, NEW u \in UserIds, CreateUser(r, u, k) PROVE TypeOK'
    BY <1>0, <2>4, DoneJob DEF CreateUser, counter
  <2> QED BY <1>1, <2>1, <2>2, <2>3, <2>4 DEF RequestStep
<1>2. ASSUME NEW r \in Requests, VerifyStep(r) PROVE TypeOK'
  <2>1. ASSUME NEW typed \in issued \union {NoCode}, BeginVerify(r, typed) PROVE TypeOK'
    BY <1>0, <2>1, DoneJob DEF BeginVerify, rows, counter
  <2>2. CASE ReadUser(r)
    <3>1. PICK u \in UserIds :
            jobs' = [jobs EXCEPT ![r].at = "compare", ![r].user = u, ![r].code = code[u]]
      BY <1>0, <2>2 DEF ReadUser, First, Rows
    <3>2. jobs' = [jobs EXCEPT ![r] = [jobs[r] EXCEPT !.at = "compare", !.user = u, !.code = code[u]]]
      BY <1>0, <3>1, <1>0
    <3> QED BY <1>0, <3>2, <2>2 DEF ReadUser, rows, counter
  <2>3. CASE Accept(r)
    <3>0. wrong' = 0 /\ miscounted' = FALSE
      BY <1>0, <2>3 DEF Accept, DeleteAttempts
    <3>1. wrong' \in 0 .. MaxAttempts
      BY <3>0, BoundAssumption
    <3>2. outrun' \subseteq Requests
      BY <1>0, <2>3 DEF Accept, DeleteAttempts, Counting
    <3>3. miscounted' \in BOOLEAN
      BY <3>0
    <3> QED BY <1>0, <2>3, <3>1, <3>2, <3>3, DeletedCount DEF Accept, DeleteAttempts, rows
  <2>4. CASE Refuse(r)
    BY <1>0, <2>4, DoneJob, AttemptsCount, CappedCount DEF Refuse, Counting, rows
  <2>5. CASE CreateSession(r)
    <3>1. jobs[r].user \in UserIds
      BY <1>0, <2>5 DEF CreateSession, Inv, JobsOK, Verifying
    <3>2. sessions' \in [UserIds -> 0 .. MaxSessions]
      BY <1>0, <3>1, <2>5, BoundAssumption DEF CreateSession
    <3>3. code' \in [UserIds -> Codes \union {NoCode}] /\ expired' \in [UserIds -> BOOLEAN]
      BY <1>0, <2>5 DEF CreateSession
    <3>4. redeemed' \subseteq issued
      BY <1>0, <2>5 DEF CreateSession, Inv, JobsOK, Verifying
    <3> QED BY <1>0, <3>2, <3>3, <3>4, <2>5, DoneJob DEF CreateSession, Finish, counter
  <2> QED BY <1>2, <2>1, <2>2, <2>3, <2>4, <2>5 DEF VerifyStep
<1>3. ASSUME NEW r \in Requests, Reject(r) PROVE TypeOK'
  BY <1>0, <1>3, DoneJob DEF Reject, rows
<1>4. ASSUME NEW u \in UserIds, Logout(u) \/ CreateStaff(u) \/ DeleteStaff(u) \/ CodeExpires(u)
      PROVE  TypeOK'
  <2>1. CASE Logout(u)
    <3>1. sessions' \in [UserIds -> 0 .. MaxSessions]
      BY <1>0, <2>1, BoundAssumption DEF Logout
    <3> QED BY <1>0, <2>1, <3>1 DEF Logout, counter
  <2>2. CASE CreateStaff(u)
    BY <1>0, <2>2 DEF CreateStaff, counter
  <2>3. CASE DeleteStaff(u)
    BY <1>0, <2>3, BoundAssumption DEF DeleteStaff, counter
  <2>4. CASE CodeExpires(u)
    BY <1>0, <2>4 DEF CodeExpires, counter
  <2> QED BY <1>4, <2>1, <2>2, <2>3, <2>4
<1>5. CASE CleanupMemoryMaps \/ ClearAttempts \/ ClearCooldowns
  BY <1>0, <1>5, DeletedCount DEF CleanupMemoryMaps, ClearAttempts, ClearCooldowns, DeleteAttempts, Counting, rows, counter
<1>6. CASE LockEnds \/ CooldownEnds \/ Restart
  <2>1. CASE LockEnds
    BY <1>0, <2>1 DEF LockEnds, rows
  <2>2. CASE CooldownEnds
    BY <1>0, <2>2 DEF CooldownEnds, rows, counter
  <2>3. CASE Restart
    BY <1>0, <2>3, DeletedCount, DoneJob, BoundAssumption DEF Restart, rows
  <2> QED BY <1>6, <2>1, <2>2, <2>3
<1>7. CASE UNCHANGED vars
  BY <1>0, <1>7 DEF vars, rows, counter
<1> QED BY <1>1, <1>2, <1>3, <1>4, <1>5, <1>6, <1>7 DEF Next

\* Only the steps below touch the counter, or let a request hold a count.
LEMMA CountStep == Inv /\ [Next]_vars => CountOK' /\ LockedOutUnlessBegunBefore'
<1> SUFFICES ASSUME Inv, [Next]_vars PROVE CountOK' /\ LockedOutUnlessBegunBefore'
  OBVIOUS
<1> USE DEF Inv, CountOK, WrongCodesAreCounted, LockedOutUnlessBegunBefore, Counting
<1>0. jobs \in [Requests -> [at : {"idle", "hash", "store", "read", "compare", "session"},
                             user : UserIds \union {NoUser}, typed : Codes \union {NoCode},
                             code : Codes \union {NoCode}, seen : 0 .. MaxAttempts]]
  BY DEF TypeOK
<1>1. ASSUME NEW r \in Requests, BeginVerify(r, NoCode) \/ \E k \in issued : BeginVerify(r, k)
      PROVE  CountOK' /\ LockedOutUnlessBegunBefore'
  <2>1. /\ attempts.lock # "locked" /\ UNCHANGED counter
        /\ jobs'[r].seen = attempts.count
        /\ \A q \in Requests \ {r} : jobs'[q] = jobs[q]
    BY <1>0, <1>1 DEF BeginVerify, Done
  <2> QED BY <2>1 DEF counter
<1>2. ASSUME NEW r \in Requests, Refuse(r) PROVE CountOK' /\ LockedOutUnlessBegunBefore'
  <2>1. CASE r \in outrun
    BY <1>0, <1>2, <2>1, DoneJob DEF Refuse
  <2>2. CASE r \notin outrun
    <3>1. jobs[r].seen = attempts.count /\ jobs[r].seen \in 0 .. MaxAttempts
      BY <1>0, <1>2, <2>2 DEF Refuse
    <3>2. attempts'.count = Capped(attempts.count + 1) /\ wrong' = Capped(wrong + 1)
      BY <1>2, <3>1, AttemptsCount DEF Refuse
    <3> QED BY <1>0, <1>2, <3>1, <3>2, DoneJob DEF Refuse
  <2> QED BY <2>1, <2>2
<1>3. ASSUME NEW r \in Requests, DeleteAttempts({r}), jobs' = [jobs EXCEPT ![r].at = "session"]
      PROVE  CountOK' /\ LockedOutUnlessBegunBefore'
  BY <1>0, <1>3, DeletedCount DEF DeleteAttempts
<1>4. ASSUME DeleteAttempts({}), \A r \in Requests : jobs'[r] = jobs[r] \/ jobs'[r].at = "hash"
      PROVE  CountOK' /\ LockedOutUnlessBegunBefore'
  BY <1>0, <1>4, DeletedCount DEF DeleteAttempts
<1>5. ASSUME attempts' \in {attempts, [attempts EXCEPT !.lock = "over"]}, wrong' = wrong,
             miscounted' = miscounted, outrun' = outrun,
             \A r \in Requests : \/ jobs'[r].at \notin {"read", "compare"}
                                 \/ jobs[r].at \in {"read", "compare"} /\ jobs'[r].seen = jobs[r].seen
      PROVE  CountOK' /\ LockedOutUnlessBegunBefore'
  BY <1>0, <1>5 DEF TypeOK
<1>6. ASSUME NEW r \in Requests, Reject(r) PROVE CountOK' /\ LockedOutUnlessBegunBefore'
  BY <1>0, <1>6, DoneJob DEF Reject
<1>7. CASE Restart
  BY <1>7, DoneJob, DeletedCount DEF Restart
<1>8. ASSUME NEW r \in Requests, RequestStep(r) PROVE CountOK' /\ LockedOutUnlessBegunBefore'
  <2>1. CASE BeginRequest(r)
    BY <1>0, <1>4, <2>1 DEF BeginRequest
  <2>2. CASE ~BeginRequest(r)
    BY <1>0, <1>5, <1>8, <2>2, DoneJob DEF RequestStep, LookUp, UpdateUser, CreateUser, Finish, counter
  <2> QED BY <2>1, <2>2
<1>9. ASSUME NEW r \in Requests, ReadUser(r) \/ CreateSession(r)
      PROVE  CountOK' /\ LockedOutUnlessBegunBefore'
  <2>1. CASE ReadUser(r)
    <3>1. PICK u \in First :
            jobs' = [jobs EXCEPT ![r].at = "compare", ![r].user = u, ![r].code = code[u]]
      BY <2>1 DEF ReadUser
    <3>2. jobs'[r].seen = jobs[r].seen /\ \A q \in Requests \ {r} : jobs'[q] = jobs[q]
      BY <1>0, <3>1
    <3> QED BY <1>5, <2>1, <3>2 DEF ReadUser, counter
  <2>2. CASE CreateSession(r)
    BY <1>0, <1>5, <2>2, DoneJob DEF CreateSession, Finish, counter
  <2> QED BY <1>9, <2>1, <2>2
<1>10. CASE CleanupMemoryMaps \/ ClearAttempts \/ ClearCooldowns
  BY <1>4, <1>5, <1>10 DEF CleanupMemoryMaps, ClearAttempts, ClearCooldowns, counter
<1>11. ASSUME NEW u \in UserIds, Logout(u) \/ CreateStaff(u) \/ DeleteStaff(u) \/ CodeExpires(u)
       PROVE  CountOK' /\ LockedOutUnlessBegunBefore'
  BY <1>5, <1>11 DEF Logout, CreateStaff, DeleteStaff, CodeExpires, counter
<1>12. CASE LockEnds \/ CooldownEnds \/ UNCHANGED vars
  BY <1>5, <1>12 DEF LockEnds, CooldownEnds, vars, counter
<1> QED BY <1>1, <1>2, <1>3, <1>6, <1>7, <1>8, <1>9, <1>10, <1>11, <1>12 DEF Next, VerifyStep, Accept

LEMMA CodesStep == Inv /\ [Next]_vars => CodesOK'
<1> SUFFICES ASSUME Inv, [Next]_vars PROVE CodesOK'
  OBVIOUS
<1>0. /\ code \in [UserIds -> Codes \union {NoCode}] /\ redeemed \subseteq issued
      /\ issued \subseteq Codes /\ CodesOK
  BY DEF Inv, TypeOK
<1>1. ASSUME NEW u \in UserIds, NEW k \in Codes \ issued, code' = [code EXCEPT ![u] = k],
             issued' = issued \union {k}, redeemed' = redeemed
      PROVE  CodesOK'
  BY <1>0, <1>1 DEF CodesOK
<1>2. ASSUME NEW u \in UserIds, code' = [code EXCEPT ![u] = NoCode], UNCHANGED <<issued, redeemed>>
      PROVE  CodesOK'
  BY <1>0, <1>2 DEF CodesOK
<1>3. ASSUME NEW r \in Requests, CreateSession(r) PROVE CodesOK'
  <2>1. /\ jobs[r].user \in UserIds /\ jobs[r].code \in issued
        /\ \A u \in UserIds : code[u] = jobs[r].code => u = jobs[r].user
    BY <1>3 DEF CreateSession, Inv, JobsOK, Verifying
  <2> QED BY <1>0, <1>3, <2>1 DEF CreateSession, CodesOK
<1>4. CASE UNCHANGED <<code, issued, redeemed>>
  BY <1>4 DEF Inv, CodesOK
<1>5. ASSUME NEW r \in Requests, RequestStep(r) PROVE CodesOK'
  <2>1. ASSUME NEW k \in Codes, UpdateUser(r, k) PROVE CodesOK'
    <3>1. jobs[r].user \in UserIds
      BY <2>1 DEF UpdateUser, Inv, TypeOK
    <3> QED BY <1>1, <2>1, <3>1 DEF UpdateUser
  <2>2. ASSUME NEW k \in Codes, NEW u \in UserIds, CreateUser(r, u, k) PROVE CodesOK'
    BY <1>1, <2>2 DEF CreateUser
  <2> QED BY <1>4, <1>5, <2>1, <2>2 DEF RequestStep, BeginRequest, LookUp, rows
<1>6. ASSUME NEW u \in UserIds, Logout(u) \/ CreateStaff(u) \/ DeleteStaff(u) \/ CodeExpires(u)
      PROVE  CodesOK'
  BY <1>2, <1>4, <1>6 DEF Logout, CreateStaff, DeleteStaff, CodeExpires
<1> QED BY <1>3, <1>4, <1>5, <1>6
        DEF Next, VerifyStep, BeginVerify, ReadUser, Accept, Refuse, Reject, CleanupMemoryMaps,
            ClearAttempts, ClearCooldowns, LockEnds, CooldownEnds, Restart, vars, rows

\* What a step of request r may do to the other requests: nothing.
LEMMA OthersWait ==
  ASSUME Inv, NEW r \in Requests, RequestStep(r) \/ VerifyStep(r) \/ Reject(r)
  PROVE  \A q \in Requests \ {r} : jobs'[q] = jobs[q]
<1>1. jobs = [q \in Requests |-> jobs[q]]
  BY DEF Inv, TypeOK
<1> QED BY <1>1 DEF RequestStep, VerifyStep, BeginRequest, LookUp, UpdateUser, CreateUser, BeginVerify,
                    ReadUser, Accept, Refuse, CreateSession, Finish, Reject

\* Who verifies had read the row, or reads it in this step.
LEMMA VerifyingStep ==
  ASSUME Inv, NEW r \in Requests, RequestStep(r) \/ VerifyStep(r) \/ Reject(r), r \in Verifying'
  PROVE  \/ r \in Verifying /\ jobs'[r].user = jobs[r].user /\ jobs'[r].code = jobs[r].code
         \/ /\ jobs'[r].user \in UserIds /\ There(jobs'[r].user)
            /\ jobs'[r].code = code[jobs'[r].user] /\ jobs'[r].code # NoCode
            /\ UNCHANGED <<rows, overtaken>>
<1>1. jobs = [q \in Requests |-> jobs[q]] /\ DOMAIN jobs[r] = {"at", "user", "typed", "code", "seen"}
  BY DEF Inv, TypeOK
<1>2. CASE ReadUser(r)
  <2>1. PICK u \in First : /\ code[u] # NoCode
                           /\ jobs' = [jobs EXCEPT ![r].at = "compare", ![r].user = u, ![r].code = code[u]]
    BY <1>2 DEF ReadUser
  <2>2. u \in UserIds /\ There(u)
    BY DEF First, Rows
  <2>3. jobs'[r].user = u /\ jobs'[r].code = code[u]
    BY <1>1, <2>1
  <2> QED BY <1>2, <2>1, <2>2, <2>3 DEF ReadUser
<1>3. CASE Accept(r)
  BY <1>1, <1>3 DEF Accept, Verifying
<1>4. ASSUME jobs'[r].at \in {"idle", "hash", "store", "read"} PROVE FALSE
  BY <1>4 DEF Verifying
<1>5. CASE RequestStep(r)
  <2>1. CASE LookUp(r)
    <3>1. jobs'[r].at = "store"
      BY <1>1, <2>1 DEF LookUp
    <3> QED BY <1>4, <3>1
  <2>2. CASE ~LookUp(r)
    <3>1. jobs'[r].at \in {"idle", "hash"}
      BY <1>1, <1>5, <2>2, DoneJob DEF RequestStep, BeginRequest, UpdateUser, CreateUser, Finish, Done
    <3> QED BY <1>4, <3>1
  <2> QED BY <2>1, <2>2
<1>6. CASE Reject(r) \/ Refuse(r) \/ CreateSession(r)
  <2>1. jobs'[r].at = "idle"
    BY <1>1, <1>6, DoneJob DEF Reject, Refuse, CreateSession, Finish
  <2> QED BY <1>4, <2>1
<1>7. ASSUME NEW typed, BeginVerify(r, typed) PROVE FALSE
  <2>1. jobs'[r].at = "read"
    BY <1>1, <1>7 DEF BeginVerify, Done
  <2> QED BY <1>4, <2>1
<1> QED BY <1>2, <1>3, <1>5, <1>6, <1>7 DEF VerifyStep

\* A request learns of a user by looking for his row.
LEMMA UserStep ==
  ASSUME Inv, NEW r \in Requests, RequestStep(r) \/ VerifyStep(r) \/ Reject(r)
  PROVE  jobs'[r].user \in {NoUser, jobs[r].user} \/ (There(jobs'[r].user) /\ role' = role)
<1>1. jobs = [q \in Requests |-> jobs[q]] /\ DOMAIN jobs[r] = {"at", "user", "typed", "code", "seen"}
  BY DEF Inv, TypeOK
<1>2. CASE LookUp(r)
  <2>1. PICK u \in First \union {NoUser} : jobs' = [jobs EXCEPT ![r].at = "store", ![r].user = u]
    BY <1>2 DEF LookUp
  <2>2. u = NoUser \/ There(u)
    BY DEF First, Rows
  <2>3. jobs'[r].user = u
    BY <1>1, <2>1
  <2> QED BY <1>2, <2>2, <2>3 DEF LookUp, rows
<1>3. CASE ReadUser(r)
  <2>1. PICK u \in First :
          jobs' = [jobs EXCEPT ![r].at = "compare", ![r].user = u, ![r].code = code[u]]
    BY <1>3 DEF ReadUser
  <2>2. There(u)
    BY DEF First, Rows
  <2>3. jobs'[r].user = u
    BY <1>1, <2>1
  <2> QED BY <1>3, <2>2, <2>3 DEF ReadUser, rows
<1>4. ASSUME Accept(r) PROVE jobs'[r].user = jobs[r].user
  BY <1>1, <1>4 DEF Accept
<1>5. ASSUME NEW typed, BeginRequest(r) \/ BeginVerify(r, typed) PROVE jobs'[r].user = NoUser
  BY <1>1, <1>5 DEF BeginRequest, BeginVerify, Done
<1>6. ASSUME Reject(r) \/ Refuse(r) \/ CreateSession(r) PROVE jobs'[r].user = NoUser
  BY <1>1, <1>6, DoneJob DEF Reject, Refuse, CreateSession, Finish
<1>7. ASSUME NEW k, UpdateUser(r, k) \/ \E u \in UserIds : CreateUser(r, u, k)
      PROVE  jobs'[r].user = NoUser
  BY <1>1, <1>7, DoneJob DEF UpdateUser, CreateUser, Finish
<1>8. CASE RequestStep(r)
  BY <1>2, <1>5, <1>7, <1>8 DEF RequestStep
<1>9. CASE VerifyStep(r)
  BY <1>3, <1>4, <1>5, <1>6, <1>9 DEF VerifyStep
<1> QED BY <1>6, <1>8, <1>9

LEMMA JobsStep == Inv /\ [Next]_vars => JobsOK'
<1> SUFFICES ASSUME Inv, [Next]_vars PROVE JobsOK'
  OBVIOUS
<1>0. /\ role \in [UserIds -> {"unused", "OWNER", "STAFF", "deleted"}]
      /\ code \in [UserIds -> Codes \union {NoCode}] /\ issued \subseteq Codes
      /\ NoUser \notin UserIds /\ NoCode \notin Codes /\ JobsOK /\ CodesOK
  BY NoneAssumption DEF Inv, TypeOK
<1>1. \A u \in UserIds : role[u] # "unused" => role'[u] # "unused"
  <2>1. ASSUME NEW u \in UserIds, NEW new \in {"OWNER", "STAFF", "deleted"},
               role' = [role EXCEPT ![u] = new]
        PROVE  \A v \in UserIds : role[v] # "unused" => role'[v] # "unused"
    BY <1>0, <2>1
  <2>2. CASE role' = role
    BY <2>2
  <2> QED BY <2>1, <2>2
          DEF Next, RequestStep, VerifyStep, BeginRequest, LookUp, UpdateUser, CreateUser, BeginVerify,
              ReadUser, Accept, Refuse, CreateSession, Reject, Logout, CreateStaff, DeleteStaff,
              CodeExpires, CleanupMemoryMaps, ClearAttempts, ClearCooldowns, LockEnds, CooldownEnds,
              Restart, vars, rows
\* A code that somebody gets in this step is new.
<1>2. \A u \in UserIds : code'[u] # code[u] => code'[u] = NoCode \/ code'[u] \notin issued
  <2>1. ASSUME NEW u \in UserIds, NEW k, k \notin issued, code' = [code EXCEPT ![u] = k]
        PROVE  \A v \in UserIds : code'[v] # code[v] => code'[v] = NoCode \/ code'[v] \notin issued
    BY <1>0, <2>1
  <2>2. ASSUME NEW u, code' \in {code, [code EXCEPT ![u] = NoCode]}
        PROVE  \A v \in UserIds : code'[v] # code[v] => code'[v] = NoCode \/ code'[v] \notin issued
    BY <1>0, <2>2
  <2>3. ASSUME NEW r \in Requests, NEW k \in Codes, UpdateUser(r, k) PROVE jobs[r].user \in UserIds
    BY <2>3 DEF UpdateUser, Inv, TypeOK
  <2>4. ASSUME NEW r \in Requests, RequestStep(r) \/ VerifyStep(r) \/ Reject(r)
        PROVE  \A v \in UserIds : code'[v] # code[v] => code'[v] = NoCode \/ code'[v] \notin issued
    <3>1. ASSUME NEW k \in Codes, UpdateUser(r, k) \/ \E u \in UserIds : CreateUser(r, u, k)
          PROVE  \E u \in UserIds : k \notin issued /\ code' = [code EXCEPT ![u] = k]
      BY <2>3, <3>1 DEF UpdateUser, CreateUser
    <3>2. CASE RequestStep(r)
      BY <2>1, <2>2, <3>1, <3>2 DEF RequestStep, BeginRequest, LookUp, rows
    <3>3. CASE VerifyStep(r) \/ Reject(r)
      <4>1. ASSUME CreateSession(r) PROVE code' = [code EXCEPT ![jobs[r].user] = NoCode]
        BY <4>1 DEF CreateSession
      <4>2. ASSUME ~CreateSession(r) PROVE code' = code
        BY <3>3, <4>2 DEF VerifyStep, BeginVerify, ReadUser, Accept, Refuse, Reject, rows
      <4> QED BY <2>2, <4>1, <4>2
    <3> QED BY <2>4, <3>2, <3>3
  <2>5. ASSUME NEW u \in UserIds, Logout(u) \/ CreateStaff(u) \/ DeleteStaff(u) \/ CodeExpires(u)
        PROVE  \A v \in UserIds : code'[v] # code[v] => code'[v] = NoCode \/ code'[v] \notin issued
    BY <2>2, <2>5 DEF Logout, CreateStaff, DeleteStaff, CodeExpires
  <2> QED BY <2>2, <2>4, <2>5
          DEF Next, CleanupMemoryMaps, ClearAttempts, ClearCooldowns, LockEnds, CooldownEnds, Restart,
              vars, rows
<1>3. issued \subseteq issued'
  BY DEF Next, RequestStep, VerifyStep, BeginRequest, LookUp, UpdateUser, CreateUser, BeginVerify,
         ReadUser, Accept, Refuse, CreateSession, Reject, Logout, CreateStaff, DeleteStaff,
         CodeExpires, CleanupMemoryMaps, ClearAttempts, ClearCooldowns, LockEnds, CooldownEnds,
         Restart, vars, rows
<1>4. ASSUME UNCHANGED jobs PROVE JobsOK'
  BY <1>0, <1>1, <1>2, <1>3, <1>4 DEF JobsOK, Verifying
<1>5. ASSUME NEW r \in Requests, RequestStep(r) \/ VerifyStep(r) \/ Reject(r) PROVE JobsOK'
  <2>1. \A q \in Requests \ {r} : jobs'[q] = jobs[q]
    BY <1>5, OthersWait
  <2>2. jobs'[r].user \in {NoUser, jobs[r].user} \/ (There(jobs'[r].user) /\ role' = role)
    BY <1>5, UserStep
  <2>3. \A q \in Requests : jobs'[q].user \in UserIds => role'[jobs'[q].user] # "unused"
    BY <1>0, <1>1, <2>1, <2>2 DEF JobsOK, There
  <2> DEFINE Old(q) == q \in Verifying /\ jobs'[q].user = jobs[q].user /\ jobs'[q].code = jobs[q].code
             Fresh(q) == /\ jobs'[q].user \in UserIds /\ jobs'[q].code = code[jobs'[q].user]
                         /\ jobs'[q].code # NoCode
  <2>4. ASSUME NEW q \in Verifying' PROVE q \in Requests /\ (Old(q) \/ Fresh(q))
    <3>1. q \in Requests
      BY <2>4 DEF Verifying
    <3>2. CASE q = r
      BY <1>5, <2>4, <3>2, VerifyingStep
    <3>3. CASE q # r
      BY <2>1, <2>4, <3>1, <3>3 DEF Verifying
    <3> QED BY <3>1, <3>2, <3>3
  <2>5. \A q \in Verifying' : jobs'[q].user \in UserIds /\ jobs'[q].code \in issued
    BY <1>0, <2>4 DEF JobsOK, CodesOK
  <2>6. ASSUME NEW q \in Verifying', NEW u \in UserIds, code[u] = jobs'[q].code
        PROVE  u = jobs'[q].user
    BY <1>0, <2>4, <2>6 DEF JobsOK, CodesOK
  <2>7. ASSUME NEW q \in Verifying', NEW u \in UserIds, code'[u] = jobs'[q].code
        PROVE  u = jobs'[q].user
    BY <1>0, <1>2, <2>5, <2>6, <2>7
  <2>8. ASSUME NEW q \in Verifying', NEW p \in Verifying', jobs'[q].code = jobs'[p].code
        PROVE  jobs'[q].user = jobs'[p].user
    <3>1. CASE Fresh(q) \/ Fresh(p)
      BY <2>5, <2>6, <2>8, <3>1
    <3>2. CASE Old(q) /\ Old(p)
      BY <1>0, <2>8, <3>2 DEF JobsOK
    <3> QED BY <2>4, <3>1, <3>2
  <2> HIDE DEF Old, Fresh
  <2> QED BY <1>3, <2>3, <2>5, <2>7, <2>8 DEF JobsOK
<1>6. CASE Restart
  BY <1>0, <1>6, DoneJob DEF Restart, JobsOK, Verifying
<1> QED BY <1>4, <1>5, <1>6
        DEF Next, Logout, CreateStaff, DeleteStaff, CodeExpires, CleanupMemoryMaps, ClearAttempts,
            ClearCooldowns, LockEnds, CooldownEnds, vars

LEMMA BasisStep == Inv /\ [Next]_vars => BasisOK'
<1> SUFFICES ASSUME Inv, [Next]_vars PROVE BasisOK'
  OBVIOUS
<1>0. /\ jobs = [r \in Requests |-> jobs[r]] /\ code = [u \in UserIds |-> code[u]]
      /\ role = [u \in UserIds |-> role[u]]
      /\ redeemed \subseteq issued /\ JobsOK /\ CodesOK /\ BasisOK
      /\ NoUser \notin UserIds /\ NoCode \notin Codes /\ issued \subseteq Codes
  BY NoneAssumption DEF Inv, TypeOK
\* A step of the requests in which nobody's row changes.
<1>1. ASSUME UNCHANGED <<role, code, redeemed>>,
             \A q \in Requests : \/ q \in overtaken' \/ jobs'[q].at \in {"idle", "hash", "read"}
                                 \/ q \notin overtaken /\ jobs'[q] = jobs[q]
                                 \/ /\ q \notin overtaken /\ jobs[q].at = "compare"
                                    /\ jobs'[q].at = "session" /\ jobs'[q].user = jobs[q].user
                                    /\ jobs'[q].code = jobs[q].code
      PROVE  BasisOK'
  BY <1>0, <1>1 DEF BasisOK, Verifying, Rows, There
<1>2. ASSUME NEW r \in Requests, LookUp(r) PROVE BasisOK'
  <2>1. PICK u \in IF First = {} THEN {NoUser} ELSE First :
          jobs' = [jobs EXCEPT ![r].at = "store", ![r].user = u]
    BY <1>2 DEF LookUp
  <2>2. u = NoUser => Rows = {}
    BY <1>0, <2>1 DEF First, Rows
  <2>3. /\ jobs'[r].at = "store" /\ jobs'[r].user = u
        /\ \A q \in Requests \ {r} : jobs'[q] = jobs[q]
    <3>1. DOMAIN jobs[r] = {"at", "user", "typed", "code", "seen"}
      BY DEF Inv, TypeOK
    <3> QED BY <1>0, <2>1, <3>1
  <2> QED BY <1>0, <1>2, <2>2, <2>3 DEF LookUp, rows, BasisOK, Verifying, Rows, There
<1>3. ASSUME NEW r \in Requests, ReadUser(r) PROVE BasisOK'
  <2>1. PICK u \in First : /\ code[u] # NoCode
                           /\ jobs' = [jobs EXCEPT ![r].at = "compare", ![r].user = u, ![r].code = code[u]]
    BY <1>3 DEF ReadUser
  <2>2. /\ jobs'[r].at = "compare" /\ jobs'[r].user = u /\ jobs'[r].code = code[u]
        /\ \A q \in Requests \ {r} : jobs'[q] = jobs[q]
    <3>1. DOMAIN jobs[r] = {"at", "user", "typed", "code", "seen"}
      BY DEF Inv, TypeOK
    <3> QED BY <1>0, <2>1, <3>1
  <2>3. code[u] \notin redeemed
    BY <1>0, <2>1 DEF CodesOK, First, Rows
  <2> QED BY <1>0, <1>3, <2>2, <2>3 DEF ReadUser, rows, BasisOK, Verifying, Rows, There
<1>4. ASSUME NEW r \in Requests, NEW k \in Codes, UpdateUser(r, k) PROVE BasisOK'
  <2>1. /\ \A q \in Requests \ {r} : jobs'[q] = jobs[q]
        /\ jobs'[r].at = "idle" /\ role' = role /\ redeemed' = redeemed
        /\ \A q \in Requests \ ({r} \union overtaken') : q \notin overtaken /\ jobs[q].user # jobs[r].user
        /\ \A u \in UserIds \ {jobs[r].user} : code'[u] = code[u]
    BY <1>0, <1>4, DoneJob DEF UpdateUser, Finish
  <2> QED BY <1>0, <2>1 DEF BasisOK, JobsOK, Verifying, Rows, There
<1>5. ASSUME NEW r \in Requests, NEW k \in Codes, NEW u \in UserIds, CreateUser(r, u, k)
      PROVE  BasisOK'
  <2>1. /\ \A q \in Requests \ {r} : jobs'[q] = jobs[q]
        /\ jobs'[r].at = "idle" /\ role[u] = "unused" /\ redeemed' = redeemed
        /\ \A q \in Requests \ ({r} \union overtaken') :
             q \notin overtaken /\ ~(jobs[q].at = "store" /\ jobs[q].user = NoUser)
        /\ \A v \in UserIds \ {u} : code'[v] = code[v]
    BY <1>0, <1>5, DoneJob DEF CreateUser
  <2> QED BY <1>0, <2>1 DEF BasisOK, JobsOK, Verifying
<1>6. ASSUME NEW r \in Requests, CreateSession(r) PROVE BasisOK'
  <2>1. /\ \A q \in Requests \ {r} : jobs'[q] = jobs[q]
        /\ jobs'[r].at = "idle" /\ role' = role /\ redeemed' = redeemed \union {jobs[r].code}
        /\ \A q \in Requests \ ({r} \union overtaken') : q \notin overtaken /\ jobs[q].user # jobs[r].user
        /\ \A u \in UserIds \ {jobs[r].user} : code'[u] = code[u]
    BY <1>0, <1>6, DoneJob DEF CreateSession, Finish
  <2>2. \A q \in Verifying \ {r} : jobs[q].code = jobs[r].code => jobs[q].user = jobs[r].user
    BY <1>0, <1>6 DEF CreateSession, JobsOK, Verifying
  <2> QED BY <1>0, <2>1, <2>2 DEF BasisOK, JobsOK, Verifying, Rows, There
<1>7. ASSUME NEW u \in UserIds, CreateStaff(u) PROVE BasisOK'
  <2>1. /\ UNCHANGED <<code, jobs, redeemed>>
        /\ \A q \in Requests \ overtaken' :
             q \notin overtaken /\ ~(jobs[q].at = "store" /\ jobs[q].user = NoUser)
    BY <1>7 DEF CreateStaff
  <2> QED BY <1>0, <2>1 DEF BasisOK, Verifying
<1>8. ASSUME NEW u \in UserIds, DeleteStaff(u) PROVE BasisOK'
  <2>1. /\ UNCHANGED <<jobs, redeemed, overtaken>>
        /\ \A v \in UserIds : code'[v] \in {code[v], NoCode}
        /\ Rows' \subseteq Rows
    BY <1>0, <1>8 DEF DeleteStaff, Rows, There
  <2> QED BY <1>0, <2>1 DEF BasisOK, JobsOK, Verifying
<1>9. ASSUME NEW r \in Requests, RequestStep(r) \/ VerifyStep(r) \/ Reject(r) PROVE BasisOK'
  <2>1. ASSUME BeginRequest(r) \/ \E typed \in issued \union {NoCode} : BeginVerify(r, typed) PROVE BasisOK'
    BY <1>0, <1>1, <2>1 DEF BeginRequest, BeginVerify, Done, rows
  <2>2. CASE Accept(r)
    <3>1. DOMAIN jobs[r] = {"at", "user", "typed", "code", "seen"}
      BY DEF Inv, TypeOK
    <3> QED BY <1>0, <1>1, <2>2, <3>1 DEF Accept, rows
  <2>3. CASE Refuse(r) \/ Reject(r)
    BY <1>0, <1>1, <2>3, DoneJob DEF Refuse, Reject, rows
  <2>4. CASE RequestStep(r)
    BY <1>2, <1>4, <1>5, <2>1, <2>4 DEF RequestStep
  <2>5. CASE VerifyStep(r)
    BY <1>3, <1>6, <2>1, <2>2, <2>3, <2>5 DEF VerifyStep
  <2> QED BY <1>9, <2>3, <2>4, <2>5
<1>10. ASSUME NEW u \in UserIds, Logout(u) \/ CodeExpires(u) PROVE BasisOK'
  BY <1>1, <1>10 DEF Logout, CodeExpires
<1>11. CASE CleanupMemoryMaps \/ ClearAttempts \/ ClearCooldowns
  BY <1>1, <1>11 DEF CleanupMemoryMaps, ClearAttempts, ClearCooldowns, rows
<1>12. CASE LockEnds \/ CooldownEnds \/ UNCHANGED vars
  BY <1>1, <1>12 DEF LockEnds, CooldownEnds, vars, rows
<1>13. CASE Restart
  BY <1>1, <1>13, DoneJob DEF Restart, rows
<1> QED BY <1>7, <1>8, <1>9, <1>10, <1>11, <1>12, <1>13 DEF Next

-------------------------------------------------------------------------------
(* The theorems.                                                            *)

LEMMA Invariance == Spec => []Inv
<1>1. Inv /\ [Next]_vars => Inv'
  BY TypeStep, CountStep, CodesStep, JobsStep, BasisStep DEF Inv
<1> QED BY InitInv, <1>1, PTL DEF Spec

\* Rows, counters and requests keep their types (schema.prisma, users.service.ts).
THEOREM TypeCorrect == Spec => []TypeOK
<1>1. Inv => TypeOK
  BY DEF Inv
<1> QED BY Invariance, <1>1, PTL

\* The counter of verifyLoginCode is the number of wrong codes, unless it was
\* written by a verification that another one had outrun.
THEOREM AttemptsCounted == Spec => []WrongCodesAreCounted
<1>1. Inv => WrongCodesAreCounted
  BY DEF Inv, CountOK
<1> QED BY Invariance, <1>1, PTL

\* While the lock is on only verifications that had begun before it go on.
THEOREM LockHolds == Spec => []LockedOutUnlessBegunBefore
<1>1. Inv => LockedOutUnlessBegunBefore
  BY DEF Inv
<1> QED BY Invariance, <1>1, PTL

\* A code that gave a session gives another only to a verification that had
\* compared it before (the code is cleared with the session's creation).
THEOREM CodeUsedOnce == Spec => CodeGivesOneSessionUnlessOvertaken
<1> DEFINE Step == \A r \in Requests :
       (jobs[r].at = "session" /\ jobs'[r] = Done /\ sessions' # sessions
        /\ jobs[r].code \in redeemed) => r \in overtaken
<1>1. Inv /\ [Next]_vars => [Step]_vars
  <2> SUFFICES ASSUME Inv, Next, NEW r \in Requests, jobs[r].at = "session", jobs'[r] = Done,
                      sessions' # sessions, jobs[r].code \in redeemed
               PROVE  r \in overtaken
    OBVIOUS
  <2> QED BY DEF Inv, BasisOK, Verifying
<1> QED BY Invariance, <1>1, PTL DEF Spec, CodeGivesOneSessionUnlessOvertaken

\* Only CreateSession takes a code from a row that stays.
LEMMA OnlySessionsTakeCodes ==
  ASSUME Inv, Next, NEW u \in UserIds, code[u] # NoCode, code'[u] = NoCode, role'[u] # "deleted"
  PROVE  \E r \in Requests : CreateSession(r) /\ jobs[r].user = u
<1>0. /\ code = [v \in UserIds |-> code[v]] /\ role = [v \in UserIds |-> role[v]]
      /\ NoCode \notin Codes
  BY NoneAssumption DEF Inv, TypeOK
<1>1. code' # code
  OBVIOUS
<1>2. ASSUME NEW r \in Requests, RequestStep(r) PROVE FALSE
  BY <1>0, <1>1, <1>2 DEF RequestStep, BeginRequest, LookUp, UpdateUser, CreateUser, rows
<1>3. ASSUME NEW v \in UserIds, Logout(v) \/ CreateStaff(v) \/ DeleteStaff(v) \/ CodeExpires(v)
      PROVE  FALSE
  BY <1>0, <1>1, <1>3 DEF Logout, CreateStaff, DeleteStaff, CodeExpires
<1>4. PICK r \in Requests : CreateSession(r)
  BY <1>1, <1>2, <1>3
     DEF Next, VerifyStep, BeginVerify, ReadUser, Accept, Refuse, Reject, CleanupMemoryMaps,
         ClearAttempts, ClearCooldowns, LockEnds, CooldownEnds, Restart, rows
<1>5. jobs[r].user = u
  BY <1>0, <1>4 DEF CreateSession
<1> QED BY <1>4, <1>5

\* A code is taken from a row by the session it gave, or by that of a verification
\* that had read another code before (prisma.user.update with loginCodeHash null).
THEOREM CodeKept == Spec => CodeKeptUnlessOvertaken
<1> DEFINE Step == \A u \in Rows :
       (code[u] # NoCode /\ code'[u] = NoCode /\ role'[u] # "deleted") =>
         \E r \in Requests : /\ jobs[r].at = "session" /\ jobs'[r] = Done
                             /\ jobs[r].user = u
                             /\ jobs[r].code = code[u] \/ r \in overtaken
<1>1. Inv /\ [Next]_vars => [Step]_vars
  <2> SUFFICES ASSUME Inv, Next, NEW u \in Rows, code[u] # NoCode, code'[u] = NoCode,
                      role'[u] # "deleted"
               PROVE  \E r \in Requests : /\ jobs[r].at = "session" /\ jobs'[r] = Done
                                          /\ jobs[r].user = u
                                          /\ jobs[r].code = code[u] \/ r \in overtaken
    OBVIOUS
  <2>1. PICK r \in Requests : CreateSession(r) /\ jobs[r].user = u
    BY OnlySessionsTakeCodes DEF Rows
  <2>2. jobs[r].at = "session" /\ jobs'[r] = Done
    BY <2>1 DEF CreateSession, Finish, Inv, TypeOK
  <2>3. jobs[r].code = code[u] \/ r \in overtaken
    BY <2>1, <2>2 DEF Inv, BasisOK, Verifying
  <2> QED BY <2>1, <2>2, <2>3
<1> QED BY Invariance, <1>1, PTL DEF Spec, CodeKeptUnlessOvertaken

\* Only CreateUser adds an owner.
LEMMA OnlyRequestsCreateOwners ==
  ASSUME Inv, Next, NEW u \in UserIds, role[u] = "unused", role'[u] = "OWNER"
  PROVE  \E r \in Requests : /\ jobs[r].at = "store" /\ jobs[r].user = NoUser /\ jobs'[r] = Done
<1>0. role = [v \in UserIds |-> role[v]] /\ jobs = [r \in Requests |-> jobs[r]]
  BY DEF Inv, TypeOK
<1>1. role' # role
  OBVIOUS
<1>2. ASSUME NEW v \in UserIds, Logout(v) \/ CreateStaff(v) \/ DeleteStaff(v) \/ CodeExpires(v)
      PROVE  FALSE
  BY <1>0, <1>1, <1>2 DEF Logout, CreateStaff, DeleteStaff, CodeExpires
<1>3. PICK r \in Requests : RequestStep(r)
  BY <1>1, <1>2
     DEF Next, VerifyStep, BeginVerify, ReadUser, Accept, Refuse, CreateSession, Reject,
         CleanupMemoryMaps, ClearAttempts, ClearCooldowns, LockEnds, CooldownEnds, Restart, rows
<1>4. PICK v \in UserIds, k \in Codes : CreateUser(r, v, k)
  BY <1>1, <1>3 DEF RequestStep, BeginRequest, LookUp, UpdateUser, rows
<1> QED BY <1>0, <1>4 DEF CreateUser

\* Two accounts for one address need two requests that both had found none
\* (requestLoginCode's findFirst, then create).
THEOREM OneAccount == Spec => OneAccountUnlessOvertaken
<1> DEFINE Step == \A u \in UserIds :
       (role[u] = "unused" /\ role'[u] = "OWNER" /\ Rows # {}) =>
         \E r \in overtaken : jobs[r].at = "store" /\ jobs'[r] = Done
<1>1. Inv /\ [Next]_vars => [Step]_vars
  <2> SUFFICES ASSUME Inv, Next, NEW u \in UserIds, role[u] = "unused", role'[u] = "OWNER", Rows # {}
               PROVE  \E r \in overtaken : jobs[r].at = "store" /\ jobs'[r] = Done
    OBVIOUS
  <2>1. PICK r \in Requests : jobs[r].at = "store" /\ jobs[r].user = NoUser /\ jobs'[r] = Done
    BY OnlyRequestsCreateOwners
  <2>2. r \in overtaken
    BY <2>1 DEF Inv, BasisOK
  <2> QED BY <2>1, <2>2
<1> QED BY Invariance, <1>1, PTL DEF Spec, OneAccountUnlessOvertaken
===============================================================================
