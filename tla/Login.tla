--------------------------------- MODULE Login ---------------------------------
(***************************************************************************)
(* Logging in with a code sent by mail: requestLoginCode, verifyLoginCode, *)
(* logout and the clean-up of users.service.ts, for one e-mail address.    *)
(* The counters are Maps in memory, the code is on the user's row; a       *)
(* request reads the counter, awaits the row, awaits bcrypt, and then      *)
(* writes from what it read.                                               *)
(*                                                                         *)
(* Time is kept as what it has made of a value: a code expired, a lock     *)
(* over, a cooldown past.  The mail always gets through and its key is     *)
(* configured.  Counts above MaxAttempts act alike and are kept as it.     *)
(***************************************************************************)
EXTENDS Naturals, FiniteSets

CONSTANTS Requests,     \* requests in progress, one handler each
          UserIds,      \* ids of User rows with the address, never used twice
          Codes,        \* codes, each drawn once
          NoUser, NoCode,
          MaxAttempts,  \* BRUTEFORCE.MAX_ATTEMPTS, 5 in the code
          MaxSessions   \* bound: sessions of one user at a time

ASSUME BoundAssumption == MaxAttempts \in Nat \ {0} /\ MaxSessions \in Nat
ASSUME NoneAssumption == NoUser \notin UserIds /\ NoCode \notin Codes

VARIABLES
  role,       \* of each row: "unused", "OWNER", "STAFF" or "deleted"
  code,       \* loginCodeHash of a row
  expired,    \* loginCodeExpiresAt is past
  sessions,   \* how many Session rows a user has
  attempts,   \* loginAttempts: count (0 without an entry) and lock
  cooldown,   \* lastCodeRequest: "none", "recent" or "past"
  issued,     \* codes drawn so far
  jobs,       \* what each request has read and is at
  outrun,     \* history: verifications whose counter was written since they read it
  overtaken,  \* history: requests whose row was written, or created, since
  wrong,      \* history: wrong codes since the counter was last deleted
  miscounted, \* history: an outrun verification wrote the counter since then
  redeemed    \* history: codes that gave a session

rows == <<role, code, expired, sessions, issued, redeemed>>
counter == <<attempts, outrun, wrong, miscounted>>
vars == <<rows, counter, cooldown, jobs, overtaken>>

Done == [at |-> "idle", user |-> NoUser, typed |-> NoCode, code |-> NoCode, seen |-> 0]
Deleted == [count |-> 0, lock |-> "none"]

TypeOK ==
  /\ role \in [UserIds -> {"unused", "OWNER", "STAFF", "deleted"}]
  /\ code \in [UserIds -> Codes \union {NoCode}] /\ expired \in [UserIds -> BOOLEAN]
  /\ sessions \in [UserIds -> 0 .. MaxSessions]
  /\ attempts \in [count : 0 .. MaxAttempts, lock : {"none", "locked", "over"}]
  /\ attempts.lock = "none" <=> attempts.count < MaxAttempts
  /\ cooldown \in {"none", "recent", "past"}
  /\ jobs \in [Requests ->
       [at : {"idle", "hash", "store", "read", "compare", "session"}, user : UserIds \union {NoUser},
        typed : Codes \union {NoCode}, code : Codes \union {NoCode}, seen : 0 .. MaxAttempts]]
  /\ outrun \subseteq Requests /\ overtaken \subseteq Requests
  /\ wrong \in 0 .. MaxAttempts /\ miscounted \in BOOLEAN
  /\ redeemed \subseteq issued /\ issued \subseteq Codes

Init ==
  /\ \E u \in UserIds, first \in {"unused", "OWNER", "STAFF"} :
       role = [v \in UserIds |-> IF v = u THEN first ELSE "unused"]
  /\ code = [u \in UserIds |-> NoCode] /\ expired = [u \in UserIds |-> FALSE]
  /\ sessions = [u \in UserIds |-> 0]
  /\ attempts = Deleted /\ cooldown = "none" /\ issued = {} /\ redeemed = {}
  /\ jobs = [r \in Requests |-> Done]
  /\ outrun = {} /\ overtaken = {} /\ wrong = 0 /\ miscounted = FALSE

-------------------------------------------------------------------------------
There(u) == role[u] \in {"OWNER", "STAFF"}
Rows == {u \in UserIds : There(u)}

\* findFirst, ordered by role: an owner's row before the others, else any.
First == LET owners == {u \in Rows : role[u] = "OWNER"} IN IF owners # {} THEN owners ELSE Rows

Capped(n) == IF n > MaxAttempts THEN MaxAttempts ELSE n

\* Verifications in progress that hold a count they have read.
Counting == {r \in Requests : jobs[r].at \in {"read", "compare"}}

\* The entry of loginAttempts is deleted (by request r, if any).
DeleteAttempts(rs) ==
  /\ attempts' = Deleted /\ wrong' = 0 /\ miscounted' = FALSE
  /\ outrun' = (outrun \union Counting) \ rs

\* Request r is over; it has written row u.
Finish(r, u) ==
  /\ jobs' = [jobs EXCEPT ![r] = Done]
  /\ overtaken' = (overtaken \union {q \in Requests : jobs[q].user = u}) \ {r}

\* The handler throws: no user, no code, code expired, a write that fails.
Reject(r) ==
  /\ jobs[r].at # "idle"
  /\ jobs' = [jobs EXCEPT ![r] = Done]
  /\ outrun' = outrun \ {r} /\ overtaken' = overtaken \ {r}
  /\ UNCHANGED <<rows, attempts, wrong, miscounted, cooldown>>

-------------------------------------------------------------------------------
(* requestLoginCode.                                                        *)

BeginRequest(r) ==
  /\ jobs[r].at = "idle" /\ cooldown # "recent"
  /\ cooldown' = "recent" /\ DeleteAttempts({})
  /\ jobs' = [jobs EXCEPT ![r] = [Done EXCEPT !.at = "hash"]]
  /\ UNCHANGED <<rows, overtaken>>

\* Faulty: staff are not looked for.
LookUpOwner(r) ==
  LET owners == {u \in Rows : role[u] = "OWNER"} IN
  /\ jobs[r].at = "hash"
  /\ \E u \in IF owners = {} THEN {NoUser} ELSE owners :
       jobs' = [jobs EXCEPT ![r].at = "store", ![r].user = u]
  /\ UNCHANGED <<rows, counter, cooldown, overtaken>>

\* The code is hashed; findFirst.
LookUp(r) ==
  /\ jobs[r].at = "hash"
  /\ \E u \in IF First = {} THEN {NoUser} ELSE First :
       jobs' = [jobs EXCEPT ![r].at = "store", ![r].user = u]
  /\ UNCHANGED <<rows, counter, cooldown, overtaken>>

\* The row found gets the code, whatever code it has by now.
UpdateUser(r, k) ==
  LET u == jobs[r].user IN
  /\ jobs[r].at = "store" /\ u # NoUser /\ There(u) /\ k \notin issued
  /\ code' = [code EXCEPT ![u] = k] /\ expired' = [expired EXCEPT ![u] = FALSE]
  /\ issued' = issued \union {k}
  /\ Finish(r, u)
  /\ UNCHANGED <<role, sessions, redeemed, counter, cooldown>>

\* None was found: an owner's row is created.  Its restaurantId is null, for
\* which the unique index on (email, restaurantId) does not hold.
CreateUser(r, u, k) ==
  /\ jobs[r].at = "store" /\ jobs[r].user = NoUser /\ role[u] = "unused" /\ k \notin issued
  /\ role' = [role EXCEPT ![u] = "OWNER"]
  /\ code' = [code EXCEPT ![u] = k] /\ issued' = issued \union {k}
  /\ jobs' = [jobs EXCEPT ![r] = Done]
  /\ overtaken' = (overtaken \ {r}) \union
                    {q \in Requests \ {r} : jobs[q].at = "store" /\ jobs[q].user = NoUser}
  /\ UNCHANGED <<expired, sessions, redeemed, counter, cooldown>>

-------------------------------------------------------------------------------
(* verifyLoginCode.                                                         *)

\* Faulty: the lock is not looked at.
BeginVerifyLocked(r, typed) ==
  /\ jobs[r].at = "idle"
  /\ jobs' = [jobs EXCEPT ![r] = [Done EXCEPT !.at = "read", !.typed = typed,
                                              !.seen = attempts.count]]
  /\ UNCHANGED <<rows, counter, cooldown, overtaken>>

\* typed is a code that was drawn, or NoCode for any other.
BeginVerify(r, typed) ==
  /\ jobs[r].at = "idle" /\ attempts.lock # "locked"
  /\ jobs' = [jobs EXCEPT ![r] = [Done EXCEPT !.at = "read", !.typed = typed,
                                              !.seen = attempts.count]]
  /\ UNCHANGED <<rows, counter, cooldown, overtaken>>

\* findFirst; the row has a code that has not expired.
ReadUser(r) ==
  /\ jobs[r].at = "read"
  /\ \E u \in First :
       /\ code[u] # NoCode /\ ~expired[u]
       /\ jobs' = [jobs EXCEPT ![r].at = "compare", ![r].user = u, ![r].code = code[u]]
  /\ UNCHANGED <<rows, counter, cooldown, overtaken>>

\* The right code: both entries are deleted.
Accept(r) ==
  /\ jobs[r].at = "compare" /\ jobs[r].typed = jobs[r].code
  /\ DeleteAttempts({r}) /\ cooldown' = "none"
  /\ jobs' = [jobs EXCEPT ![r].at = "session"]
  /\ UNCHANGED <<rows, overtaken>>

\* Faulty: every wrong code is the first one.
AttemptsReset(seen) ==
  [count |-> 1, lock |-> IF 1 >= MaxAttempts THEN "locked" ELSE "none"]

\* Faulty: the lock comes one attempt late.
AttemptsLate(seen) ==
  [count |-> Capped(seen + 1), lock |-> IF seen >= MaxAttempts THEN "locked" ELSE "none"]

\* The entry after one more wrong code than were seen.
Attempts(seen) == LET n == Capped(seen + 1) IN
  [count |-> n, lock |-> IF n >= MaxAttempts THEN "locked" ELSE "none"]

\* Faulty: the code does not survive a wrong attempt.
RefuseAndErase(r) ==
  /\ jobs[r].at = "compare" /\ jobs[r].typed # jobs[r].code
  /\ attempts' = Attempts(jobs[r].seen)
  /\ wrong' = Capped(wrong + 1) /\ miscounted' = (miscounted \/ r \in outrun)
  /\ outrun' = (outrun \union Counting) \ {r}
  /\ jobs' = [jobs EXCEPT ![r] = Done] /\ overtaken' = overtaken \ {r}
  /\ code' = [code EXCEPT ![jobs[r].user] = NoCode]
  /\ UNCHANGED <<role, expired, sessions, issued, redeemed, cooldown>>

\* Any other: one more than the request had read at its start.
Refuse(r) ==
  /\ jobs[r].at = "compare" /\ jobs[r].typed # jobs[r].code
  /\ attempts' = Attempts(jobs[r].seen)
  /\ wrong' = Capped(wrong + 1) /\ miscounted' = (miscounted \/ r \in outrun)
  /\ outrun' = (outrun \union Counting) \ {r}
  /\ jobs' = [jobs EXCEPT ![r] = Done] /\ overtaken' = overtaken \ {r}
  /\ UNCHANGED <<rows, cooldown>>

\* Faulty: the code stays.
CreateSessionKeepCode(r) ==
  LET u == jobs[r].user IN
  /\ jobs[r].at = "session" /\ There(u) /\ sessions[u] < MaxSessions
  /\ sessions' = [sessions EXCEPT ![u] = @ + 1] /\ redeemed' = redeemed \union {jobs[r].code}
  /\ Finish(r, u)
  /\ UNCHANGED <<role, code, expired, issued, counter, cooldown>>

\* One statement: a session, and no code on the row, whichever code is there.
CreateSession(r) ==
  LET u == jobs[r].user IN
  /\ jobs[r].at = "session" /\ There(u) /\ sessions[u] < MaxSessions
  /\ code' = [code EXCEPT ![u] = NoCode] /\ expired' = [expired EXCEPT ![u] = FALSE]
  /\ sessions' = [sessions EXCEPT ![u] = @ + 1] /\ redeemed' = redeemed \union {jobs[r].code}
  /\ Finish(r, u)
  /\ UNCHANGED <<role, issued, counter, cooldown>>

-------------------------------------------------------------------------------
(* Other operations, the passing of time and the process.                   *)

\* logout deletes the session of the token.
Logout(u) ==
  /\ sessions[u] > 0
  /\ sessions' = [sessions EXCEPT ![u] = @ - 1]
  /\ UNCHANGED <<role, code, expired, issued, redeemed, counter, cooldown, jobs, overtaken>>

\* StaffService: a member with the address in some restaurant, and his removal.
CreateStaff(u) ==
  /\ role[u] = "unused"
  /\ role' = [role EXCEPT ![u] = "STAFF"]
  /\ overtaken' = overtaken \union {q \in Requests : jobs[q].at = "store" /\ jobs[q].user = NoUser}
  /\ UNCHANGED <<code, expired, sessions, issued, redeemed, counter, cooldown, jobs>>

DeleteStaff(u) ==
  /\ role[u] = "STAFF"
  /\ role' = [role EXCEPT ![u] = "deleted"]
  /\ code' = [code EXCEPT ![u] = NoCode] /\ expired' = [expired EXCEPT ![u] = FALSE]
  /\ sessions' = [sessions EXCEPT ![u] = 0]
  /\ UNCHANGED <<issued, redeemed, counter, cooldown, jobs, overtaken>>

\* cleanupMemoryMaps, every ten minutes.
CleanupMemoryMaps ==
  /\ IF attempts.lock = "over" THEN DeleteAttempts({}) ELSE UNCHANGED counter
  /\ cooldown' = IF cooldown = "past" THEN "none" ELSE cooldown
  /\ UNCHANGED <<rows, jobs, overtaken>>

\* A request for another address finds MAX_MAP_SIZE entries, in either map.
ClearAttempts == DeleteAttempts({}) /\ UNCHANGED <<rows, cooldown, jobs, overtaken>>
ClearCooldowns == cooldown' = "none" /\ UNCHANGED <<rows, counter, jobs, overtaken>>

CodeExpires(u) ==
  /\ code[u] # NoCode /\ ~expired[u]
  /\ expired' = [expired EXCEPT ![u] = TRUE]
  /\ UNCHANGED <<role, code, sessions, issued, redeemed, counter, cooldown, jobs, overtaken>>

LockEnds ==
  /\ attempts.lock = "locked" /\ attempts' = [attempts EXCEPT !.lock = "over"]
  /\ UNCHANGED <<rows, outrun, wrong, miscounted, cooldown, jobs, overtaken>>

CooldownEnds ==
  /\ cooldown = "recent" /\ cooldown' = "past"
  /\ UNCHANGED <<rows, counter, jobs, overtaken>>

\* The process restarts: the maps and the requests are gone.
Restart ==
  /\ attempts' = Deleted /\ wrong' = 0 /\ miscounted' = FALSE /\ outrun' = {}
  /\ cooldown' = "none" /\ jobs' = [r \in Requests |-> Done] /\ overtaken' = {}
  /\ UNCHANGED rows

-------------------------------------------------------------------------------
RequestStep(r) ==
  \/ BeginRequest(r) \/ LookUp(r)
  \/ \E k \in Codes : UpdateUser(r, k) \/ \E u \in UserIds : CreateUser(r, u, k)

VerifyStep(r) ==
  \/ \E typed \in issued \union {NoCode} : BeginVerify(r, typed)
  \/ ReadUser(r) \/ Accept(r) \/ Refuse(r) \/ CreateSession(r)

Next ==
  \/ \E r \in Requests : RequestStep(r) \/ VerifyStep(r) \/ Reject(r)
  \/ \E u \in UserIds : Logout(u) \/ CreateStaff(u) \/ DeleteStaff(u) \/ CodeExpires(u)
  \/ CleanupMemoryMaps \/ ClearAttempts \/ ClearCooldowns
  \/ LockEnds \/ CooldownEnds \/ Restart

Spec == Init /\ [][Next]_vars

-------------------------------------------------------------------------------
(* Properties.                                                              *)

\* The counter is the number of wrong codes since it was last deleted, unless a
\* verification wrote it that had read it before another one wrote it: such
\* verifications count once, or bring an old count back.
WrongCodesAreCounted == miscounted \/ attempts.count = wrong

\* While the lock is on, a verification is in progress only if it had passed the
\* check before the lock was set (errors.too_many_attempts).
LockedOutUnlessBegunBefore == attempts.lock = "locked" => Counting \subseteq outrun

\* A code gives a second session only to a verification that had read it before
\* the first session was created (loginCodeHash: null).
CodeGivesOneSessionUnlessOvertaken ==
  [][\A r \in Requests :
       (jobs[r].at = "session" /\ jobs'[r] = Done /\ sessions' # sessions
        /\ jobs[r].code \in redeemed) => r \in overtaken]_vars

\* The code of a row is taken away only by the session it gave, or by the session
\* of a verification that had read the code before it.
CodeKeptUnlessOvertaken ==
  [][\A u \in Rows :
       (code[u] # NoCode /\ code'[u] = NoCode /\ role'[u] # "deleted") =>
         \E r \in Requests : /\ jobs[r].at = "session" /\ jobs'[r] = Done
                             /\ jobs[r].user = u
                             /\ jobs[r].code = code[u] \/ r \in overtaken]_vars

\* A second account for the address is created only by a request that had looked
\* before there was one (@@unique([email, restaurantId]) does not cover null).
OneAccountUnlessOvertaken ==
  [][\A u \in UserIds :
       (role[u] = "unused" /\ role'[u] = "OWNER" /\ Rows # {}) =>
         \E r \in overtaken : jobs[r].at = "store" /\ jobs'[r] = Done]_vars
===============================================================================
