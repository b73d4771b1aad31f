-------------------------------- MODULE Photos ---------------------------------
(***************************************************************************)
(* The photos of dishes: updateDishPhotos of dishes.service.ts and the     *)
(* clean-up of cloudinary-cleanup.service.ts.  A request uploads its files *)
(* and schedules each for deletion, then puts them on the dish in one      *)
(* transaction, and only then cancels the deletions: what fails in between *)
(* is deleted by the hourly sweep.  The schedule is a Map in memory, the   *)
(* sweep empties it before it deletes, and the requests go on meanwhile.   *)
(***************************************************************************)
EXTENDS Naturals, FiniteSets

CONSTANTS Requests,     \* requests in progress, one handler each
          Dishes,
          Images,       \* uploads; Cloudinary's public ids are never used twice
          MaxFiles,     \* files per request (10 in the controller)
          MaxAttempts,  \* deletion attempts after the first (3 in the code)
          NoDish

ASSUME BoundAssumption == MaxFiles \in Nat /\ MaxAttempts \in Nat
ASSUME NoneAssumption == NoDish \notin Dishes

VARIABLES
  dishes,    \* dishes that exist
  shown,     \* photos of a dish (ImageDish and Image rows)
  used,      \* images that were uploaded
  cloud,     \* images Cloudinary has
  pending,   \* pendingDeletions: failed attempts of the scheduled images
  sweeping,  \* entries a sweep took and has not deleted yet
  jobs,      \* what each request is at
  published, \* history: images that were on some dish
  caught,    \* history: images a sweep took while their request was in progress
  abandoned  \* history: images nobody will delete any more

database == <<dishes, shown, published>>
cleanup == <<pending, sweeping>>
vars == <<database, used, cloud, cleanup, jobs, caught, abandoned>>

NoEntries == [i \in {} |-> 0]
Entry(i, n) == [x \in {i} |-> n]
Join(f, g) == [x \in DOMAIN f \union DOMAIN g |-> IF x \in DOMAIN g THEN g[x] ELSE f[x]]
Without(f, is) == [x \in DOMAIN f \ is |-> f[x]]

\* keep: the existing photos of the layout; files: still to upload; mine:
\* uploaded by this request; old: photos the transaction has read.
Done == [at |-> "idle", dish |-> NoDish, keep |-> {}, files |-> 0, mine |-> {}, old |-> {}]

Held == UNION {jobs[r].mine : r \in Requests}

TypeOK ==
  /\ dishes \subseteq Dishes /\ shown \in [Dishes -> SUBSET Images]
  /\ cloud \subseteq used /\ used \subseteq Images
  /\ DOMAIN pending \subseteq used /\ DOMAIN sweeping \subseteq used
  /\ \A i \in DOMAIN pending : pending[i] \in 0 .. MaxAttempts
  /\ \A i \in DOMAIN sweeping : sweeping[i] \in 0 .. MaxAttempts
  /\ jobs \in [Requests ->
       [at : {"idle", "upload", "write", "cancel"}, dish : Dishes \union {NoDish},
        keep : SUBSET Images, files : 0 .. MaxFiles, mine : SUBSET Images, old : SUBSET Images]]
  /\ published \subseteq used /\ caught \subseteq used /\ abandoned \subseteq used

Init ==
  /\ dishes = Dishes /\ shown = [d \in Dishes |-> {}]
  /\ used = {} /\ cloud = {} /\ pending = NoEntries /\ sweeping = NoEntries
  /\ jobs = [r \in Requests |-> Done]
  /\ published = {} /\ caught = {} /\ abandoned = {}

-------------------------------------------------------------------------------
(* updateDishPhotos.                                                        *)

\* The client keeps photos it once saw on a dish and sends some files.
BeginUpdate(r, d, keep, n) ==
  /\ jobs[r].at = "idle" /\ d \in dishes
  /\ jobs' = [jobs EXCEPT ![r] = [Done EXCEPT !.at = "upload", !.dish = d, !.keep = keep, !.files = n]]
  /\ UNCHANGED <<database, used, cloud, cleanup, caught, abandoned>>

\* Faulty: an upload is not scheduled for deletion.
UploadUnscheduled(r, i) ==
  /\ jobs[r].at = "upload" /\ jobs[r].files > 0 /\ i \notin used
  /\ used' = used \union {i} /\ cloud' = cloud \union {i}
  /\ jobs' = [jobs EXCEPT ![r].files = @ - 1, ![r].mine = @ \union {i}]
  /\ UNCHANGED <<database, cleanup, caught, abandoned>>

\* uploadImage and scheduleDeletion.
Upload(r, i) ==
  /\ jobs[r].at = "upload" /\ jobs[r].files > 0 /\ i \notin used
  /\ used' = used \union {i} /\ cloud' = cloud \union {i}
  /\ pending' = Join(pending, Entry(i, 0))
  /\ jobs' = [jobs EXCEPT ![r].files = @ - 1, ![r].mine = @ \union {i}]
  /\ UNCHANGED <<database, sweeping, caught, abandoned>>

\* The upload fails, or only its answer does: then nobody knows the image.
FailUpload(r, i, arrived) ==
  /\ jobs[r].at = "upload" /\ jobs[r].files > 0 /\ i \notin used
  /\ used' = used \union {i}
  /\ cloud' = IF arrived THEN cloud \union {i} ELSE cloud
  /\ abandoned' = IF arrived THEN abandoned \union {i} ELSE abandoned
  /\ jobs' = [jobs EXCEPT ![r] = Done]
  /\ UNCHANGED <<database, cleanup, caught>>

\* The transaction reads the photos the dish has.
ReadOld(r) ==
  /\ jobs[r].at = "upload" /\ jobs[r].files = 0
  /\ jobs' = [jobs EXCEPT ![r].at = "write", ![r].old = shown[jobs[r].dish]]
  /\ UNCHANGED <<database, used, cloud, cleanup, caught, abandoned>>

\* It deletes the rows of those not kept, which other dishes may show too, and
\* adds the rest.  new: the uploads the layout has a place for.  rest: photos
\* added by another transaction since, which the deletion may miss.
WritePhotos(r, new, rest) ==
  LET d == jobs[r].dish
      final == jobs[r].keep \union new
      replaced == jobs[r].old \ final IN
  /\ jobs[r].at = "write" /\ d \in dishes
  /\ new \subseteq jobs[r].mine /\ rest \subseteq shown[d] \ jobs[r].old
  /\ shown' = [x \in Dishes |-> IF x = d THEN final \union rest ELSE shown[x] \ replaced]
  /\ published' = published \union final
  /\ jobs' = [jobs EXCEPT ![r] = [Done EXCEPT !.at = "cancel", !.mine = jobs[r].mine]]
  /\ UNCHANGED <<dishes, used, cloud, cleanup, caught, abandoned>>

\* Faulty: the deletions are not cancelled.
FinishOnly(r) ==
  /\ jobs[r].at = "cancel"
  /\ abandoned' = abandoned \union (jobs[r].mine \ published)
  /\ jobs' = [jobs EXCEPT ![r] = Done]
  /\ UNCHANGED <<database, used, cloud, cleanup, caught>>

\* cancelDeletion of every upload, with a place in the layout or without.
CancelDeletions(r) ==
  /\ jobs[r].at = "cancel"
  /\ pending' = Without(pending, jobs[r].mine)
  /\ abandoned' = abandoned \union (jobs[r].mine \ published)
  /\ jobs' = [jobs EXCEPT ![r] = Done]
  /\ UNCHANGED <<database, used, cloud, sweeping, caught>>

\* The transaction fails, or the dish is gone: uploads stay scheduled.
FailWrite(r) ==
  /\ jobs[r].at = "write"
  /\ jobs' = [jobs EXCEPT ![r] = Done]
  /\ UNCHANGED <<database, used, cloud, cleanup, caught, abandoned>>

\* deleteDish; its Image rows stay.
DeleteDish(d) ==
  /\ d \in dishes
  /\ dishes' = dishes \ {d} /\ shown' = [shown EXCEPT ![d] = {}]
  /\ UNCHANGED <<used, cloud, cleanup, jobs, published, caught, abandoned>>

-------------------------------------------------------------------------------
(* processPendingDeletions, every hour; a sweep may outlast the next.       *)

StartSweep ==
  /\ DOMAIN pending # {}
  /\ sweeping' = Join(sweeping, pending) /\ pending' = NoEntries
  /\ caught' = caught \union (DOMAIN pending \cap Held)
  /\ UNCHANGED <<database, used, cloud, jobs, abandoned>>

Delete(i) ==
  /\ i \in DOMAIN sweeping
  /\ cloud' = cloud \ {i} /\ sweeping' = Without(sweeping, {i})
  /\ UNCHANGED <<database, used, pending, jobs, caught, abandoned>>

\* Faulty: the number of attempts is not counted.
RetryForever(i) ==
  /\ i \in DOMAIN sweeping
  /\ sweeping' = Without(sweeping, {i}) /\ pending' = Join(pending, Entry(i, sweeping[i]))
  /\ UNCHANGED <<database, used, cloud, jobs, caught, abandoned>>

\* Faulty: one attempt more than allowed.
RetryOnceMore(i) ==
  /\ i \in DOMAIN sweeping
  /\ cloud' \in {cloud, cloud \ {i}}
  /\ sweeping' = Without(sweeping, {i})
  /\ IF sweeping[i] <= MaxAttempts
     THEN pending' = Join(pending, Entry(i, sweeping[i] + 1)) /\ UNCHANGED abandoned
     ELSE abandoned' = abandoned \union {i} /\ UNCHANGED pending
  /\ UNCHANGED <<database, used, jobs, caught>>

\* The deletion fails, or only its answer does: the next sweep tries again,
\* MaxAttempts times, whatever has been cancelled meanwhile.
FailDelete(i) ==
  /\ i \in DOMAIN sweeping
  /\ cloud' \in {cloud, cloud \ {i}}
  /\ sweeping' = Without(sweeping, {i})
  /\ IF sweeping[i] < MaxAttempts
     THEN pending' = Join(pending, Entry(i, sweeping[i] + 1)) /\ UNCHANGED abandoned
     ELSE abandoned' = abandoned \union {i} /\ UNCHANGED pending
  /\ UNCHANGED <<database, used, jobs, caught>>

\* The process restarts: schedule, sweep and requests are gone.
Restart ==
  /\ pending' = NoEntries /\ sweeping' = NoEntries
  /\ jobs' = [r \in Requests |-> Done]
  /\ abandoned' = abandoned \union ((DOMAIN pending \union DOMAIN sweeping) \ published)
  /\ UNCHANGED <<database, used, cloud, caught>>

-------------------------------------------------------------------------------
Update(r) ==
  \/ \E d \in Dishes, keep \in SUBSET published, n \in 0 .. MaxFiles : BeginUpdate(r, d, keep, n)
  \/ ReadOld(r) \/ CancelDeletions(r) \/ FailWrite(r)
  \/ \E i \in Images : Upload(r, i) \/ \E arrived \in BOOLEAN : FailUpload(r, i, arrived)
  \/ \E new \in SUBSET jobs[r].mine, rest \in SUBSET Images : WritePhotos(r, new, rest)

Next == \/ \E r \in Requests : Update(r)
        \/ \E d \in Dishes : DeleteDish(d)
        \/ StartSweep \/ \E i \in Images : Delete(i) \/ FailDelete(i)
        \/ Restart

\* The cron job runs, and a call of Cloudinary ends one way or the other.
Fairness == WF_vars(StartSweep) /\ \A i \in Images : WF_vars(Delete(i) \/ FailDelete(i))

Spec == Init /\ [][Next]_vars /\ Fairness

-------------------------------------------------------------------------------
(* Properties.                                                              *)

\* A photo on a dish is still at Cloudinary, and one that was put on a dish is not
\* scheduled for deletion once its request is over (a failed deletion puts its
\* entry back), unless a sweep took it while that request was in progress.
ShownIsSafe ==
  /\ \A d \in Dishes : shown[d] \subseteq cloud \union caught
  /\ (DOMAIN pending \union DOMAIN sweeping) \cap published \subseteq Held \union caught

\* An image at Cloudinary was on a dish, or is scheduled, or belongs to a request
\* in progress, or is one of the named leaks: an unknown upload, an upload with no
\* place in the layout, MaxAttempts failures, a restart.
NothingForgotten ==
  cloud \subseteq published \union DOMAIN pending \union DOMAIN sweeping \union Held \union abandoned

\* A scheduled deletion is carried out, cancelled or given up in the end.
DeletionSettled ==
  \A i \in Images : i \in DOMAIN pending ~> i \notin DOMAIN pending \union DOMAIN sweeping
===============================================================================
