---------------------------- MODULE Photos_proofs -----------------------------
(***************************************************************************)
(* Proofs about Photos: types, that a photo on a dish is safe from the     *)
(* sweep, and that no image is forgotten outside the named leaks.          *)
(***************************************************************************)
EXTENDS Photos, TLAPS

-------------------------------------------------------------------------------
(* The inductive invariant.                                                 *)

Scheduled == DOMAIN pending \union DOMAIN sweeping

\* Before its write an upload is on no dish, and its deletion is scheduled, done
\* or given up; each upload is of one request; photos kept were on a dish.
UploadsOK ==
  /\ \A r \in Requests :
       /\ jobs[r].at \in {"idle", "upload", "write"} => jobs[r].mine \cap published = {}
       /\ jobs[r].at = "idle" => jobs[r].mine = {}
       /\ jobs[r].at \in {"upload", "write"} => jobs[r].dish \in Dishes
       /\ jobs[r].mine \subseteq used /\ jobs[r].keep \subseteq published
       /\ jobs[r].mine \cap cloud \subseteq Scheduled \union abandoned
  /\ \A r, q \in Requests : r # q => jobs[r].mine \cap jobs[q].mine = {}

\* A photo that was on a dish, or may come onto one, is stored unless a sweep took
\* it too early: only such a one can be in a sweep.
PhotosOK ==
  /\ \A d \in Dishes : shown[d] \subseteq published
  /\ published \union Held \subseteq cloud \union caught
  /\ DOMAIN sweeping \cap (published \union Held) \subseteq caught
  /\ DOMAIN pending \cap published \subseteq Held \union caught

Inv == TypeOK /\ UploadsOK /\ PhotosOK /\ NothingForgotten

-------------------------------------------------------------------------------
(* Lemmas on schedules and jobs.                                            *)

Attempts(f) == \A i \in DOMAIN f : f[i] \in 0 .. MaxAttempts

LEMMA JoinEntries ==
  ASSUME NEW f, NEW g
  PROVE  /\ DOMAIN Join(f, g) = DOMAIN f \union DOMAIN g
         /\ Attempts(f) /\ Attempts(g) => Attempts(Join(f, g))
  BY DEF Join, Attempts

LEMMA WithoutEntries ==
  ASSUME NEW f, NEW is
  PROVE  DOMAIN Without(f, is) = DOMAIN f \ is /\ (Attempts(f) => Attempts(Without(f, is)))
  BY DEF Without, Attempts

LEMMA OneEntry ==
  ASSUME NEW i, NEW n
  PROVE  DOMAIN Entry(i, n) = {i} /\ (n \in 0 .. MaxAttempts => Attempts(Entry(i, n)))
  BY DEF Entry, Attempts

LEMMA NoEntry == DOMAIN NoEntries = {} /\ Attempts(NoEntries)
  BY DEF NoEntries, Attempts

Job == [at : {"idle", "upload", "write", "cancel"}, dish : Dishes \union {NoDish},
        keep : SUBSET Images, files : 0 .. MaxFiles, mine : SUBSET Images, old : SUBSET Images]

LEMMA DoneJob ==
  Done \in Job /\ Done.at = "idle" /\ Done.mine = {} /\ Done.keep = {}
  BY BoundAssumption DEF Done, Job

LEMMA InitInv == Init => Inv
<1> SUFFICES ASSUME Init PROVE Inv
  OBVIOUS
<1>1. TypeOK
  BY DoneJob, NoEntry DEF Init, TypeOK, Job, Attempts
<1>2. Held = {} /\ Scheduled = {}
  BY DoneJob, NoEntry DEF Init, Held, Scheduled
<1>3. UploadsOK
  BY DoneJob DEF Init, UploadsOK
<1>4. PhotosOK /\ NothingForgotten
  BY <1>2, NoEntry DEF Init, PhotosOK, NothingForgotten
<1> QED BY <1>1, <1>3, <1>4 DEF Inv

\* The types after a step, from those of the parts it changes.
LEMMA TypeFrom ==
  (/\ dishes \subseteq Dishes /\ shown \in [Dishes -> SUBSET Images]
   /\ cloud \subseteq used /\ used \subseteq Images
   /\ DOMAIN pending \subseteq used /\ DOMAIN sweeping \subseteq used
   /\ Attempts(pending) /\ Attempts(sweeping) /\ jobs \in [Requests -> Job]
   /\ published \subseteq used /\ caught \subseteq used /\ abandoned \subseteq used) <=> TypeOK
  BY DEF TypeOK, Attempts, Job

LEMMA TypeStep == Inv /\ [Next]_vars => TypeOK'
<1> SUFFICES ASSUME Inv, [Next]_vars PROVE TypeOK'
  OBVIOUS
<1>0. /\ dishes \subseteq Dishes /\ shown \in [Dishes -> SUBSET Images]
      /\ cloud \subseteq used /\ used \subseteq Images
      /\ DOMAIN pending \subseteq used /\ DOMAIN sweeping \subseteq used
      /\ Attempts(pending) /\ Attempts(sweeping) /\ jobs \in [Requests -> Job]
      /\ published \subseteq used /\ caught \subseteq used /\ abandoned \subseteq used
  BY TypeFrom DEF Inv
<1>9. (/\ dishes' \subseteq Dishes /\ shown' \in [Dishes -> SUBSET Images]
       /\ cloud' \subseteq used' /\ used' \subseteq Images
       /\ DOMAIN pending' \subseteq used' /\ DOMAIN sweeping' \subseteq used'
       /\ Attempts(pending') /\ Attempts(sweeping') /\ jobs' \in [Requests -> Job]
       /\ published' \subseteq used' /\ caught' \subseteq used' /\ abandoned' \subseteq used')
      => TypeOK'
  BY DEF TypeOK, Attempts, Job
<1>1. ASSUME NEW r \in Requests, Update(r) PROVE TypeOK'
  <2>0. jobs[r] \in Job
    BY <1>0
  <2>1. ASSUME NEW d \in Dishes, NEW keep \in SUBSET published, NEW n \in 0 .. MaxFiles,
               BeginUpdate(r, d, keep, n)
        PROVE  TypeOK'
    <3>1. [Done EXCEPT !.at = "upload", !.dish = d, !.keep = keep, !.files = n] \in Job
      BY <1>0, BoundAssumption DEF Done, Job
    <3> QED BY <1>0, <1>9, <2>1, <3>1 DEF BeginUpdate, database, cleanup
  <2>2. CASE ReadOld(r)
    <3> DEFINE j == [jobs[r] EXCEPT !.at = "write", !.old = shown[jobs[r].dish]]
    <3>1. jobs[r].at = "upload" /\ jobs' = [jobs EXCEPT ![r] = j]
      BY <1>0, <2>0, <2>2 DEF ReadOld, Job
    <3>2. jobs[r].dish \in Dishes
      BY <3>1 DEF Inv, UploadsOK
    <3>3. j \in Job
      BY <1>0, <2>0, <3>2 DEF Job
    <3> QED BY <1>0, <1>9, <2>2, <3>1, <3>3 DEF ReadOld, database, cleanup
  <2>3. CASE CancelDeletions(r)
    <3>1. DOMAIN pending' \subseteq DOMAIN pending /\ Attempts(pending')
      <4>1. pending' = Without(pending, jobs[r].mine) /\ Attempts(pending)
        BY <1>0, <2>3 DEF CancelDeletions
      <4>2. /\ DOMAIN Without(pending, jobs[r].mine) = DOMAIN pending \ jobs[r].mine
            /\ Attempts(Without(pending, jobs[r].mine))
        BY <4>1, WithoutEntries, Zenon
      <4> QED BY <4>1, <4>2
    <3>2. jobs' \in [Requests -> Job]
      BY <1>0, <2>3, DoneJob DEF CancelDeletions
    <3>3. jobs[r].mine \subseteq used
      BY DEF Inv, UploadsOK
    <3> QED BY <1>0, <1>9, <2>3, <3>1, <3>2, <3>3 DEF CancelDeletions, database
  <2>4. CASE FailWrite(r)
    BY <1>0, <1>9, <2>4, DoneJob DEF FailWrite, database, cleanup
  <2>5. ASSUME NEW i \in Images, Upload(r, i) PROVE TypeOK'
    <3> DEFINE j == [jobs[r] EXCEPT !.files = @ - 1, !.mine = @ \union {i}]
    <3>1. jobs[r].files - 1 \in 0 .. MaxFiles
      BY <2>0, <2>5, BoundAssumption DEF Upload, Job
    <3>2. j \in Job
      <4>1. PICK n \in 0 .. MaxFiles : n = jobs[r].files - 1
        BY <3>1
      <4>2. j = [jobs[r] EXCEPT !.files = n, !.mine = @ \union {i}]
        BY <2>0, <4>1 DEF Job
      <4> QED BY <2>0, <4>2 DEF Job
    <3>3. jobs' = [jobs EXCEPT ![r] = j]
      BY <1>0, <2>0, <2>5 DEF Upload, Job
    <3>4. DOMAIN pending' = DOMAIN pending \union {i}
      <4>1. pending' = Join(pending, Entry(i, 0))
        BY <2>5 DEF Upload
      <4>2. DOMAIN Entry(i, 0) = {i}
        BY OneEntry
      <4>3. DOMAIN Join(pending, Entry(i, 0)) = DOMAIN pending \union DOMAIN Entry(i, 0)
        BY JoinEntries, Zenon
      <4> QED BY <4>1, <4>2, <4>3
    <3>5. 0 \in 0 .. MaxAttempts
      BY BoundAssumption
    <3>6. Attempts(pending')
      BY <1>0, <2>5, <3>5, JoinEntries, OneEntry DEF Upload
    <3>7. jobs' \in [Requests -> Job]
      BY <1>0, <3>2, <3>3
    <3> QED BY <1>0, <1>9, <2>5, <3>4, <3>6, <3>7 DEF Upload, database
  <2>6. ASSUME NEW i \in Images, NEW arrived \in BOOLEAN, FailUpload(r, i, arrived) PROVE TypeOK'
    BY <1>0, <1>9, <2>6, DoneJob DEF FailUpload, database, cleanup
  <2>7. ASSUME NEW new \in SUBSET jobs[r].mine, NEW rest \in SUBSET Images, WritePhotos(r, new, rest)
        PROVE  TypeOK'
    <3>1. jobs[r].mine \subseteq used /\ jobs[r].keep \subseteq published
      BY DEF Inv, UploadsOK
    <3>2. [Done EXCEPT !.at = "cancel", !.mine = jobs[r].mine] \in Job
      BY <2>0, DoneJob DEF Job
    <3>3. shown' \in [Dishes -> SUBSET Images]
      BY <1>0, <2>7, <3>1 DEF WritePhotos
    <3>4. published' \subseteq used
      BY <1>0, <2>7, <3>1 DEF WritePhotos
    <3> QED BY <1>0, <1>9, <2>7, <3>2, <3>3, <3>4 DEF WritePhotos, cleanup
  <2> QED BY <1>1, <2>1, <2>2, <2>3, <2>4, <2>5, <2>6, <2>7 DEF Update
<1>2. ASSUME NEW d \in Dishes, DeleteDish(d) PROVE TypeOK'
  BY <1>0, <1>9, <1>2 DEF DeleteDish, cleanup
<1>3. CASE StartSweep
  <2>1. DOMAIN sweeping' = DOMAIN sweeping \union DOMAIN pending /\ Attempts(sweeping')
    BY <1>0, <1>3, JoinEntries DEF StartSweep
  <2> QED BY <1>0, <1>9, <1>3, <2>1, NoEntry DEF StartSweep, database
<1>4. ASSUME NEW i \in Images, Delete(i) PROVE TypeOK'
  <2>1. DOMAIN sweeping' \subseteq DOMAIN sweeping /\ Attempts(sweeping')
    <3>1. sweeping' = Without(sweeping, {i}) /\ Attempts(sweeping)
      BY <1>0, <1>4 DEF Delete
    <3>2. DOMAIN Without(sweeping, {i}) = DOMAIN sweeping \ {i} /\ Attempts(Without(sweeping, {i}))
      BY <3>1, WithoutEntries, Zenon
    <3> QED BY <3>1, <3>2
  <2> QED BY <1>0, <1>9, <1>4, <2>1 DEF Delete, database
<1>5. ASSUME NEW i \in Images, FailDelete(i) PROVE TypeOK'
  <2>1. DOMAIN sweeping' \subseteq DOMAIN sweeping /\ Attempts(sweeping')
    BY <1>0, <1>5, WithoutEntries DEF FailDelete
  <2>2. CASE sweeping[i] < MaxAttempts
    <3>1. PICK n \in 0 .. MaxAttempts : n = sweeping[i] + 1
      BY <1>0, <1>5, <2>2, BoundAssumption DEF FailDelete, Attempts
    <3>2. pending' = Join(pending, Entry(i, n)) /\ UNCHANGED abandoned
      BY <1>5, <2>2, <3>1 DEF FailDelete
    <3>3. DOMAIN pending' = DOMAIN pending \union {i} /\ Attempts(pending')
      <4>1. DOMAIN Entry(i, n) = {i} /\ Attempts(Entry(i, n)) /\ Attempts(pending)
        BY <1>0, OneEntry
      <4> QED BY <3>2, <4>1, JoinEntries
    <3> QED BY <1>0, <1>9, <1>5, <2>1, <3>2, <3>3 DEF FailDelete, database
  <2>3. CASE ~(sweeping[i] < MaxAttempts)
    BY <1>0, <1>9, <1>5, <2>1, <2>3 DEF FailDelete, database
  <2> QED BY <2>2, <2>3
<1>6. CASE Restart
  BY <1>0, <1>9, <1>6, DoneJob, NoEntry DEF Restart, database
<1>7. CASE UNCHANGED vars
  BY <1>0, <1>9, <1>7 DEF vars, database, cleanup
<1> QED BY <1>1, <1>2, <1>3, <1>4, <1>5, <1>6, <1>7 DEF Next

-------------------------------------------------------------------------------
(* Uploads and photos.  What a step does to the schedule, to one job and to   *)
(* the uploads held comes first.                                            *)

Safe == UploadsOK /\ PhotosOK /\ NothingForgotten

LEMMA HeldStep ==
  ASSUME Inv, NEW r \in Requests, NEW j, jobs' = [jobs EXCEPT ![r] = j]
  PROVE  /\ jobs'[r] = j /\ \A q \in Requests : q # r => jobs'[q] = jobs[q]
         /\ \A q \in Requests : jobs[q].mine \subseteq Held
         /\ Held' = (Held \ jobs[r].mine) \union j.mine
<1>0. jobs \in [Requests -> Job]
  BY DEF Inv, TypeOK, Job
<1>1. jobs'[r] = j /\ \A q \in Requests : q # r => jobs'[q] = jobs[q]
  BY <1>0
<1>2. \A i : i \in Held <=> \E q \in Requests : i \in jobs[q].mine
  BY DEF Held
<1>3. \A i : i \in Held' <=> \E q \in Requests : i \in jobs'[q].mine
  BY DEF Held
<1>4. \A q \in Requests : q # r => jobs[r].mine \cap jobs[q].mine = {}
  BY DEF Inv, UploadsOK
<1>5. \A i : i \in Held' <=> i \in (Held \ jobs[r].mine) \union j.mine
  BY <1>1, <1>2, <1>3, <1>4
<1> QED BY <1>1, <1>2, <1>5

LEMMA JobStep == Inv /\ (\E r \in Requests : Update(r)) => Safe'
<1> SUFFICES ASSUME Inv, NEW r \in Requests, Update(r) PROVE Safe'
  OBVIOUS
<1> DEFINE mine == jobs[r].mine
<1>0. /\ TypeOK /\ Safe /\ jobs \in [Requests -> Job] /\ jobs[r] \in Job
      /\ mine \subseteq Held /\ mine \subseteq used
  BY DEF Inv, Safe, UploadsOK, TypeOK, Job, Held
\* A request that ends with its uploads unpublished leaves them to the sweep.
<1>1. ASSUME jobs[r].at \in {"upload", "write"}, jobs' = [jobs EXCEPT ![r] = Done],
             used \subseteq used', cloud \subseteq cloud', (cloud' \ cloud) \cap used = {},
             abandoned' = abandoned \union (cloud' \ cloud),
             UNCHANGED <<database, cleanup, caught>>
      PROVE  Safe'
  <2>1. /\ jobs'[r] = Done /\ \A q \in Requests : q # r => jobs'[q] = jobs[q]
        /\ Held' = Held \ mine
    BY <1>1, HeldStep, DoneJob
  <2>2. mine \cap published = {} /\ mine \cap cloud \subseteq Scheduled \union abandoned
    BY <1>0, <1>1 DEF Safe, UploadsOK
  <2>3. Scheduled' = Scheduled
    BY <1>1 DEF cleanup, Scheduled
  <2>4. UploadsOK'
    BY <1>0, <1>1, <2>1, <2>3, DoneJob DEF Safe, UploadsOK, database
  <2>5. PhotosOK'
    BY <1>0, <1>1, <2>1, <2>2 DEF Safe, PhotosOK, database, cleanup
  <2>6. NothingForgotten'
    BY <1>0, <1>1, <2>1, <2>2 DEF Safe, NothingForgotten, Scheduled, database, cleanup
  <2> QED BY <2>4, <2>5, <2>6 DEF Safe
<1>2. ASSUME NEW d \in Dishes, NEW keep \in SUBSET published, NEW n \in 0 .. MaxFiles,
             BeginUpdate(r, d, keep, n)
      PROVE  Safe'
  <2> DEFINE j == [Done EXCEPT !.at = "upload", !.dish = d, !.keep = keep, !.files = n]
  <2>1. j.at = "upload" /\ j.mine = {} /\ j.keep = keep /\ j.dish = d
    BY DEF Done
  <2>2. mine = {} /\ jobs' = [jobs EXCEPT ![r] = j]
    BY <1>0, <1>2 DEF Safe, UploadsOK, BeginUpdate
  <2> HIDE DEF j
  <2>3. jobs'[r] = j /\ (\A q \in Requests : q # r => jobs'[q] = jobs[q]) /\ Held' = Held
    <3>1. /\ jobs'[r] = j /\ \A q \in Requests : q # r => jobs'[q] = jobs[q]
          /\ Held' = (Held \ mine) \union j.mine
      BY <2>2, HeldStep
    <3> QED BY <2>1, <2>2, <3>1
  <2>4. UploadsOK'
    BY <1>0, <1>2, <2>1, <2>3 DEF Safe, UploadsOK, Scheduled, BeginUpdate, database, cleanup
  <2>5. PhotosOK' /\ NothingForgotten'
    BY <1>0, <1>2, <2>3 DEF Safe, PhotosOK, NothingForgotten, BeginUpdate, database, cleanup
  <2> QED BY <2>4, <2>5 DEF Safe
<1>3. CASE ReadOld(r)
  <2> DEFINE j == [jobs[r] EXCEPT !.at = "write", !.old = shown[jobs[r].dish]]
  <2>1. jobs[r].at = "upload" /\ jobs' = [jobs EXCEPT ![r] = j]
    BY <1>0, <1>3 DEF ReadOld, Job
  <2>2. j.at = "write" /\ j.mine = mine /\ j.keep = jobs[r].keep /\ j.dish = jobs[r].dish
    BY <1>0 DEF Job
  <2> HIDE DEF j
  <2>3. jobs'[r] = j /\ (\A q \in Requests : q # r => jobs'[q] = jobs[q]) /\ Held' = Held
    BY <1>0, <2>1, <2>2, HeldStep
  <2>4. UploadsOK'
    BY <1>0, <1>3, <2>1, <2>2, <2>3 DEF Safe, UploadsOK, Scheduled, ReadOld, database, cleanup
  <2>5. PhotosOK' /\ NothingForgotten'
    BY <1>0, <1>3, <2>3 DEF Safe, PhotosOK, NothingForgotten, ReadOld, database, cleanup
  <2> QED BY <2>4, <2>5 DEF Safe
<1>4. CASE CancelDeletions(r)
  <2>1. /\ jobs'[r] = Done /\ \A q \in Requests : q # r => jobs'[q] = jobs[q]
        /\ Held' = Held \ mine
    BY <1>4, HeldStep, DoneJob DEF CancelDeletions
  <2>2. DOMAIN pending' = DOMAIN pending \ mine
    <3>1. DOMAIN Without(pending, mine) = DOMAIN pending \ mine
      BY WithoutEntries, Zenon
    <3> QED BY <1>4, <3>1 DEF CancelDeletions
  <2>3. UploadsOK'
    BY <1>0, <1>4, <2>1, <2>2, DoneJob DEF Safe, UploadsOK, Scheduled, CancelDeletions, database
  <2>4. PhotosOK'
    BY <1>0, <1>4, <2>1, <2>2 DEF Safe, PhotosOK, CancelDeletions, database
  <2>5. NothingForgotten'
    BY <1>0, <1>4, <2>1, <2>2 DEF Safe, NothingForgotten, CancelDeletions, database
  <2> QED BY <2>3, <2>4, <2>5 DEF Safe
<1>5. CASE FailWrite(r)
  BY <1>1, <1>5 DEF FailWrite
<1>6. ASSUME NEW i \in Images, Upload(r, i) PROVE Safe'
  <2> DEFINE j == [jobs[r] EXCEPT !.files = @ - 1, !.mine = @ \union {i}]
  <2>1. jobs[r].at = "upload" /\ i \notin used /\ jobs' = [jobs EXCEPT ![r] = j]
    BY <1>0, <1>6 DEF Upload, Job
  <2>2. j.at = "upload" /\ j.mine = mine \union {i} /\ j.keep = jobs[r].keep /\ j.dish = jobs[r].dish
    BY <1>0, <2>1 DEF Job
  <2> HIDE DEF j
  <2>3. /\ jobs'[r] = j /\ \A q \in Requests : q # r => jobs'[q] = jobs[q]
        /\ Held' = Held \union {i}
    BY <1>0, <2>1, <2>2, HeldStep
  <2>4. DOMAIN pending' = DOMAIN pending \union {i}
    <3>1. DOMAIN Entry(i, 0) = {i}
      BY OneEntry
    <3>2. DOMAIN Join(pending, Entry(i, 0)) = DOMAIN pending \union DOMAIN Entry(i, 0)
      BY JoinEntries, Zenon
    <3> QED BY <1>6, <3>1, <3>2 DEF Upload
  <2>5. i \notin published /\ i \notin DOMAIN sweeping /\ i \notin cloud
        /\ \A q \in Requests : i \notin jobs[q].mine
    BY <1>0, <2>1 DEF Safe, UploadsOK, TypeOK
  <2>6. UploadsOK'
    BY <1>0, <1>6, <2>1, <2>2, <2>3, <2>4, <2>5 DEF Safe, UploadsOK, Scheduled, Upload, database
  <2>7. PhotosOK'
    BY <1>0, <1>6, <2>3, <2>4, <2>5 DEF Safe, PhotosOK, Upload, database
  <2>8. NothingForgotten'
    BY <1>0, <1>6, <2>3, <2>4 DEF Safe, NothingForgotten, Upload, database
  <2> QED BY <2>6, <2>7, <2>8 DEF Safe
<1>7. ASSUME NEW i \in Images, NEW arrived \in BOOLEAN, FailUpload(r, i, arrived) PROVE Safe'
  <2>1. /\ i \notin used /\ jobs[r].at = "upload" /\ jobs' = [jobs EXCEPT ![r] = Done]
        /\ UNCHANGED <<database, cleanup, caught>>
    BY <1>7 DEF FailUpload
  <2>2. i \notin cloud
    BY <1>0, <2>1 DEF TypeOK
  <2>3. /\ used \subseteq used' /\ cloud \subseteq cloud' /\ (cloud' \ cloud) \cap used = {}
        /\ abandoned' = abandoned \union (cloud' \ cloud)
    BY <1>0, <1>7, <2>1, <2>2 DEF FailUpload
  <2> QED BY <1>1, <2>1, <2>3
<1>8. ASSUME NEW new \in SUBSET jobs[r].mine, NEW rest \in SUBSET Images, WritePhotos(r, new, rest)
      PROVE  Safe'
  <2> DEFINE j == [Done EXCEPT !.at = "cancel", !.mine = mine]
             final == jobs[r].keep \union new
  <2>1. j.at = "cancel" /\ j.mine = mine /\ j.keep = {} /\ jobs' = [jobs EXCEPT ![r] = j]
    BY <1>8 DEF Done, WritePhotos
  <2> HIDE DEF j
  <2>2. jobs'[r] = j /\ (\A q \in Requests : q # r => jobs'[q] = jobs[q]) /\ Held' = Held
    <3>1. /\ jobs'[r] = j /\ \A q \in Requests : q # r => jobs'[q] = jobs[q]
          /\ Held' = (Held \ mine) \union j.mine
      BY <2>1, HeldStep
    <3> QED BY <1>0, <2>1, <3>1
  <2>3. /\ jobs[r].at = "write" /\ published' = published \union final /\ rest \subseteq shown[jobs[r].dish]
        /\ \A d \in Dishes : shown'[d] \subseteq shown[d] \union final \union rest
        /\ \A d \in Dishes : d # jobs[r].dish => shown'[d] \subseteq shown[d]
    BY <1>8 DEF WritePhotos
  <2>4. jobs[r].dish \in Dishes /\ jobs[r].keep \subseteq published /\ rest \subseteq published
    BY <1>0, <2>3 DEF Safe, UploadsOK, PhotosOK
  <2>5. UNCHANGED <<used, cloud, cleanup, caught, abandoned>>
    BY <1>8 DEF WritePhotos
  <2>6. UploadsOK'
    BY <1>0, <2>1, <2>2, <2>3, <2>4, <2>5 DEF Safe, UploadsOK, Scheduled, cleanup
  <2>7. PhotosOK'
    BY <1>0, <2>2, <2>3, <2>4, <2>5 DEF Safe, PhotosOK, cleanup
  <2>8. NothingForgotten'
    BY <1>0, <2>2, <2>3, <2>5 DEF Safe, NothingForgotten, cleanup
  <2> QED BY <2>6, <2>7, <2>8 DEF Safe
<1> QED BY <1>2, <1>3, <1>4, <1>5, <1>6, <1>7, <1>8 DEF Update

LEMMA SweepStep == Inv /\ (StartSweep \/ \E i \in Images : Delete(i) \/ FailDelete(i)) => Safe'
<1> SUFFICES ASSUME Inv, StartSweep \/ \E i \in Images : Delete(i) \/ FailDelete(i) PROVE Safe'
  OBVIOUS
<1>0. /\ TypeOK /\ Safe
      /\ UNCHANGED <<database, used, jobs>>
  BY DEF Inv, Safe, StartSweep, Delete, FailDelete, Held
<1>1. Held' = Held /\ published' = published /\ shown' = shown
  BY <1>0 DEF Held, database
<1>2. CASE StartSweep
  <2>1. DOMAIN sweeping' = DOMAIN sweeping \union DOMAIN pending /\ DOMAIN pending' = {}
    BY <1>2, JoinEntries, NoEntry DEF StartSweep
  <2>2. Scheduled' = Scheduled
    BY <2>1 DEF Scheduled
  <2>3. UploadsOK'
    BY <1>0, <1>1, <1>2, <2>2 DEF Safe, UploadsOK, StartSweep
  <2>4. PhotosOK'
    BY <1>0, <1>1, <1>2, <2>1 DEF Safe, PhotosOK, StartSweep
  <2>5. NothingForgotten'
    BY <1>0, <1>1, <1>2, <2>1 DEF Safe, NothingForgotten, StartSweep
  <2> QED BY <2>3, <2>4, <2>5 DEF Safe
<1>3. ASSUME NEW i \in Images, i \in DOMAIN sweeping, DOMAIN sweeping' = DOMAIN sweeping \ {i},
             cloud \ {i} \subseteq cloud', cloud' \subseteq cloud, abandoned \subseteq abandoned',
             DOMAIN pending \subseteq DOMAIN pending', DOMAIN pending' \subseteq DOMAIN pending \union {i},
             i \in cloud' => i \in DOMAIN pending' \union abandoned', UNCHANGED caught
      PROVE  Safe'
  <2>1. UploadsOK'
    BY <1>0, <1>1, <1>3 DEF Safe, UploadsOK, Scheduled
  <2>2. PhotosOK'
    BY <1>0, <1>1, <1>3 DEF Safe, PhotosOK
  <2>3. NothingForgotten'
    BY <1>0, <1>1, <1>3 DEF Safe, NothingForgotten
  <2> QED BY <2>1, <2>2, <2>3 DEF Safe
<1>4. ASSUME NEW i \in Images, Delete(i) PROVE Safe'
  <2>1. DOMAIN Without(sweeping, {i}) = DOMAIN sweeping \ {i}
    BY WithoutEntries, Zenon
  <2> QED BY <1>3, <1>4, <2>1 DEF Delete
<1>5. ASSUME NEW i \in Images, FailDelete(i) PROVE Safe'
  <2>1. DOMAIN Without(sweeping, {i}) = DOMAIN sweeping \ {i}
    BY WithoutEntries, Zenon
  <2>2. DOMAIN Join(pending, Entry(i, sweeping[i] + 1)) = DOMAIN pending \union {i}
    <3>1. DOMAIN Entry(i, sweeping[i] + 1) = {i}
      BY OneEntry, Zenon
    <3> QED BY <3>1, JoinEntries, Zenon
  <2>3. \/ DOMAIN pending' = DOMAIN pending \union {i} /\ UNCHANGED abandoned
        \/ abandoned' = abandoned \union {i} /\ UNCHANGED pending
    BY <1>5, <2>2 DEF FailDelete
  <2> QED BY <1>3, <1>5, <2>1, <2>3 DEF FailDelete
<1> QED BY <1>2, <1>4, <1>5

LEMMA RestartStep == Inv /\ Restart => Safe'
<1> SUFFICES ASSUME Inv, Restart PROVE Safe'
  OBVIOUS
<1>0. TypeOK /\ Safe /\ published' = published /\ shown' = shown
  BY DEF Inv, Safe, Restart, database
<1>1. /\ \A r \in Requests : jobs'[r] = Done
      /\ DOMAIN pending' = {} /\ DOMAIN sweeping' = {}
  BY NoEntry DEF Restart
<1>2. Held' = {}
  BY <1>1, DoneJob DEF Held
<1>3. Held \cap cloud \subseteq Scheduled \union abandoned
  BY <1>0 DEF Safe, UploadsOK, Held
<1>4. UploadsOK'
  BY <1>1, DoneJob DEF UploadsOK
<1>5. PhotosOK'
  BY <1>0, <1>1, <1>2 DEF Safe, PhotosOK, Restart
<1>6. NothingForgotten'
  BY <1>0, <1>1, <1>2, <1>3 DEF Safe, NothingForgotten, Scheduled, Restart
<1> QED BY <1>4, <1>5, <1>6 DEF Safe

LEMMA SafeStep == Inv /\ [Next]_vars => Safe'
<1> SUFFICES ASSUME Inv, [Next]_vars PROVE Safe'
  OBVIOUS
<1>0. Safe
  BY DEF Inv, Safe
<1>1. ASSUME NEW d \in Dishes, DeleteDish(d) PROVE Safe'
  <2>1. UNCHANGED <<used, cloud, pending, sweeping, jobs, published, caught, abandoned>>
    BY <1>1 DEF DeleteDish, cleanup
  <2>2. Held' = Held /\ Scheduled' = Scheduled
    BY <2>1 DEF Held, Scheduled
  <2>3. UploadsOK' /\ NothingForgotten'
    BY <1>0, <2>1, <2>2 DEF Safe, UploadsOK, NothingForgotten
  <2>4. \A e \in Dishes : shown'[e] \subseteq shown[e]
    BY <1>1 DEF DeleteDish, Inv, TypeOK
  <2>5. PhotosOK'
    BY <1>0, <2>1, <2>2, <2>4 DEF Safe, PhotosOK
  <2> QED BY <2>3, <2>5 DEF Safe
<1>2. CASE UNCHANGED vars
  <2>1. UNCHANGED <<used, cloud, pending, sweeping, jobs, published, shown, caught, abandoned>>
    BY <1>2 DEF vars, database, cleanup
  <2>2. Held' = Held /\ Scheduled' = Scheduled
    BY <2>1 DEF Held, Scheduled
  <2> QED BY <1>0, <2>1, <2>2 DEF Safe, UploadsOK, PhotosOK, NothingForgotten
<1> QED BY <1>1, <1>2, JobStep, SweepStep, RestartStep DEF Next

-------------------------------------------------------------------------------
(* Theorems.                                                                *)

LEMMA Invariance == Spec => []Inv
<1>1. Inv /\ [Next]_vars => Inv'
  BY TypeStep, SafeStep DEF Inv, Safe
<1> QED BY InitInv, <1>1, PTL DEF Spec

\* Requests, schedule and sweep keep their types through updateDishPhotos, the
\* hourly processPendingDeletions and restarts; attempts never pass MaxAttempts.
THEOREM TypeCorrect == Spec => []TypeOK
  BY Invariance, PTL DEF Inv

\* No sweep takes a photo of a dish from Cloudinary unless it had taken the photo
\* while updateDishPhotos was still at work on it.
THEOREM PhotosSafe == Spec => []ShownIsSafe
<1>1. Inv => ShownIsSafe
  BY DEF Inv, PhotosOK, ShownIsSafe
<1> QED BY Invariance, <1>1, PTL

\* Every image Cloudinary keeps is accounted for: scheduleDeletion, a request or a
\* dish knows it, or it is one of the named leaks.
THEOREM NoneForgotten == Spec => []NothingForgotten
  BY Invariance, PTL DEF Inv
===============================================================================
