------------------------------ MODULE DayClose ------------------------------
(***************************************************************************)
(* The close of one calendar day: its raw files, its open tar, its sealed   *)
(* archive (zst), the removal manifest that says which raw files may go,    *)
(* and the three threads that work on them.                                 *)
(*                                                                          *)
(* The day-close job verifies raw files against the tar, seals the tar,     *)
(* deletes the verified raw files and drops the tar, one stage after the    *)
(* other.  Meanwhile the append worker may restore the tar and add late     *)
(* files to it, and the verify thread of a job checks raw files against the *)
(* sealed archive; that thread outlives its job, with the manifest it was   *)
(* started on.  Stages are atomic where a lock or the absence of any other  *)
(* writer makes them so; the steps the code takes outside the tar lock are  *)
(* actions of their own.  So is the restore of an unreadable tar: it is     *)
(* found unreadable, the sealed archive is decompressed beside it, and the  *)
(* copy replaces whatever the tar has become.                               *)
(***************************************************************************)
EXTENDS Naturals, FiniteSets

CONSTANTS
  Files,          \* closed raw files of the day
  Giant,          \* those too large for a member of a tar without pax headers
  MaxFaults,      \* bound: ingests given up, seals failed, deletions put off
  MaxCuts,        \* bound: appends cut short
  MaxCrashes      \* bound: restarts of the process

ASSUME DayAssumption ==
  /\ IsFiniteSet(Files) /\ Giant \subseteq Files
  /\ {MaxFaults, MaxCuts, MaxCrashes} \subseteq Nat

VARIABLES
  raw,      \* raw files on disk
  gone,     \* raw files removed by a day-close job
  db,       \* files in the database
  ing,      \* files with an ingest job
  q,        \* files with a queued append job
  wk,       \* the append worker of the day's tar
  tar,      \* the open tar: is there, is readable, its members
  zst,      \* members of the sealed archive; {}: no sealed archive
  rebuild,  \* members of the tar's .decomp.tmp; {}: no such file
  disk,     \* the removal manifest as saved
  man,      \* the manifest of the job, in memory
  job,      \* a day-close job is queued or running
  at,       \* the stage of the running job, "off" when none runs
  nxt,      \* the stage after the one the job has stepped aside for
  skip,     \* skip_merge
  postok,   \* post_seal_ok
  rem,      \* remaining_raw
  todo,     \* verified files the deletion has not tried yet
  val,      \* members_tar of the last validation of a batch, and whether no
            \* raw file blocked the drop of the tar when it began
  vt,       \* the verify thread
  fix,      \* how far each thread is with the restore of an unreadable tar
  cut,      \* an append has been cut short
  late,     \* a restore has put a copy of an earlier sealed archive in place
  left      \* what is left of each bound

fileVars == <<raw, gone, db, tar, zst, rebuild, cut, late>>
queueVars == <<ing, q, wk>>
manVars == <<disk, man>>
jobVars == <<job, at, nxt, skip, postok, rem, todo, val>>
vars == <<fileVars, queueVars, manVars, jobVars, vt, fix, left>>

-----------------------------------------------------------------------------
(* Archives.                                                                 *)

NoTar == [has |-> FALSE, ok |-> TRUE, in |-> {}]
TarOf(S) == [has |-> TRUE, ok |-> TRUE, in |-> S]

\* The tar as a thread sees it: a restore that failed answers for the tar.
Seen(t) == IF fix[t] = "failed" THEN [tar EXCEPT !.ok = FALSE] ELSE tar

\* ensure_daily_tar_restored_for_append: an absent tar is decompressed by the
\* holder of the day's restore lease, by way of the same .decomp.tmp.
MustDecompress == ~tar.has /\ zst # {}
Restored == IF MustDecompress THEN TarOf(zst) ELSE Seen("job")
Decompressed == IF MustDecompress THEN tar' = TarOf(zst) /\ rebuild' = {}
                ELSE UNCHANGED <<tar, rebuild>>

Valid(t) == t.has /\ t.ok /\ t.in # {}

\* Mutant of SealValid: the tar is not compared with the sealed archive.
SealValidAlone(t) == zst # {}

\* validate_sealed_daily_archive_for_raw_removal of a sealed archive: it is
\* there, and equal to a tar if any.
SealValid(t) == zst # {} /\ t.ok /\ (t.has => Valid(t) /\ t.in = zst)

\* Members as the append and the discovery see them.
Archived == IF tar.has THEN (IF tar.ok THEN tar.in ELSE {}) ELSE zst

-----------------------------------------------------------------------------
(* The removal manifest.                                                     *)

Verified == {"complete", "deleting", "done"}    \* verification_complete

Pending(m) == {f \in Files : m.e[f] = "verified"}
Listed(m) == {f \in raw : m.e[f] # "none"}
Blocking(m) == {f \in Listed(m) : m.e[f] # "deleted"}
Retryable(m) == {f \in Listed(m) : m.e[f] = "retry"}

\* _remaining_raw_paths_blocking_tar_drop.
RemainingRaw(m) == IF m.phase \in Verified THEN Blocking(m) ELSE raw

\* _closed_raw_remains: done answers for the disk.
ClosedRawRemains(m) == m.phase # "done" /\ RemainingRaw(m) # {}

PreSealComplete(m) == m.stage \in {"pre", "post"} \/ m.phase \in Verified

\* should_handoff_ingest_wait.
ShouldHandoff(m) ==
  /\ m.phase \in Verified
  /\ Retryable(m) # {} /\ Retryable(m) = Blocking(m)

\* _day_close_disk_remaining_raw_blocks.
Blocks(m) ==
  \/ m.phase = "verifying"
  \/ m.phase \in {"complete", "deleting"} /\ Pending(m) # {}

\* Mutant of Complete: an open tar does not count.
CompleteIgnoresTar == zst # {} /\ RemainingRaw(disk) = {}

\* day_close_is_complete, read from the saved manifest.
Complete == ~tar.has /\ zst # {} /\ RemainingRaw(disk) = {}

\* _record_entry for each path: what is verified stays verified.
Record(m, paths, verdict) ==
  [m EXCEPT !.e = [f \in Files |->
     IF f \in paths /\ m.e[f] \notin {"verified", "deleted"}
     THEN verdict[f] ELSE m.e[f]]]

\* _classify_removable: in the database, then in the archive.
Verdict(members) ==
  [f \in Files |-> IF f \in db /\ f \in members THEN "verified" ELSE "retry"]

\* _handoff_retryable_paths_to_ingest.
HandOff(paths) ==
  /\ ing' = ing \cup (paths \ db)
  /\ q' = q \cup {f \in paths \cap db : f \notin Archived /\ wk.f # f}

NewManifest == [phase |-> "verifying", stage |-> "none", e |-> [f \in Files |-> "none"]]

NoThread == [pc |-> "none", own |-> FALSE, m |-> NewManifest,
             ok |-> FALSE, in |-> {}, paths |-> {}]
NoWorker == [pc |-> "idle", f |-> "none"]
NoValidation == [in |-> {}, clear |-> FALSE]
Readers == {"job", "thread"}

Init ==
  /\ raw = {} /\ gone = {} /\ db = {} /\ ing = {} /\ q = {}
  /\ wk = NoWorker /\ tar = NoTar /\ zst = {} /\ rebuild = {}
  /\ disk = NewManifest /\ man = NewManifest /\ job = FALSE
  /\ at = "off" /\ nxt = "off" /\ skip = FALSE
  /\ postok = FALSE /\ rem = FALSE /\ todo = {} /\ val = NoValidation
  /\ vt = NoThread /\ fix = [t \in Readers |-> "no"]
  /\ cut = FALSE /\ late = FALSE
  /\ left = [fault |-> MaxFaults, cut |-> MaxCuts, crash |-> MaxCrashes]

Spend(what) == left[what] > 0 /\ left' = [left EXCEPT ![what] = @ - 1]

-----------------------------------------------------------------------------
(* Files arrive, are ingested, and are queued for the archive.               *)

RawArrives(f) ==
  /\ f \notin raw \cup gone
  /\ raw' = raw \cup {f} /\ ing' = ing \cup {f}
  /\ UNCHANGED <<gone, db, tar, zst, rebuild, cut, late, q, wk, manVars, jobVars, vt, fix, left>>

\* Ingest writes the rows and then queues the append job.
IngestDone(f) ==
  /\ f \in ing /\ f \in raw
  /\ db' = db \cup {f} /\ ing' = ing \ {f}
  /\ q' = IF f \notin Archived /\ wk.f # f THEN q \cup {f} ELSE q
  /\ UNCHANGED <<raw, gone, tar, zst, rebuild, cut, late, wk, manVars, jobVars, vt, fix, left>>

\* An ingest job dead-letters; only a hand-off brings the file back.
IngestGivesUp(f) ==
  /\ f \in ing \ db
  /\ Spend("fault")
  /\ ing' = ing \ {f}
  /\ UNCHANGED <<fileVars, q, wk, manVars, jobVars, vt, fix>>

\* stream_enqueue_ingest_from_find_records: an ingested file that is not in
\* the archive gets its append job again.
Discover(f) ==
  /\ f \in (raw \cap db) \ (Archived \cup q) /\ wk.f # f
  /\ q' = q \cup {f}
  /\ UNCHANGED <<fileVars, ing, wk, manVars, jobVars, vt, fix, left>>

-----------------------------------------------------------------------------
(* The append worker: it looks at the archive, then writes under the lock.   *)

AppendClaimed(f) ==
  /\ wk.pc = "idle" /\ f \in q
  /\ q' = q \ {f} /\ wk' = [pc |-> "claimed", f |-> f]
  /\ UNCHANGED <<fileVars, ing, manVars, jobVars, vt, fix, left>>

\* _archive_stats_files_body up to the write: an absent tar is restored, a
\* truncated one repaired when it has a member to keep.  One without a member
\* has no sealed archive beside it (Covers in DayCloseProofs): the job fails.
AppendLooks ==
  /\ wk.pc = "claimed"
  /\ \/ /\ wk.f \in Archived
        /\ wk' = NoWorker
        /\ UNCHANGED <<tar, rebuild, q>>
     \/ /\ wk.f \notin Archived /\ tar.has /\ ~tar.ok /\ tar.in = {}
        /\ wk' = NoWorker /\ q' = q \cup {wk.f}
        /\ UNCHANGED <<tar, rebuild>>
     \/ /\ wk.f \notin Archived /\ ~(tar.has /\ ~tar.ok /\ tar.in = {})
        /\ wk' = [wk EXCEPT !.pc = "ready"]
        /\ IF tar.has THEN tar' = [tar EXCEPT !.ok = TRUE] /\ UNCHANGED rebuild
           ELSE Decompressed
        /\ UNCHANGED q
  /\ UNCHANGED <<raw, gone, db, zst, cut, late, ing, manVars, jobVars, vt, fix, left>>

\* prepare_paths_for_giant_member_append: the tar has no pax headers and cannot
\* be converted; the file is left out, and its job acknowledged all the same.
AppendSkips ==
  /\ wk.pc = "ready" /\ wk.f \in Giant \cap raw /\ tar.has
  /\ wk' = NoWorker
  /\ UNCHANGED <<fileVars, ing, q, manVars, jobVars, vt, fix, left>>

\* Mutant of Refused: a new tar is begun beside the sealed archive.
RefusedUnreadable == tar.has /\ ~tar.ok

\* _append_to_tar: a path that is gone is left out, and no tar is begun
\* beside a sealed archive.
Refused == (~tar.has /\ zst # {}) \/ (tar.has /\ ~tar.ok)

AppendWrites ==
  /\ wk.pc = "ready" /\ wk' = NoWorker
  /\ IF wk.f \notin raw THEN UNCHANGED <<tar, q>>
     ELSE IF Refused THEN q' = q \cup {wk.f} /\ UNCHANGED tar
     ELSE tar' = TarOf(tar.in \cup {wk.f}) /\ UNCHANGED q
  /\ UNCHANGED <<raw, gone, db, zst, rebuild, cut, late, ing, manVars, jobVars, vt, fix, left>>

\* tar -r fails half way and leaves the tar truncated; the job is retried.
AppendBreaks ==
  /\ wk.pc = "ready" /\ wk.f \in raw /\ ~Refused
  /\ Spend("cut") /\ cut' = TRUE
  /\ tar' = [TarOf(tar.in) EXCEPT !.ok = FALSE]
  /\ q' = q \cup {wk.f} /\ wk' = NoWorker
  /\ UNCHANGED <<raw, gone, db, zst, rebuild, late, ing, manVars, jobVars, vt, fix>>

-----------------------------------------------------------------------------
(* What the stages of the job look at.                                       *)

\* _reclassify_retryable_skips_on_disk: what the open tar, restored if need
\* be, now holds becomes verified.
SkippedPaths(m) ==
  IF m.phase \notin Verified THEN {}
  ELSE IF Pending(m) = {} THEN Blocking(m) ELSE Retryable(m)
Reclassify(m) == IF SkippedPaths(m) = {} THEN UNCHANGED <<tar, rebuild>> ELSE Decompressed
Reclassified(m) ==
  LET upgraded == IF Valid(Restored) THEN SkippedPaths(m) \cap db \cap Restored.in ELSE {}
  IN [m EXCEPT !.e = [f \in Files |-> IF f \in upgraded THEN "verified" ELSE m.e[f]]]
Waiting == at \in {"wait1", "wait2", "wait3"}
DoneAndSealed == man.phase = "done" /\ zst # {}

\* apply_batch_delete takes a manifest up again that has verified files.
Reopened(m) ==
  IF m.phase = "done" /\ Pending(m) # {} THEN [m EXCEPT !.phase = "deleting"] ELSE m

\* try_finish_tar_drop_if_ready comes to its validation.
MayFinishDrop == postok /\ tar.has /\ zst # {} /\ ~rem /\ RemainingRaw(man) = {}

-----------------------------------------------------------------------------
(* restore_tar_from_sealed_if_unreadable, for the job and the verify thread. *)

Unreadable == tar.has /\ ~tar.ok /\ zst # {}

\* The job is about to validate the open tar.
JobReadsTar ==
  \/ Waiting /\ ~DoneAndSealed /\ ShouldHandoff(man)
  \/ at \in {"verify1", "verify2"} /\ ~PreSealComplete(man)
  \/ at \in {"post", "repost"} /\ man.stage # "post"
  \/ at = "batch" /\ SkippedPaths(Reopened(man)) # {}
  \/ at = "validate"
  \/ at = "drop" /\ MayFinishDrop
ReadsTar(t) == IF t = "job" THEN JobReadsTar ELSE vt.pc = "listed"

\* The tar is found unreadable; a copy that lies about is removed.
RestoreBegins(t) ==
  /\ fix[t] = "no" /\ ReadsTar(t) /\ Unreadable
  /\ rebuild' = {} /\ fix' = [fix EXCEPT ![t] = "begun"]
  /\ UNCHANGED <<raw, gone, db, tar, zst, cut, late, queueVars, manVars, jobVars, vt, left>>

\* decompress_compressed_to_tar, which takes a copy that is there by now.
RestoreCopies(t) ==
  /\ fix[t] = "begun"
  /\ rebuild' = IF rebuild = {} THEN zst ELSE rebuild
  /\ fix' = [fix EXCEPT ![t] = "copied"]
  /\ UNCHANGED <<raw, gone, db, tar, zst, cut, late, queueVars, manVars, jobVars, vt, left>>

\* Under the tar lock, without another look at tar or sealed archive.
RestoreReplaces(t) ==
  /\ fix[t] = "copied"
  /\ IF rebuild = {} THEN fix' = [fix EXCEPT ![t] = "failed"] /\ UNCHANGED <<tar, rebuild>>
     ELSE /\ tar' = TarOf(rebuild) /\ rebuild' = {}
          /\ fix' = [fix EXCEPT ![t] = "done"]
  /\ late' = (late \/ rebuild \notin {{}, zst})
  /\ UNCHANGED <<raw, gone, db, zst, cut, queueVars, manVars, jobVars, vt, left>>

Restore(t) == RestoreBegins(t) \/ RestoreCopies(t) \/ RestoreReplaces(t)

\* There was nothing to restore, or it has been tried.
TarSettled(t) ==
  \/ fix[t] \in {"done", "failed"}
  \/ fix[t] = "no" /\ ~(ReadsTar(t) /\ Unreadable)

-----------------------------------------------------------------------------
(* The verify thread, against the sealed archive.                            *)

ThreadManifest == IF vt.own THEN man ELSE vt.m

VerifyLists ==
  /\ vt.pc = "go"
  /\ vt' = IF ThreadManifest.phase \in Verified THEN NoThread
           ELSE [vt EXCEPT !.pc = IF raw = {} THEN "classified" ELSE "listed",
                           !.paths = raw]
  /\ UNCHANGED <<fileVars, queueVars, manVars, jobVars, fix, left>>

VerifyReads ==
  /\ vt.pc = "listed" /\ TarSettled("thread")
  /\ vt' = [vt EXCEPT !.pc = "classified", !.ok = SealValid(Seen("thread")), !.in = zst]
  /\ fix' = [fix EXCEPT !["thread"] = "no"]
  /\ UNCHANGED <<fileVars, queueVars, manVars, jobVars, left>>

\* The verdicts are recorded, the phase set whatever it has become, the
\* manifest saved, and the files that wait for ingest handed over.
VerifyRecords ==
  /\ vt.pc = "classified"
  /\ LET verdict == IF vt.ok THEN Verdict(vt.in) ELSE [f \in Files |-> "invalid"]
         m == [Record(ThreadManifest, vt.paths, verdict) EXCEPT !.phase = "complete"]
     IN /\ disk' = m
        /\ man' = IF vt.own THEN m ELSE man
        /\ HandOff(IF ShouldHandoff(m) THEN Retryable(m) ELSE {})
  /\ vt' = NoThread
  /\ UNCHANGED <<fileVars, wk, jobVars, fix, left>>

-----------------------------------------------------------------------------
(* The day-close job.                                                        *)

Goto(s) == at' = s /\ fix' = [fix EXCEPT !["job"] = "no"]
Save(m) == man' = m /\ disk' = m
Started == IF vt.pc = "none" THEN [NoThread EXCEPT !.pc = "go", !.own = TRUE] ELSE vt

\* Mutant of EnqueueDayClose: a day that was sealed once is not closed again.
EnqueueUnsealed ==
  /\ ~job /\ (tar.has \/ raw # {}) /\ zst = {}
  /\ job' = TRUE
  /\ UNCHANGED <<fileVars, queueVars, manVars, at, nxt, skip, postok, rem, todo, val,
                 vt, fix, left>>

\* day_close jobs come from the sweep over open tars and from the discovery of
\* raw files; whether the day is complete is left to the job.
EnqueueDayClose ==
  /\ ~job /\ (tar.has \/ raw # {})
  /\ job' = TRUE
  /\ UNCHANGED <<fileVars, queueVars, manVars, at, nxt, skip, postok, rem,
                 todo, val, vt, fix, left>>

\* _run_day_close_job begins: it yields to live ingest and append work of the
\* day, and otherwise loads the manifest.
BeginDayClose ==
  /\ job /\ at = "off"
  /\ ing = {} /\ wk.pc # "ready" /\ ~Complete
  /\ man' = disk
  /\ Goto(IF tar.has THEN "wait1" ELSE "seal")
  /\ UNCHANGED <<fileVars, queueVars, disk, job, nxt, skip, postok, rem,
                 todo, val, vt, left>>

JobReset ==
  /\ at' = "off" /\ nxt' = "off" /\ skip' = FALSE /\ postok' = FALSE
  /\ rem' = FALSE /\ todo' = {} /\ val' = NoValidation /\ man' = NewManifest

\* The job returns; its verify thread keeps the manifest it works on.
EndJob(acked, m) ==
  /\ JobReset /\ job' = ~acked
  /\ vt' = IF vt.own THEN [vt EXCEPT !.own = FALSE, !.m = m] ELSE vt

Yield ==
  /\ at = "yield"
  /\ EndJob(FALSE, man)
  /\ UNCHANGED <<fileVars, queueVars, disk, fix, left>>

\* The job finds the day complete when it is claimed, and is acknowledged.
AlreadyComplete ==
  /\ job /\ at = "off"
  /\ ing = {} /\ wk.pc # "ready" /\ Complete
  /\ job' = FALSE
  /\ UNCHANGED <<fileVars, queueVars, manVars, at, nxt, skip, postok, rem,
                 todo, val, vt, fix, left>>

\* _day_close_append_or_hot_active: claims a coordinator has parked do not count.
Hot == q # {} \/ ing # {} \/ wk.pc = "ready"

AfterWait(s) ==
  CASE at = "wait1" -> "verify1"
    [] at = "wait2" -> IF s THEN "seal" ELSE "merge"
    [] at = "wait3" -> "seal"

\* _wait_on_ingest_or_advance when there is nothing to wait for.
WaitPasses ==
  /\ Waiting /\ TarSettled("job")
  /\ DoneAndSealed \/ ~(Blocks(man) \/ ShouldHandoff(man))
  /\ skip' = (skip \/ DoneAndSealed)
  /\ Goto(AfterWait(skip'))
  /\ UNCHANGED <<fileVars, queueVars, manVars, job, nxt, postok, rem, todo,
                 val, vt, left>>

\* The same when raw files remain: what holds them is kicked, and the job
\* yields if append or ingest work was alive before the kick.
WaitKicks ==
  /\ Waiting /\ TarSettled("job") /\ ~DoneAndSealed
  /\ LET to == IF Hot THEN "yield" ELSE AfterWait(TRUE)
         up == Reclassified(man)
         deleting == [up EXCEPT !.phase = "deleting"]
     IN \/ /\ man.phase = "verifying"
           /\ vt' = Started /\ Goto(to)
           /\ UNCHANGED <<tar, rebuild, manVars, ing, q, nxt>>
        \/ /\ Blocks(man) /\ man.phase # "verifying"
           /\ Save([man EXCEPT !.phase = "deleting"]) /\ Goto(to)
           /\ UNCHANGED <<tar, rebuild, ing, q, vt, nxt>>
        \/ /\ ShouldHandoff(man)
           /\ HandOff(Retryable(man)) /\ Decompressed
           /\ IF up = man
              THEN Goto(to) /\ UNCHANGED <<manVars, nxt>>
              ELSE Save(deleting) /\ Goto("batch") /\ nxt' = to
           /\ UNCHANGED vt
  /\ skip' = TRUE
  /\ UNCHANGED <<raw, gone, db, zst, cut, late, wk, job, postok, rem, todo, val, left>>

\* _pre_seal_verify_body against the open tar, in one batch.
PreSealVerify ==
  /\ at \in {"verify1", "verify2"} /\ TarSettled("job")
  /\ IF PreSealComplete(man)
     THEN /\ Goto(IF at = "verify1" THEN "wait2" ELSE "wait3")
          /\ UNCHANGED <<tar, rebuild, manVars>>
     ELSE /\ Decompressed
          /\ IF ~Valid(Restored)
             THEN Goto("yield") /\ UNCHANGED manVars
             ELSE LET named == Listed(man) \cup (raw \cap Restored.in)
                      paths == IF named = {} THEN raw ELSE named
                      m == Record(man, paths, Verdict(Restored.in))
                  IN /\ Save([m EXCEPT !.phase = "complete", !.stage = "pre"])
                     /\ Goto(IF at = "verify1" THEN "wait2" ELSE "wait3")
  /\ UNCHANGED <<raw, gone, db, zst, cut, late, queueVars, job, nxt, skip, postok, rem,
                 todo, val, vt, left>>

\* The members of tar and zst differ, and the lock holder may replace zst.
SealsNothing(t) == ~t.has \/ ~t.ok \/ t.in = zst \/ Cardinality(t.in) < Cardinality(zst)

\* What the seal and merge stages compress, and whether the tar goes after it.
SealInput ==
  CASE at = "merge" -> IF tar.has /\ (tar.ok \/ tar.in # {})
                       THEN TarOf(tar.in \cup zst) ELSE tar
    [] OTHER -> IF skip \/ RemainingRaw(man) = {} THEN tar ELSE NoTar
TarMayGo == at = "merge" => RemainingRaw(man) = {}
AfterSeal ==
  CASE at = "merge" -> "verify2" [] at = "seal" -> "post" [] at = "reseal" -> "repost"

Sealing == at \in {"merge", "seal", "reseal"}

\* atomic_seal_tar_to_zst: nothing to do, or refused.
SealSkipped ==
  /\ Sealing /\ SealsNothing(SealInput)
  /\ tar' = IF at = "merge" THEN SealInput ELSE tar
  /\ Goto(AfterSeal)
  /\ UNCHANGED <<raw, gone, db, zst, rebuild, cut, late, queueVars, manVars, job, nxt,
                 skip, postok, rem, todo, val, vt, left>>

\* Compressed and put in place under the lock; the tar goes under a second one.
SealDone ==
  /\ Sealing /\ ~SealsNothing(SealInput)
  /\ zst' = SealInput.in /\ tar' = SealInput
  /\ IF TarMayGo THEN Goto("sealed") /\ nxt' = AfterSeal
     ELSE Goto(AfterSeal) /\ UNCHANGED nxt
  /\ UNCHANGED <<raw, gone, db, rebuild, cut, late, queueVars, manVars, job, skip,
                 postok, rem, todo, val, vt, left>>

\* The compression fails; the stage is left all the same.
SealFails ==
  /\ Sealing /\ ~SealsNothing(SealInput)
  /\ Spend("fault")
  /\ tar' = SealInput /\ Goto(AfterSeal)
  /\ UNCHANGED <<raw, gone, db, zst, rebuild, cut, late, queueVars, manVars, job, nxt,
                 skip, postok, rem, todo, val, vt>>

SealDrops ==
  /\ at = "sealed"
  /\ tar' = NoTar /\ Goto(nxt) /\ nxt' = "off"
  /\ UNCHANGED <<raw, gone, db, zst, rebuild, cut, late, queueVars, manVars, job, skip,
                 postok, rem, todo, val, vt, left>>

\* post_seal_verify; a stage that was passed once is not looked at again.
PostSealVerify ==
  /\ at \in {"post", "repost"} /\ TarSettled("job")
  /\ postok' = ((tar.has \/ zst # {}) /\ (man.stage = "post" \/ SealValid(Seen("job"))))
  /\ IF postok' /\ man.stage # "post" THEN Save([man EXCEPT !.stage = "post"])
     ELSE UNCHANGED manVars
  /\ IF at = "post" THEN Goto("batch") /\ nxt' = "settled"
     ELSE Goto("drop") /\ UNCHANGED nxt
  /\ UNCHANGED <<fileVars, queueVars, job, skip, rem, todo, val, vt, left>>

\* apply_batch_delete, whatever post_seal_verify answered: first it takes up
\* the files verified since.
BatchBegins ==
  /\ at = "batch" /\ TarSettled("job")
  /\ LET up == Reclassified(Reopened(man))
     IN /\ disk' = IF up # man THEN up ELSE disk
        /\ IF up.phase \in {"complete", "deleting"}
           THEN /\ man' = [up EXCEPT !.phase = "deleting"]
                /\ todo' = {f \in Files : up.e[f] # "none"} /\ Goto("delete")
                /\ UNCHANGED <<vt, nxt>>
           ELSE /\ man' = up
                /\ vt' = IF up.phase = "verifying" THEN Started ELSE vt
                /\ Goto(nxt) /\ nxt' = "off"
                /\ UNCHANGED todo
  /\ Reclassify(Reopened(man))
  /\ UNCHANGED <<raw, gone, db, zst, cut, late, queueVars, job, skip, postok, rem, val, left>>

ToDelete == todo \cap Pending(man)

\* Mutant of DeleteRaw: a removal that failed counts as done.
DeleteRawUnchecked(f) ==
  /\ at = "delete" /\ f \in ToDelete
  /\ gone' = gone \cup {f} /\ todo' = todo \ {f}
  /\ man' = [man EXCEPT !.e[f] = "deleted"]
  /\ UNCHANGED <<raw, db, tar, zst, rebuild, cut, late, queueVars, disk, job, at, nxt, skip,
                 postok, rem, val, vt, fix, left>>

\* A verified raw file is removed without another look at the archive; the
\* manifest is not saved before the batch ends.
DeleteRaw(f) ==
  /\ at = "delete" /\ f \in ToDelete
  /\ raw' = raw \ {f} /\ gone' = gone \cup {f} /\ todo' = todo \ {f}
  /\ man' = [man EXCEPT !.e[f] = "deleted"]
  /\ UNCHANGED <<db, tar, zst, rebuild, cut, late, queueVars, disk, job, at, nxt, skip,
                 postok, rem, val, vt, fix, left>>

\* The file is locked, and is put off.
DeleteDeferred(f) ==
  /\ at = "delete" /\ f \in ToDelete \cap raw
  /\ Spend("fault")
  /\ todo' = todo \ {f}
  /\ UNCHANGED <<fileVars, queueVars, manVars, job, at, nxt, skip, postok,
                 rem, val, vt, fix>>

\* The batch ends: files left, files that wait for ingest, or nothing left to
\* delete, and then a tar is validated.
DeleteEnds ==
  /\ at = "delete" /\ ToDelete = {}
  /\ todo' = {}
  /\ IF Pending(man) = {} /\ Retryable(man) = {} /\ tar.has
     THEN /\ Goto("validate") /\ val' = [in |-> {}, clear |-> Blocking(man) = {}]
          /\ UNCHANGED <<manVars, ing, q, nxt>>
     ELSE /\ IF Pending(man) # {} THEN Save(man)
             ELSE IF Retryable(man) = {} THEN Save([man EXCEPT !.phase = "done"])
             ELSE IF ShouldHandoff(man) THEN UNCHANGED manVars
             ELSE Save([man EXCEPT !.phase = "complete"])
          /\ HandOff(IF ShouldHandoff(man) THEN Retryable(man) ELSE {})
          /\ Goto(nxt) /\ nxt' = "off"
          /\ UNCHANGED val
  /\ UNCHANGED <<fileVars, wk, job, skip, postok, rem, vt, left>>

\* The deletion is complete, whatever became of the tar.
BatchDone ==
  /\ Save([man EXCEPT !.phase = "done"]) /\ Goto(nxt) /\ nxt' = "off"
  /\ val' = NoValidation

\* remove_verified_uncompressed_daily_tars validates the tar without the lock;
\* one that has no sealed archive is to be sealed first.
BatchValidates ==
  /\ at = "validate" /\ TarSettled("job")
  /\ \/ /\ Valid(Seen("job")) /\ zst = {}
        /\ Goto("autoseal") /\ val' = [val EXCEPT !.in = tar.in]
        /\ UNCHANGED <<manVars, nxt>>
     \/ /\ SealValid(Seen("job")) /\ val.clear
        /\ Goto("batchdrop")
        /\ UNCHANGED <<manVars, nxt, val>>
     \/ /\ ~(Valid(Seen("job")) /\ zst = {}) /\ ~(SealValid(Seen("job")) /\ val.clear)
        /\ BatchDone
  /\ UNCHANGED <<fileVars, queueVars, job, skip, postok, rem, todo, vt, left>>

\* The auto-seal: compressed under the lock, unless the tar broke meanwhile ...
AutoSeals ==
  /\ at = "autoseal"
  /\ IF tar.ok THEN zst' = tar.in /\ Goto("autosealed") /\ UNCHANGED <<manVars, nxt, val>>
     ELSE BatchDone /\ UNCHANGED zst
  /\ UNCHANGED <<raw, gone, db, tar, rebuild, cut, late, queueVars, job, skip, postok, rem,
                 todo, vt, left>>

\* ... or fails ...
AutoSealFails ==
  /\ at = "autoseal" /\ Spend("fault")
  /\ BatchDone
  /\ UNCHANGED <<fileVars, queueVars, job, skip, postok, rem, todo, vt>>

\* ... and the tar removed under a second lock, whatever raw files remain; what
\* was sealed is compared with the tar as it was validated.
AutoSealDrops ==
  /\ at = "autosealed"
  /\ tar' = NoTar
  /\ IF zst = val.in /\ val.clear THEN Goto("batchdrop") /\ UNCHANGED <<manVars, nxt, val>>
     ELSE BatchDone
  /\ UNCHANGED <<raw, gone, db, zst, rebuild, cut, late, queueVars, job, skip, postok, rem,
                 todo, vt, left>>

\* The validated tar, or one that has come since, is removed under the lock.
BatchDrops ==
  /\ at = "batchdrop"
  /\ tar' = NoTar /\ BatchDone
  /\ UNCHANGED <<raw, gone, db, zst, rebuild, cut, late, queueVars, job, skip, postok, rem,
                 todo, vt, left>>

\* After raw_delete: what remains, and a tar that was never sealed.
Settle ==
  /\ at = "settled"
  /\ rem' = ClosedRawRemains(man)
  /\ Goto(IF ~rem' /\ tar.has /\ zst = {} THEN "reseal" ELSE "drop")
  /\ UNCHANGED <<fileVars, queueVars, manVars, job, nxt, skip, postok, todo, val, vt,
                 left>>

\* try_finish_tar_drop_if_ready up to the removal.
TarDrop ==
  /\ at = "drop" /\ TarSettled("job")
  /\ rem' = (rem \/ (postok /\ tar.has /\ zst # {} /\ ClosedRawRemains(man)))
  /\ Goto(IF MayFinishDrop /\ SealValid(Seen("job")) THEN "dropping" ELSE "finish")
  /\ UNCHANGED <<fileVars, queueVars, manVars, job, nxt, skip, postok, todo, val, vt, left>>

\* The tar is dropped and the day answered complete.
TarDropped ==
  /\ at = "dropping"
  /\ tar' = NoTar
  /\ disk' = [man EXCEPT !.phase = "done"]
  /\ EndJob(TRUE, disk')
  /\ UNCHANGED <<raw, gone, db, zst, rebuild, cut, late, queueVars, fix, left>>

\* Complete, and acknowledged; or incomplete_raw, and queued again.
Finish ==
  /\ at = "finish"
  /\ EndJob(~rem /\ Complete, man)
  /\ UNCHANGED <<fileVars, queueVars, disk, fix, left>>

\* The process dies: the leases of its jobs run out, the manifest is on disk.
Crash ==
  /\ Spend("crash")
  /\ JobReset /\ UNCHANGED job
  /\ vt' = NoThread /\ wk' = NoWorker /\ fix' = [t \in Readers |-> "no"]
  /\ q' = IF wk.pc = "idle" THEN q ELSE q \cup {wk.f}
  /\ UNCHANGED <<fileVars, ing, disk>>

-----------------------------------------------------------------------------
Append == (\E f \in Files : AppendClaimed(f)) \/ AppendLooks \/ AppendWrites
          \/ AppendSkips
VerifyThread == VerifyLists \/ Restore("thread") \/ VerifyReads \/ VerifyRecords
DayCloseJob ==
  \/ BeginDayClose \/ AlreadyComplete \/ Yield \/ Restore("job")
  \/ WaitPasses \/ WaitKicks \/ PreSealVerify
  \/ SealSkipped \/ SealDone \/ SealDrops \/ PostSealVerify
  \/ BatchBegins \/ (\E f \in Files : DeleteRaw(f)) \/ DeleteEnds
  \/ BatchValidates \/ AutoSeals \/ AutoSealDrops \/ BatchDrops
  \/ Settle \/ TarDrop \/ TarDropped \/ Finish
Surroundings ==
  \/ \E f \in Files : \/ RawArrives(f) \/ IngestDone(f) \/ IngestGivesUp(f)
                      \/ Discover(f) \/ DeleteDeferred(f)
  \/ EnqueueDayClose \/ AppendBreaks \/ SealFails \/ AutoSealFails \/ Crash

Next == Append \/ VerifyThread \/ DayCloseJob \/ Surroundings

Spec == Init /\ [][Next]_vars

\* Each thread goes on while it can, ingest works its queue off, and the sweep
\* over raw files and archives comes round again.
Fairness ==
  /\ WF_vars(Append) /\ WF_vars(VerifyThread) /\ WF_vars(DayCloseJob)
  /\ WF_vars(\E f \in Files : IngestDone(f)) /\ WF_vars(\E f \in Files : Discover(f))
  /\ WF_vars(EnqueueDayClose)

FairSpec == Spec /\ Fairness

-----------------------------------------------------------------------------
Manifests ==
  [phase : {"verifying", "complete", "deleting", "done"},
   stage : {"none", "pre", "post"},
   e : [Files -> {"none", "verified", "deleted", "retry", "invalid"}]]
Tars == [has : BOOLEAN, ok : BOOLEAN, in : SUBSET Files]
Threads == [pc : {"none", "go", "listed", "classified"}, own : BOOLEAN, m : Manifests,
            ok : BOOLEAN, in : SUBSET Files, paths : SUBSET Files]

\* The values the variables take; a raw file is removed once and for all.
TypeOK ==
  /\ raw \in SUBSET Files /\ gone \in SUBSET Files /\ raw \cap gone = {}
  /\ db \in SUBSET Files /\ ing \in SUBSET Files /\ q \in SUBSET Files
  /\ zst \in SUBSET Files /\ rebuild \in SUBSET Files /\ todo \in SUBSET Files
  /\ val \in [in : SUBSET Files, clear : BOOLEAN]
  /\ fix \in [Readers -> {"no", "begun", "copied", "done", "failed"}]
  /\ \/ wk = NoWorker
     \/ wk \in [pc : {"claimed", "ready"}, f : Files]
  /\ tar \in Tars /\ (~tar.has => tar = NoTar)
  /\ disk \in Manifests /\ man \in Manifests /\ vt \in Threads
  /\ job \in BOOLEAN /\ skip \in BOOLEAN /\ postok \in BOOLEAN /\ rem \in BOOLEAN
  /\ cut \in BOOLEAN /\ late \in BOOLEAN

\* While no append has been cut short, a raw file that a day close removed is
\* in the open tar or in the sealed archive, whatever the threads did since it
\* was verified.
NothingLost == ~cut => gone \subseteq zst \cup tar.in

\* A tar beside a sealed archive holds every member of it, readable or not, so
\* a seal never takes a file out of the archive: neither an append whose look
\* and write straddle the drop of the tar, nor an auto-seal, nor a repair or a
\* restore undoes this, but for a restore that is overtaken by a newer seal.
TarCoversSealed == tar.has /\ ~late => zst \subseteq tar.in

\* A day is answered complete only when its tar has gone and, while no append
\* has been cut short, the removed raw files are in the sealed archive.
CompleteIsSealed ==
  [][job /\ ~job' => ~tar'.has /\ (~cut => gone \subseteq zst')]_vars

\* Once the last file of the day has come in, the sealed archive gets to hold
\* every file of the database, and for good, through yields, hand-offs, failed
\* seals and restarts, unless an append is cut short or an oversized file is
\* left out of the tar again and again.
ReachesSealed ==
  <>[](db \subseteq zst \/ cut) \/ []<><<AppendSkips>>_vars

\* README: "Raw is not deleted until a later pass verifies tar+sealed archive
\* membership."
DeletedIsSealed == [][\A f \in gone' \ gone : f \in zst]_vars
=============================================================================
