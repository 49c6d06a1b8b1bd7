--------------------------- MODULE DayCloseProofs ---------------------------
(***************************************************************************)
(* For any set of files, giant ones among them, and any number of faults,   *)
(* cut appends and restarts: the variables of DayClose keep their types; a  *)
(* tar holds every member of the sealed archive beside it until a restore   *)
(* installs a copy of an earlier one; and as long as no append is cut short *)
(* no raw file is removed that is not in the tar or the sealed archive, and *)
(* no day is answered complete whose removed files are not all sealed.      *)
(***************************************************************************)
EXTENDS DayClose, TLAPS

\* The files a manifest lets go of, or has let go of.
Covered(m) == {f \in Files : m.e[f] \in {"verified", "deleted"}}

Phases == {"verifying", "complete", "deleting", "done"}
Fixes == [Readers -> {"no", "begun", "copied", "done", "failed"}]
Validations == [in : SUBSET Files, clear : BOOLEAN]

-----------------------------------------------------------------------------
(* Manifests.                                                                *)

\* A new manifest is one, and covers nothing.
LEMMA FirstManifests == NewManifest \in Manifests /\ Covered(NewManifest) = {}
BY DEF NewManifest, Manifests, Covered

\* A change of phase or stage leaves the entries alone.
LEMMA PhaseFacts ==
  ASSUME NEW m \in Manifests, NEW p \in Phases
  PROVE  /\ [m EXCEPT !.phase = p] \in Manifests
         /\ Covered([m EXCEPT !.phase = p]) = Covered(m)
BY DEF Manifests, Covered, Phases

\* The same for the two stages of verification.
LEMMA StageFacts ==
  ASSUME NEW m \in Manifests
  PROVE  /\ [m EXCEPT !.stage = "post"] \in Manifests
         /\ [m EXCEPT !.phase = "complete", !.stage = "pre"] \in Manifests
         /\ Covered([m EXCEPT !.stage = "post"]) = Covered(m)
         /\ Covered([m EXCEPT !.phase = "complete", !.stage = "pre"]) = Covered(m)
BY Zenon DEF Manifests, Covered

\* Recording verdicts covers only files whose verdict says verified.
LEMMA RecordFacts ==
  ASSUME NEW m \in Manifests, NEW paths,
         NEW verdict \in [Files -> {"verified", "retry", "invalid"}]
  PROVE  /\ Record(m, paths, verdict) \in Manifests
         /\ Covered(Record(m, paths, verdict))
              \subseteq Covered(m) \cup {f \in Files : verdict[f] = "verified"}
BY DEF Manifests, Covered, Record

\* A file is verified only if the members hold it.
LEMMA VerdictFacts ==
  ASSUME NEW S
  PROVE  /\ Verdict(S) \in [Files -> {"verified", "retry", "invalid"}]
         /\ {f \in Files : Verdict(S)[f] = "verified"} \subseteq S
BY DEF Verdict

\* Reclassification covers only files of the restored tar, and none when
\* nothing is skipped.
LEMMA ReclassifyFacts ==
  ASSUME NEW m \in Manifests
  PROVE  /\ Reclassified(m) \in Manifests
         /\ Reclassified(m).phase = m.phase
         /\ Covered(Reclassified(m)) \subseteq Covered(m) \cup Restored.in
         /\ SkippedPaths(m) = {} => Reclassified(m) = m
<1>1. Reclassified(m) \in Manifests /\ Reclassified(m).phase = m.phase
  BY DEF Manifests, Reclassified
<1>2. Covered(Reclassified(m)) \subseteq Covered(m) \cup Restored.in
  BY DEF Manifests, Reclassified, Covered
<1>3. SkippedPaths(m) = {} => Reclassified(m) = m
  BY DEF Manifests, Reclassified
<1> QED BY <1>1, <1>2, <1>3

\* Deleting one file covers nothing new beyond a verified file.
LEMMA DeleteFacts ==
  ASSUME NEW m \in Manifests, NEW f \in Files
  PROVE  /\ [m EXCEPT !.e[f] = "deleted"] \in Manifests
         /\ Covered([m EXCEPT !.e[f] = "deleted"]) \subseteq Covered(m) \cup {f}
BY DEF Manifests, Covered

-----------------------------------------------------------------------------
(* Archives.                                                                 *)

\* Tars with given members.
LEMMA TarFacts ==
  /\ NoTar \in Tars /\ ~NoTar.has /\ NoTar.ok /\ NoTar.in = {}
  /\ \A S \in SUBSET Files :
       TarOf(S) \in Tars /\ TarOf(S).has /\ TarOf(S).ok /\ TarOf(S).in = S
BY DEF NoTar, TarOf, Tars

\* A thread sees the tar as it is, or as unreadable.
LEMMA SeenFacts ==
  ASSUME TypeOK, NEW t \in Readers
  PROVE  /\ Seen(t) \in Tars /\ Seen(t).has = tar.has /\ Seen(t).in = tar.in
         /\ fix[t] = "no" => Seen(t) = tar
<1>1. fix[t] = "no" => Seen(t) = tar
  BY DEF Seen
<1>2. Seen(t) \in {tar, [tar EXCEPT !.ok = FALSE]}
  BY DEF Seen
<1>3. \A b \in BOOLEAN : /\ [tar EXCEPT !.ok = b] \in Tars
                          /\ [tar EXCEPT !.ok = b].has = tar.has
                          /\ [tar EXCEPT !.ok = b].in = tar.in
  BY DEF TypeOK, Tars
<1> QED BY Zenon, <1>1, <1>2, <1>3 DEF TypeOK

\* Decompressing an absent tar: the tar stays, or comes with the members of the
\* sealed archive; either way it has the members the reader goes by.
LEMMA RestoreFacts ==
  ASSUME TypeOK, Decompressed
  PROVE  /\ tar' \in Tars /\ (~tar'.has => tar' = NoTar)
         /\ tar' = tar \/ (MustDecompress /\ tar' = TarOf(zst))
         /\ rebuild' \in SUBSET Files /\ Restored.in = tar'.in
<1>1. tar \in Tars /\ (~tar.has => tar = NoTar) /\ rebuild \in SUBSET Files
  BY DEF TypeOK
<1>2. TarOf(zst) \in Tars /\ TarOf(zst).has /\ {} \in SUBSET Files
  BY TarFacts DEF TypeOK
<1>3. Seen("job").in = tar.in
  BY Zenon, SeenFacts DEF Readers
<1>4. CASE MustDecompress
  BY Zenon, <1>2, <1>4 DEF Decompressed, Restored
<1>5. CASE ~MustDecompress
  BY Zenon, <1>1, <1>3, <1>5 DEF Decompressed, Restored
<1> QED BY <1>4, <1>5

\* The same for the reclassification of skipped files.
LEMMA ReclassifyTar ==
  ASSUME TypeOK, NEW m, Reclassify(m)
  PROVE  /\ tar' \in Tars /\ (~tar'.has => tar' = NoTar)
         /\ tar' = tar \/ (MustDecompress /\ tar' = TarOf(zst))
         /\ rebuild' \in SUBSET Files
         /\ SkippedPaths(m) # {} => Restored.in = tar'.in
<1>1. tar \in Tars /\ (~tar.has => tar = NoTar) /\ rebuild \in SUBSET Files
  BY DEF TypeOK
<1> QED BY Zenon, <1>1, RestoreFacts DEF Reclassify

\* What is compressed is a tar.
LEMMA SealInputFacts ==
  ASSUME TypeOK, Sealing
  PROVE  /\ SealInput \in Tars /\ (~SealInput.has => SealInput = NoTar)
         /\ SealInput \in {tar, TarOf(tar.in \cup zst), NoTar}
<1>1. SealInput \in {tar, TarOf(tar.in \cup zst), NoTar}
  BY DEF SealInput, Sealing
<1>2. tar \in Tars /\ (~tar.has => tar = NoTar) /\ tar.in \cup zst \in SUBSET Files
  BY DEF TypeOK, Tars
<1> QED BY <1>1, <1>2, TarFacts

-----------------------------------------------------------------------------
(* Types.                                                                    *)

\* No restore under way, and no validation.
LEMMA NoRestore == [t \in Readers |-> "no"] \in Fixes /\ NoValidation \in Validations
BY DEF Fixes, Validations, NoValidation

\* The initial state has the types.
LEMMA TypeInit == Init => TypeOK
<1>1. NoThread \in Threads
  BY FirstManifests DEF NoThread, Threads
<1>2. Init => disk \in Manifests /\ man \in Manifests
  BY FirstManifests DEF Init
<1>3. Init => tar \in Tars /\ (~tar.has => tar = NoTar)
  BY TarFacts DEF Init
<1>4. Init => /\ val \in Validations /\ fix \in Fixes
              /\ zst = {} /\ rebuild = {} /\ wk = NoWorker
  BY Zenon, NoRestore DEF Init
<1> QED BY ZenonT(30), <1>1, <1>2, <1>3, <1>4 DEF Init, TypeOK, Validations, Fixes

\* A hand-off queues files only.
LEMMA HandOffFacts ==
  ASSUME TypeOK, NEW S \in SUBSET Files, HandOff(S)
  PROVE  ing' \in SUBSET Files /\ q' \in SUBSET Files
BY DEF TypeOK, HandOff

\* A verify thread that is started, or left to itself, is a thread.
LEMMA ThreadFacts ==
  ASSUME TypeOK
  PROVE  /\ NoThread \in Threads /\ Started \in Threads
         /\ ThreadManifest \in Manifests
         /\ \A m \in Manifests : [vt EXCEPT !.own = FALSE, !.m = m] \in Threads
<1>1. NoThread \in Threads
  BY FirstManifests DEF NoThread, Threads
<1>2. Started \in Threads
  BY Zenon, <1>1 DEF Started, Threads, TypeOK
<1>3. ThreadManifest \in Manifests
  BY DEF ThreadManifest, Threads, TypeOK
<1>4. \A m \in Manifests : [vt EXCEPT !.own = FALSE, !.m = m] \in Threads
  BY Zenon DEF Threads, TypeOK
<1> QED BY Zenon, <1>1, <1>2, <1>3, <1>4

\* A step of the job to its next stage forgets the restore it went through.
LEMMA GotoFacts ==
  ASSUME TypeOK
  PROVE  /\ [fix EXCEPT !["job"] = "no"] \in Fixes
         /\ \A t \in Readers, v \in {"begun", "copied", "done", "failed"} :
              [fix EXCEPT ![t] = v] \in Fixes
         /\ [fix EXCEPT !["thread"] = "no"] \in Fixes
         /\ [t \in Readers |-> "no"] \in Fixes
         /\ NoValidation \in Validations
         /\ \A b \in BOOLEAN : [in |-> {}, clear |-> b] \in Validations
BY DEF TypeOK, Fixes, Validations, Readers, NoValidation

\* The end of a batch.
LEMMA BatchDoneFacts ==
  ASSUME TypeOK, BatchDone
  PROVE  /\ man' \in Manifests /\ disk' = man' /\ Covered(man') = Covered(man)
         /\ val' \in Validations /\ fix' \in Fixes
         /\ at' = nxt /\ nxt' = "off" /\ fix' = [fix EXCEPT !["job"] = "no"]
BY Zenon, PhaseFacts, GotoFacts DEF TypeOK, BatchDone, Save, Goto, Phases

\* The surroundings and the append worker keep the types.
LEMMA TypeOutside ==
  ASSUME TypeOK, Append \/ Surroundings, ~AutoSealFails
  PROVE  TypeOK'
<1> USE DEF fileVars, queueVars, manVars, jobVars
<1>1. ASSUME NEW f \in Files, RawArrives(f) PROVE TypeOK'
  BY <1>1 DEF TypeOK, RawArrives
<1>2. ASSUME NEW f \in Files, IngestDone(f) PROVE TypeOK'
  BY <1>2 DEF TypeOK, IngestDone
<1>3. ASSUME NEW f \in Files, IngestGivesUp(f) PROVE TypeOK'
  BY <1>3 DEF TypeOK, IngestGivesUp
<1>4. ASSUME NEW f \in Files, Discover(f) PROVE TypeOK'
  BY <1>4 DEF TypeOK, Discover
<1>5. ASSUME NEW f \in Files, DeleteDeferred(f) PROVE TypeOK'
  BY <1>5 DEF TypeOK, DeleteDeferred
<1>6. ASSUME EnqueueDayClose PROVE TypeOK'
  BY <1>6 DEF TypeOK, EnqueueDayClose
<1>7. ASSUME NEW f \in Files, AppendClaimed(f) PROVE TypeOK'
  BY <1>7 DEF TypeOK, AppendClaimed
<1>8. ASSUME AppendLooks PROVE TypeOK'
  <2>1. /\ tar' \in Tars /\ (~tar'.has => tar' = NoTar)
        /\ rebuild' \in SUBSET Files
    <3>1. [tar EXCEPT !.ok = TRUE] \in Tars /\ [tar EXCEPT !.ok = TRUE].has = tar.has
      BY Zenon DEF TypeOK, Tars
    <3> QED BY Zenon, <1>8, <3>1, RestoreFacts DEF TypeOK, AppendLooks
  <2>2. wk' = NoWorker \/ wk' \in [pc : {"claimed", "ready"}, f : Files]
    BY <1>8 DEF TypeOK, AppendLooks, NoWorker
  <2>3. q' \in SUBSET Files
    BY <1>8 DEF TypeOK, AppendLooks, NoWorker
  <2> QED BY <1>8, <2>1, <2>2, <2>3 DEF TypeOK, AppendLooks
<1>9. ASSUME AppendWrites PROVE TypeOK'
  <2>1. wk.f \in Files
    BY <1>9 DEF TypeOK, AppendWrites, NoWorker
  <2>2. tar.in \cup {wk.f} \in SUBSET Files
    BY <2>1 DEF TypeOK, Tars
  <2>3. tar' \in Tars /\ (~tar'.has => tar' = NoTar)
    BY <1>9, <2>2, TarFacts DEF TypeOK, AppendWrites
  <2> QED BY <1>9, <2>1, <2>3 DEF TypeOK, AppendWrites
<1>10. ASSUME AppendBreaks PROVE TypeOK'
  <2>1. wk.f \in Files /\ tar.in \in SUBSET Files
    BY <1>10 DEF TypeOK, AppendBreaks, Tars
  <2>2. tar' \in Tars /\ tar'.has
    BY Zenon, <1>10, <2>1, TarFacts DEF AppendBreaks, Tars
  <2> QED BY <1>10, <2>1, <2>2 DEF TypeOK, AppendBreaks
<1>11. ASSUME SealFails PROVE TypeOK'
  <2>1. tar' \in Tars /\ (~tar'.has => tar' = NoTar)
    BY Zenon, <1>11, SealInputFacts DEF SealFails
  <2>2. fix' \in Fixes
    BY Zenon, <1>11, GotoFacts DEF SealFails, Goto
  <2> QED BY Zenon, <1>11, <2>1, <2>2 DEF TypeOK, SealFails, Fixes
<1>13. ASSUME AppendSkips PROVE TypeOK'
  BY Zenon, <1>13 DEF TypeOK, AppendSkips
<1>12. ASSUME Crash PROVE TypeOK'
  <2>1. q' \in SUBSET Files
    BY <1>12 DEF TypeOK, Crash, NoWorker
  <2> QED BY Zenon, <1>12, <2>1, FirstManifests, ThreadFacts, GotoFacts
             DEF TypeOK, Crash, JobReset, Fixes, Validations
<1> QED
  BY <1>1, <1>2, <1>3, <1>4, <1>5, <1>6, <1>7, <1>8, <1>9, <1>10, <1>11, <1>12,
     <1>13 DEF Append, Surroundings

\* The restore of an unreadable tar keeps the types.
LEMMA TypeRestore ==
  ASSUME TypeOK, NEW t \in Readers, Restore(t)
  PROVE  TypeOK'
<1> USE DEF fileVars, queueVars, manVars, jobVars
<1>1. fix' \in Fixes
  BY Zenon, GotoFacts DEF Restore, RestoreBegins, RestoreCopies, RestoreReplaces
<1>2. rebuild' \in SUBSET Files
  BY DEF TypeOK, Restore, RestoreBegins, RestoreCopies, RestoreReplaces
<1>3. tar' \in Tars /\ (~tar'.has => tar' = NoTar)
  <2>1. tar' \in {tar, TarOf(rebuild)}
    BY Zenon DEF Restore, RestoreBegins, RestoreCopies, RestoreReplaces
  <2>2. tar \in Tars /\ (~tar.has => tar = NoTar) /\ rebuild \in SUBSET Files
    BY Zenon DEF TypeOK
  <2>3. TarOf(rebuild) \in Tars /\ TarOf(rebuild).has
    BY Zenon, <2>2, TarFacts
  <2> QED BY Zenon, <2>1, <2>2, <2>3
<1>4. late' \in BOOLEAN
  BY Zenon DEF TypeOK, Restore, RestoreBegins, RestoreCopies, RestoreReplaces
<1> QED
  BY Zenon, <1>1, <1>2, <1>3, <1>4
     DEF TypeOK, Fixes, Restore, RestoreBegins, RestoreCopies, RestoreReplaces

\* The verify thread keeps the types.
LEMMA TypeThread ==
  ASSUME TypeOK, VerifyThread
  PROVE  TypeOK'
<1> USE DEF fileVars, queueVars, manVars, jobVars
<1>1. ASSUME VerifyReads PROVE TypeOK'
  <2>1. SealValid(Seen("thread")) \in BOOLEAN
    BY DEF SealValid
  <2>2. \A b \in BOOLEAN :
          [vt EXCEPT !.pc = "classified", !.ok = b, !.in = zst] \in Threads
    BY Zenon DEF TypeOK, Threads
  <2>3. vt' \in Threads /\ fix' \in Fixes
    BY Zenon, <1>1, <2>1, <2>2, GotoFacts DEF VerifyReads
  <2> QED BY <1>1, <2>3 DEF TypeOK, VerifyReads, Fixes
<1>3. ASSUME VerifyLists PROVE TypeOK'
  <2>1. \A pc \in {"classified", "listed"} :
          [vt EXCEPT !.pc = pc, !.paths = raw] \in Threads
    BY Zenon DEF TypeOK, Threads
  <2>2. vt' \in Threads
    BY Zenon, <1>3, <2>1, ThreadFacts DEF VerifyLists
  <2> QED BY Zenon, <1>3, <2>2 DEF TypeOK, VerifyLists
<1>2. ASSUME VerifyRecords PROVE TypeOK'
  <2> DEFINE verdict == IF vt.ok THEN Verdict(vt.in) ELSE [f \in Files |-> "invalid"]
             r == Record(ThreadManifest, vt.paths, verdict)
             m == [r EXCEPT !.phase = "complete"]
             S == IF ShouldHandoff(m) THEN Retryable(m) ELSE {}
  <2>1. verdict \in [Files -> {"verified", "retry", "invalid"}]
    BY VerdictFacts
  <2>2. r \in Manifests
    BY Zenon, <2>1, ThreadFacts, RecordFacts
  <2>3. m \in Manifests
    BY Zenon, <2>2, PhaseFacts DEF Phases
  <2>4. disk' = m /\ man' \in {m, man} /\ HandOff(S) /\ vt' = NoThread
    BY <1>2 DEF VerifyRecords
  <2>5. S \in SUBSET Files
    BY DEF Retryable, Listed, TypeOK
  <2> HIDE DEF m, S
  <2>6. ing' \in SUBSET Files /\ q' \in SUBSET Files
    BY <2>4, <2>5, HandOffFacts
  <2>7. man' \in Manifests /\ disk' \in Manifests /\ vt' \in Threads
    <3>1. man \in Manifests
      BY Zenon DEF TypeOK
    <3> QED BY Zenon, <2>3, <2>4, <3>1, ThreadFacts
  <2> QED BY Zenon, <1>2, <2>6, <2>7 DEF TypeOK, VerifyRecords
<1> QED BY <1>1, <1>2, <1>3, TypeRestore DEF VerifyThread, Readers

\* The job's steps before the seal keep the types.
LEMMA TypeBefore ==
  ASSUME TypeOK,
         BeginDayClose \/ AlreadyComplete \/ Yield \/ WaitPasses \/ WaitKicks
           \/ PreSealVerify
  PROVE  TypeOK'
<1> USE DEF fileVars, queueVars, manVars, jobVars
<1>1. ASSUME BeginDayClose PROVE TypeOK'
  BY <1>1, GotoFacts DEF TypeOK, BeginDayClose, Goto, Fixes
<1>2. ASSUME AlreadyComplete PROVE TypeOK'
  BY Zenon, <1>2 DEF TypeOK, AlreadyComplete
<1>3. ASSUME Yield PROVE TypeOK'
  BY Zenon, <1>3, ThreadFacts, FirstManifests, GotoFacts
     DEF TypeOK, Yield, EndJob, JobReset, Validations
<1>4. ASSUME WaitPasses PROVE TypeOK'
  BY Zenon, <1>4, GotoFacts DEF TypeOK, WaitPasses, Goto, DoneAndSealed, Fixes
<1>5. ASSUME WaitKicks PROVE TypeOK'
  <2> DEFINE up == Reclassified(man)
  <2>1. /\ tar' \in Tars /\ (~tar'.has => tar' = NoTar)
        /\ rebuild' \in SUBSET Files
    BY Zenon, <1>5, RestoreFacts DEF TypeOK, WaitKicks
  <2>2. up \in Manifests
    BY ReclassifyFacts DEF TypeOK
  <2>3. /\ [man EXCEPT !.phase = "deleting"] \in Manifests
        /\ [up EXCEPT !.phase = "deleting"] \in Manifests
    BY Zenon, <2>2, PhaseFacts DEF Phases, TypeOK
  <2>4. man' \in Manifests /\ disk' \in Manifests
    BY Zenon, <1>5, <2>3 DEF TypeOK, WaitKicks, Save
  <2>5. Retryable(man) \in SUBSET Files
    BY DEF Retryable, Listed, TypeOK
  <2>6. ing' \in SUBSET Files /\ q' \in SUBSET Files
    BY Zenon, <1>5, <2>5, HandOffFacts DEF WaitKicks, TypeOK
  <2>7. vt' \in Threads
    BY Zenon, <1>5, ThreadFacts DEF TypeOK, WaitKicks
  <2>8. fix' \in Fixes
    BY Zenon, <1>5, GotoFacts DEF WaitKicks, Goto
  <2> QED BY Zenon, <1>5, <2>1, <2>4, <2>6, <2>7, <2>8 DEF TypeOK, WaitKicks, Fixes
<1>6. ASSUME PreSealVerify PROVE TypeOK'
  <2> DEFINE named == Listed(man) \cup (raw \cap Restored.in)
             paths == IF named = {} THEN raw ELSE named
             m == Record(man, paths, Verdict(Restored.in))
  <2>1. /\ tar' \in Tars /\ (~tar'.has => tar' = NoTar)
        /\ rebuild' \in SUBSET Files
    BY Zenon, <1>6, RestoreFacts DEF TypeOK, PreSealVerify
  <2>2. m \in Manifests
    BY Zenon, VerdictFacts, RecordFacts DEF TypeOK
  <2>3. [m EXCEPT !.phase = "complete", !.stage = "pre"] \in Manifests
    BY Zenon, <2>2, StageFacts
  <2>4. man' \in Manifests /\ disk' \in Manifests
    BY <1>6, <2>3 DEF TypeOK, PreSealVerify, Save
  <2>5. fix' \in Fixes
    BY Zenon, <1>6, GotoFacts DEF PreSealVerify, Goto
  <2> QED BY Zenon, <1>6, <2>1, <2>4, <2>5 DEF TypeOK, PreSealVerify, Fixes
<1> QED BY <1>1, <1>2, <1>3, <1>4, <1>5, <1>6

\* The job's steps from the seal on keep the types.
LEMMA TypeAfter ==
  ASSUME TypeOK,
         \/ SealSkipped \/ SealDone \/ SealDrops \/ PostSealVerify \/ BatchBegins
         \/ (\E f \in Files : DeleteRaw(f)) \/ DeleteEnds \/ Settle
         \/ TarDrop \/ TarDropped \/ Finish
  PROVE  TypeOK'
<1> USE DEF fileVars, queueVars, manVars, jobVars
<1>1. ASSUME SealSkipped PROVE TypeOK'
  <2>1. tar' \in Tars /\ (~tar'.has => tar' = NoTar)
    BY Zenon, <1>1, SealInputFacts DEF TypeOK, SealSkipped
  <2>2. fix' \in Fixes
    BY Zenon, <1>1, GotoFacts DEF SealSkipped, Goto
  <2> QED BY Zenon, <1>1, <2>1, <2>2 DEF TypeOK, SealSkipped, Fixes
<1>2. ASSUME SealDone PROVE TypeOK'
  <2>1. SealInput.in \in SUBSET Files
    BY <1>2, SealInputFacts DEF SealDone, Tars
  <2>2. tar' \in Tars /\ (~tar'.has => tar' = NoTar)
    BY Zenon, <1>2, SealInputFacts DEF SealDone
  <2>3. fix' \in Fixes
    BY Zenon, <1>2, GotoFacts DEF SealDone, Goto
  <2> QED BY Zenon, <1>2, <2>1, <2>2, <2>3 DEF TypeOK, SealDone, Fixes
<1>3. ASSUME SealDrops PROVE TypeOK'
  BY Zenon, <1>3, TarFacts, GotoFacts DEF TypeOK, SealDrops, Goto, Fixes
<1>4. ASSUME PostSealVerify PROVE TypeOK'
  <2>1. man' \in Manifests /\ disk' \in Manifests
    <3>1. man \in Manifests /\ disk \in Manifests
      BY DEF TypeOK
    <3>2. [man EXCEPT !.stage = "post"] \in Manifests
      BY Zenon, <3>1, StageFacts
    <3> QED BY Zenon, <1>4, <3>1, <3>2 DEF PostSealVerify, Save
  <2>2. postok' \in BOOLEAN /\ fix' \in Fixes
    BY Zenon, <1>4, SeenFacts, GotoFacts
       DEF PostSealVerify, SealValid, TypeOK, Tars, Goto, Readers
  <2> QED BY Zenon, <1>4, <2>1, <2>2 DEF TypeOK, PostSealVerify, Fixes
<1>5. ASSUME BatchBegins PROVE TypeOK'
  <2> DEFINE m == Reopened(man)
             up == Reclassified(m)
  <2>1. m \in Manifests
    BY Zenon, PhaseFacts DEF TypeOK, Phases, Reopened
  <2>2. up \in Manifests
    BY <2>1, ReclassifyFacts
  <2>3. [up EXCEPT !.phase = "deleting"] \in Manifests
    BY Zenon, <2>2, PhaseFacts DEF Phases
  <2>4. man' \in Manifests /\ disk' \in Manifests
    BY Zenon, <1>5, <2>2, <2>3 DEF BatchBegins, TypeOK
  <2>5. /\ tar' \in Tars /\ (~tar'.has => tar' = NoTar)
        /\ rebuild' \in SUBSET Files
    BY Zenon, <1>5, ReclassifyTar DEF BatchBegins
  <2>6. vt' \in Threads /\ todo' \in SUBSET Files /\ fix' \in Fixes
    BY Zenon, <1>5, ThreadFacts, GotoFacts DEF TypeOK, BatchBegins, Goto
  <2> QED BY Zenon, <1>5, <2>4, <2>5, <2>6 DEF TypeOK, BatchBegins, Fixes
<1>6. ASSUME NEW f \in Files, DeleteRaw(f) PROVE TypeOK'
  BY <1>6, DeleteFacts DEF TypeOK, DeleteRaw
<1>7. ASSUME DeleteEnds PROVE TypeOK'
  <2>1. /\ [man EXCEPT !.phase = "done"] \in Manifests
        /\ [man EXCEPT !.phase = "complete"] \in Manifests
    BY Zenon, PhaseFacts DEF Phases, TypeOK
  <2>2. man' \in Manifests /\ disk' \in Manifests
    BY Zenon, <1>7, <2>1 DEF TypeOK, DeleteEnds, Save
  <2>3. Retryable(man) \in SUBSET Files
    BY DEF Retryable, Listed, TypeOK
  <2>4. ing' \in SUBSET Files /\ q' \in SUBSET Files
    BY Zenon, <1>7, <2>3, HandOffFacts DEF DeleteEnds, TypeOK
  <2>5. fix' \in Fixes /\ val' \in Validations
    BY Zenon, <1>7, GotoFacts DEF TypeOK, DeleteEnds, Goto, Validations
  <2> QED BY Zenon, <1>7, <2>2, <2>4, <2>5 DEF TypeOK, DeleteEnds, Fixes, Validations
<1>9. ASSUME Settle PROVE TypeOK'
  BY Zenon, <1>9, GotoFacts DEF TypeOK, Settle, ClosedRawRemains, Goto, Fixes
<1>10. ASSUME TarDrop PROVE TypeOK'
  BY Zenon, <1>10, GotoFacts DEF TypeOK, TarDrop, ClosedRawRemains, Goto, Fixes
<1>11. ASSUME TarDropped PROVE TypeOK'
  <2>1. [man EXCEPT !.phase = "done"] \in Manifests
    BY Zenon, PhaseFacts DEF Phases, TypeOK
  <2> QED BY Zenon, <1>11, <2>1, TarFacts, FirstManifests, ThreadFacts, GotoFacts
             DEF TypeOK, TarDropped, EndJob, JobReset, Validations
<1>12. ASSUME Finish PROVE TypeOK'
  BY Zenon, <1>12, FirstManifests, ThreadFacts, GotoFacts
     DEF TypeOK, Finish, EndJob, JobReset, Complete, Validations
<1> QED
  BY Zenon, <1>1, <1>2, <1>3, <1>4, <1>5, <1>6, <1>7, <1>9, <1>10, <1>11, <1>12

\* So do the steps that validate, auto-seal and drop the tar of a batch.
LEMMA TypeValidation ==
  ASSUME TypeOK,
         BatchValidates \/ AutoSeals \/ AutoSealFails \/ AutoSealDrops \/ BatchDrops
  PROVE  TypeOK'
<1> USE DEF fileVars, queueVars, manVars, jobVars
<1>1. man' \in Manifests /\ disk' \in Manifests
  BY Zenon, BatchDoneFacts
     DEF TypeOK, BatchValidates, AutoSeals, AutoSealFails, AutoSealDrops, BatchDrops
<1>2. fix' \in Fixes
  BY Zenon, BatchDoneFacts, GotoFacts
     DEF BatchValidates, AutoSeals, AutoSealFails, AutoSealDrops, BatchDrops, Goto
<1>3. tar.in \in SUBSET Files
  BY DEF TypeOK, Tars
<1>4. [val EXCEPT !.in = tar.in] \in Validations
  BY <1>3 DEF TypeOK, Validations
<1>5. val' \in Validations
  BY Zenon, <1>4, BatchDoneFacts
     DEF TypeOK, BatchValidates, AutoSeals, AutoSealFails, AutoSealDrops, BatchDrops,
         Validations
<1>6. tar' \in {tar, NoTar} /\ zst' \in {zst, tar.in}
  BY Zenon DEF BatchValidates, AutoSeals, AutoSealFails, AutoSealDrops, BatchDrops
<1>7. tar' \in Tars /\ (~tar'.has => tar' = NoTar) /\ zst' \in SUBSET Files
  BY Zenon, <1>3, <1>6, TarFacts DEF TypeOK
<1> QED
  BY Zenon, <1>1, <1>2, <1>5, <1>7
     DEF TypeOK, BatchValidates, AutoSeals, AutoSealFails, AutoSealDrops, BatchDrops,
         Validations, Fixes

\* The variables keep their types, and a raw file that was removed stays so.
THEOREM TypeCorrect == Spec => []TypeOK
<1>1. TypeOK /\ [Next]_vars => TypeOK'
  <2>1. TypeOK /\ UNCHANGED vars => TypeOK'
    BY DEF TypeOK, vars, fileVars, queueVars, manVars, jobVars
  <2> QED BY Zenon, <2>1, TypeOutside, TypeThread, TypeRestore, TypeBefore, TypeAfter,
             TypeValidation DEF Next, DayCloseJob, Readers
<1> QED BY <1>1, TypeInit, PTL DEF Spec

-----------------------------------------------------------------------------
(* The tar and the sealed archive.                                           *)

\* The strengthening: a tar without a member is an unreadable one, left by an
\* append that was cut short before anything was sealed.
Covers ==
  /\ TarCoversSealed
  /\ tar.has /\ tar.in = {} => ~tar.ok /\ zst = {}

\* The steps that leave the sealed archive alone, if the tar stays, goes, or is
\* decompressed.
LEMMA CoversKept ==
  ASSUME TypeOK, Covers, zst' = zst, late' = late,
         tar' \in {tar, NoTar} \/ (MustDecompress /\ tar' = TarOf(zst))
  PROVE  Covers'
<1>1. TarOf(zst).has /\ TarOf(zst).in = zst
  BY Zenon, TarFacts DEF TypeOK
<1>2. CASE tar' = tar
  BY Zenon, <1>2 DEF Covers, TarCoversSealed
<1>3. CASE tar' = NoTar
  BY Zenon, <1>3, TarFacts DEF Covers, TarCoversSealed
<1>4. CASE MustDecompress /\ tar' = TarOf(zst)
  BY Zenon, <1>1, <1>4 DEF Covers, TarCoversSealed, MustDecompress
<1> QED BY Zenon, <1>2, <1>3, <1>4

\* A restore puts the sealed archive in the place of the tar, or is noted.
LEMMA CoversRestore ==
  ASSUME TypeOK, Covers, NEW t \in Readers, Restore(t)
  PROVE  Covers'
<1>1. CASE RestoreBegins(t) \/ RestoreCopies(t)
  BY Zenon, <1>1, CoversKept DEF RestoreBegins, RestoreCopies
<1>2. CASE RestoreReplaces(t) /\ rebuild = {}
  BY Zenon, <1>2, CoversKept DEF RestoreReplaces, TypeOK
<1>3. CASE RestoreReplaces(t) /\ rebuild # {}
  <2>1. tar' = TarOf(rebuild) /\ zst' = zst /\ (~late' => rebuild = zst)
    BY Zenon, <1>3 DEF RestoreReplaces
  <2>2. tar'.in = rebuild
    BY Zenon, <2>1, TarFacts DEF TypeOK
  <2> QED BY Zenon, <1>3, <2>1, <2>2 DEF Covers, TarCoversSealed
<1> QED BY Zenon, <1>1, <1>2, <1>3 DEF Restore

\* The append worker keeps a sealed archive complete in the tar it writes.
LEMMA CoversAppend ==
  ASSUME TypeOK, Covers, Append \/ AppendBreaks
  PROVE  Covers'
<1> USE DEF fileVars, queueVars, manVars, jobVars
<1>1. ASSUME NEW f \in Files, AppendClaimed(f) PROVE Covers'
  BY Zenon, <1>1, CoversKept DEF AppendClaimed
<1>2. ASSUME AppendSkips PROVE Covers'
  BY Zenon, <1>2, CoversKept DEF AppendSkips
<1>3. ASSUME AppendLooks PROVE Covers'
  <2>1. zst' = zst /\ late' = late
    BY Zenon, <1>3 DEF AppendLooks
  <2>2. CASE tar.has /\ ~(~tar.ok /\ tar.in = {}) /\ tar' = [tar EXCEPT !.ok = TRUE]
    <3>1. tar'.has = tar.has /\ tar'.in = tar.in
      BY Zenon, <2>2 DEF TypeOK, Tars
    <3> QED BY Zenon, <2>1, <2>2, <3>1 DEF Covers, TarCoversSealed
  <2>3. CASE tar' = tar \/ Decompressed
    BY Zenon, <2>1, <2>3, CoversKept DEF Decompressed
  <2> QED BY Zenon, <1>3, <2>2, <2>3 DEF AppendLooks
<1>4. tar.in \in SUBSET Files
  BY DEF TypeOK, Tars
<1>5. ~Refused => late \/ zst \subseteq tar.in
  BY Zenon DEF Refused, Covers, TarCoversSealed
<1>6. ASSUME AppendWrites PROVE Covers'
  <2>1. /\ zst' = zst /\ late' = late
        /\ tar' = tar \/ (~Refused /\ tar' = TarOf(tar.in \cup {wk.f}))
    BY Zenon, <1>6 DEF AppendWrites
  <2>2. tar.in \cup {wk.f} \in SUBSET Files
    BY <1>4, <1>6 DEF AppendWrites, TypeOK, NoWorker
  <2>3. TarOf(tar.in \cup {wk.f}).in = tar.in \cup {wk.f}
    BY Zenon, <2>2, TarFacts
  <2>4. CASE ~Refused /\ tar' = TarOf(tar.in \cup {wk.f})
    BY Zenon, <1>5, <2>1, <2>3, <2>4 DEF Covers, TarCoversSealed
  <2> QED BY Zenon, <2>1, <2>4, CoversKept
<1>7. ASSUME AppendBreaks PROVE Covers'
  <2>1. zst' = zst /\ late' = late /\ ~Refused
    BY Zenon, <1>7 DEF AppendBreaks
  <2>2. tar'.in = tar.in /\ ~tar'.ok
    BY <1>4, <1>7, TarFacts DEF AppendBreaks, Tars
  <2>3. tar.in = {} => zst = {}
    BY Zenon, <2>1 DEF Refused, Covers
  <2> QED BY Zenon, <1>5, <2>1, <2>2, <2>3 DEF Covers, TarCoversSealed
<1> QED BY Zenon, <1>1, <1>2, <1>3, <1>6, <1>7 DEF Append

\* The seal replaces the archive by one that holds it, and keeps the tar equal.
LEMMA CoversSeal ==
  ASSUME TypeOK, Covers, SealSkipped \/ SealDone \/ SealFails
  PROVE  Covers'
<1>1. tar.in \cup zst \in SUBSET Files
  BY DEF TypeOK, Tars
<1>2. Sealing
  BY Zenon DEF SealSkipped, SealDone, SealFails
<1>3. late' = late
  BY Zenon DEF SealSkipped, SealDone, SealFails
<1>4. SealInput \in {tar, NoTar} \/ SealInput = TarOf(tar.in \cup zst)
  BY Zenon, <1>2, SealInputFacts
<1>5. CASE SealInput = TarOf(tar.in \cup zst) /\ (tar' = SealInput \/ zst' # zst)
  <2>1. SealInput.in = tar.in \cup zst
    BY Zenon, <1>1, <1>5, TarFacts
  <2>2. tar' = SealInput /\ zst' \in {zst, SealInput.in}
    BY Zenon, <1>5 DEF SealSkipped, SealDone, SealFails
  <2>3. CASE tar.in \cup zst # {}
    BY <2>1, <2>2, <2>3 DEF Covers, TarCoversSealed
  <2>4. CASE tar.in \cup zst = {}
    <3>1. ~(tar.has /\ (tar.ok \/ tar.in # {}))
      BY <2>4 DEF Covers
    <3>2. SealInput \in {tar, NoTar}
      BY Zenon, <1>2, <3>1 DEF SealInput, Sealing
    <3> QED BY Zenon, <1>5, <2>1, <2>2, <2>4, <3>1, <3>2, TarFacts DEF Covers, TarCoversSealed
  <2> QED BY Zenon, <2>3, <2>4
<1>6. CASE SealInput \in {tar, NoTar} \/ ~(tar' = SealInput \/ zst' # zst)
  <2>1. CASE zst' = zst
    <3>1. tar' \in {tar, NoTar}
      BY Zenon, <1>6, <2>1 DEF SealSkipped, SealDone, SealFails
    <3> QED BY Zenon, <1>3, <2>1, <3>1, CoversKept
  <2>2. CASE zst' # zst
    <3>1. /\ zst' = SealInput.in /\ tar' = SealInput /\ SealInput.has /\ SealInput.ok
          /\ SealInput \in {tar, NoTar}
      BY Zenon, <1>6, <2>2 DEF SealSkipped, SealDone, SealFails, SealsNothing
    <3> QED BY Zenon, <3>1, TarFacts DEF Covers, TarCoversSealed
  <2> QED BY Zenon, <2>1, <2>2
<1> QED BY Zenon, <1>4, <1>5, <1>6

\* The validation of a batch seals a tar as it is, or removes it.
LEMMA CoversValidation ==
  ASSUME TypeOK, Covers,
         BatchValidates \/ AutoSeals \/ AutoSealFails \/ AutoSealDrops \/ BatchDrops
  PROVE  Covers'
<1> USE DEF fileVars, queueVars, manVars, jobVars
<1>1. CASE AutoSeals /\ tar.ok
  <2>1. zst' = tar.in /\ tar' = tar
    BY Zenon, <1>1 DEF AutoSeals
  <2> QED BY Zenon, <1>1, <2>1 DEF Covers, TarCoversSealed
<1>2. CASE ~(AutoSeals /\ tar.ok)
  <2>1. zst' = zst /\ late' = late /\ tar' \in {tar, NoTar}
    BY Zenon, <1>2 DEF BatchValidates, AutoSeals, AutoSealFails, AutoSealDrops, BatchDrops
  <2> QED BY Zenon, <2>1, CoversKept
<1> QED BY Zenon, <1>1, <1>2

\* The strengthened invariant is inductive.
LEMMA CoversInvariant == Spec => []Covers
<1>1. TypeOK /\ Covers /\ [Next]_vars => Covers'
  <2> SUFFICES ASSUME TypeOK, Covers, [Next]_vars PROVE Covers'
    OBVIOUS
  <2> USE DEF fileVars, queueVars, manVars, jobVars
  <2>1. CASE UNCHANGED vars
    BY Zenon, <2>1, CoversKept DEF vars
  <2>2. CASE VerifyThread
    <3>1. CASE VerifyLists \/ VerifyReads \/ VerifyRecords
      BY Zenon, <3>1, CoversKept DEF VerifyLists, VerifyReads, VerifyRecords
    <3> QED BY Zenon, <2>2, <3>1, CoversRestore DEF VerifyThread, Readers
  <2>3. CASE Append \/ AppendBreaks
    BY Zenon, <2>3, CoversAppend
  <2>4. CASE SealSkipped \/ SealDone \/ SealFails
    BY Zenon, <2>4, CoversSeal
  <2>5. CASE BeginDayClose \/ AlreadyComplete \/ Yield \/ WaitPasses
    BY Zenon, <2>5, CoversKept DEF BeginDayClose, AlreadyComplete, Yield, WaitPasses
  <2>6. CASE WaitKicks \/ PreSealVerify
    BY Zenon, <2>6, CoversKept DEF WaitKicks, PreSealVerify, Decompressed
  <2>7. CASE SealDrops \/ PostSealVerify \/ (\E f \in Files : DeleteRaw(f)) \/ DeleteEnds
    BY Zenon, <2>7, CoversKept DEF SealDrops, PostSealVerify, DeleteRaw, DeleteEnds
  <2>8. CASE BatchBegins
    BY Zenon, <2>8, CoversKept, ReclassifyTar DEF BatchBegins
  <2>9. CASE BatchValidates \/ AutoSeals \/ AutoSealFails \/ AutoSealDrops \/ BatchDrops
    BY Zenon, <2>9, CoversValidation
  <2>10. CASE Settle \/ TarDrop \/ TarDropped \/ Finish \/ EnqueueDayClose \/ Crash
    BY Zenon, <2>10, CoversKept
       DEF Settle, TarDrop, TarDropped, Finish, EnqueueDayClose, Crash
  <2>11. CASE \E f \in Files : \/ RawArrives(f) \/ IngestDone(f) \/ IngestGivesUp(f)
                               \/ Discover(f) \/ DeleteDeferred(f)
    BY Zenon, <2>11, CoversKept
       DEF RawArrives, IngestDone, IngestGivesUp, Discover, DeleteDeferred
  <2>12. CASE Restore("job")
    BY Zenon, <2>12, CoversRestore DEF Readers
  <2> QED
    BY Zenon, <2>1, <2>2, <2>3, <2>4, <2>5, <2>6, <2>7, <2>8, <2>9, <2>10, <2>11, <2>12
       DEF Next, DayCloseJob, Surroundings
<1>2. Init => Covers
  BY Zenon, TarFacts DEF Init, Covers, TarCoversSealed
<1> QED BY <1>1, <1>2, TypeCorrect, PTL DEF Spec

\* A tar beside a sealed archive holds every member of it, whatever the appends,
\* seals, auto-seals and restores of the threads did, until a restore installs a
\* copy of an earlier sealed archive: no seal before takes a file out of it.
THEOREM SealsOnlyAdd == Spec => []TarCoversSealed
<1>1. Covers => TarCoversSealed
  BY DEF Covers
<1> QED BY <1>1, CoversInvariant, PTL
-----------------------------------------------------------------------------
(* What has been let go of is archived.                                      *)

\* The raw files a day close removed, or may remove on some manifest's word.
LetGo == gone \cup Covered(disk) \cup Covered(man) \cup Covered(vt.m)

\* The stages at which the job is about to remove the tar.
Dropping == {"sealed", "autosealed", "batchdrop", "dropping"}

\* The strengthening: the manifests, the thread's included, speak only of
\* archived files, and where the tar is about to go, of sealed ones.  Nothing is
\* restored unless an append was cut short, and nothing is sealed between the
\* validation of a batch and its auto-seal.
Archives ==
  /\ nxt \notin Dropping \cup {"autoseal"}
  /\ at = "autoseal" => zst = {}
  /\ ~cut => /\ tar.ok /\ (\A t \in Readers : fix[t] = "no")
             /\ LetGo \subseteq zst \cup tar.in /\ vt.in \subseteq zst
             /\ at \in Dropping => LetGo \subseteq zst

\* The same in the next state.
LEMMA LetGoNext ==
  LetGo' = gone' \cup Covered(disk') \cup Covered(man') \cup Covered(vt'.m)
BY DEF LetGo, Covered

\* A step that does not seal and does not come to a dropping stage keeps it, if
\* the tar is kept or restored and what it lets go of is archived.
LEMMA ArchivesKept ==
  ASSUME TypeOK, Archives, cut' = cut, zst' = zst, nxt' \notin Dropping \cup {"autoseal"},
         ~cut /\ tar.ok /\ (\A t \in Readers : fix[t] = "no") =>
           /\ tar'.ok /\ (\A t \in Readers : fix'[t] = "no")
           /\ tar.in \subseteq zst \cup tar'.in
           /\ LetGo' \subseteq LetGo \cup zst \cup tar'.in
           /\ vt'.in \subseteq vt.in \cup zst,
         at' = "autoseal" => at = "autoseal",
         at' \in Dropping => at \in Dropping /\ LetGo' \subseteq LetGo \cup zst
  PROVE  Archives'
BY DEF Archives

\* While nothing is restored the threads see the tar, and decompressing an absent
\* one loses no member.
LEMMA TarKept ==
  ASSUME TypeOK, tar.ok, tar' = tar \/ (MustDecompress /\ tar' = TarOf(zst))
  PROVE  tar'.ok /\ tar.in \subseteq zst \cup tar'.in
<1>1. TarOf(zst).ok
  BY Zenon, TarFacts DEF TypeOK
<1>2. MustDecompress => tar.in = {}
  BY Zenon, TarFacts DEF TypeOK, MustDecompress
<1> QED BY Zenon, <1>1, <1>2

\* A step of the job to another stage ends no restore that was not begun.
LEMMA FixKept ==
  ASSUME TypeOK, \A t \in Readers : fix[t] = "no",
         \/ fix' = fix \/ fix' = [fix EXCEPT !["job"] = "no"]
         \/ fix' = [fix EXCEPT !["thread"] = "no"] \/ fix' = [t \in Readers |-> "no"]
  PROVE  \A t \in Readers : fix'[t] = "no"
BY DEF TypeOK, Readers

\* A thread started, or left to itself with a manifest m, works on no other one.
LEMMA ThreadKept ==
  ASSUME TypeOK
  PROVE  /\ NoThread.m = NewManifest /\ NoThread.in = {}
         /\ Started.in \subseteq vt.in /\ Covered(Started.m) \subseteq Covered(vt.m)
         /\ \A m : LET t == IF vt.own THEN [vt EXCEPT !.own = FALSE, !.m = m] ELSE vt
                   IN t.in = vt.in /\ t.m \in {m, vt.m}
<1>1. NoThread.m = NewManifest /\ NoThread.in = {}
  BY DEF NoThread
<1>2. Started = vt \/ (Started.in = {} /\ Started.m = NewManifest)
  BY DEF Started, NoThread
<1>3. \A m : LET t == IF vt.own THEN [vt EXCEPT !.own = FALSE, !.m = m] ELSE vt
             IN t.in = vt.in /\ t.m \in {m, vt.m}
  BY DEF TypeOK, Threads
<1> QED BY <1>1, <1>2, <1>3, FirstManifests

\* A restore is under way only after an append was cut short.
LEMMA ArchivesRestore ==
  ASSUME TypeOK, Archives, NEW r \in Readers, Restore(r)
  PROVE  Archives'
<1> USE DEF queueVars, manVars, jobVars
<1>1. cut' = cut /\ zst' = zst /\ nxt' = nxt /\ at' = at
  BY Zenon DEF Restore, RestoreBegins, RestoreCopies, RestoreReplaces
<1>2. fix[r] # "no" \/ ~tar.ok
  BY Zenon DEF Restore, RestoreBegins, RestoreCopies, RestoreReplaces, Unreadable
<1>3. cut
  BY Zenon, <1>2 DEF Archives
<1> QED BY Zenon, <1>1, <1>3 DEF Archives

\* The append worker lets go of nothing.
LEMMA ArchivesAppend ==
  ASSUME TypeOK, Archives, Append \/ AppendBreaks
  PROVE  Archives'
<1> USE DEF fileVars, queueVars, manVars, jobVars
<1>1. ASSUME AppendBreaks PROVE Archives'
  BY <1>1 DEF AppendBreaks, Archives
<1>2. ASSUME Append PROVE Archives'
  <2>1. /\ cut' = cut /\ zst' = zst /\ nxt' = nxt /\ at' = at /\ vt' = vt /\ fix' = fix
        /\ gone' = gone /\ disk' = disk /\ man' = man
    BY Zenon, <1>2 DEF Append, AppendClaimed, AppendLooks, AppendWrites, AppendSkips
  <2>2. LetGo' = LetGo
    BY Zenon, <2>1, LetGoNext DEF LetGo
  <2>3. ASSUME tar.ok PROVE tar'.ok /\ tar.in \subseteq zst \cup tar'.in
    <3>1. tar.in \in SUBSET Files /\ [tar EXCEPT !.ok = TRUE] = tar
      BY <2>3 DEF TypeOK, Tars
    <3>2. CASE (\E f \in Files : AppendClaimed(f)) \/ AppendSkips
      BY Zenon, <2>3, <3>2 DEF AppendClaimed, AppendSkips
    <3>3. CASE AppendLooks
      <4>1. tar' = tar \/ (MustDecompress /\ tar' = TarOf(zst))
        BY Zenon, <3>1, <3>3 DEF AppendLooks, Decompressed
      <4> QED BY Zenon, <2>3, <4>1, TarKept
    <3>4. CASE AppendWrites
      <4>1. tar.in \cup {wk.f} \in SUBSET Files
        BY <3>1, <3>4 DEF AppendWrites, TypeOK, NoWorker
      <4>2. tar' \in {tar, TarOf(tar.in \cup {wk.f})}
        BY Zenon, <3>4 DEF AppendWrites
      <4> QED BY Zenon, <2>3, <4>1, <4>2, TarFacts
    <3> QED BY Zenon, <1>2, <3>2, <3>3, <3>4 DEF Append
  <2> QED BY Zenon, <2>1, <2>2, <2>3, ArchivesKept DEF Archives
<1> QED BY <1>1, <1>2

\* The verify thread speaks of files of the sealed archive.
LEMMA ArchivesThread ==
  ASSUME TypeOK, Archives, VerifyThread
  PROVE  Archives'
<1> USE DEF fileVars, queueVars, manVars, jobVars
<1>1. ASSUME VerifyLists \/ VerifyReads PROVE Archives'
  <2>1. /\ cut' = cut /\ zst' = zst /\ nxt' = nxt /\ at' = at /\ tar' = tar
        /\ gone' = gone /\ disk' = disk /\ man' = man
    BY Zenon, <1>1 DEF VerifyLists, VerifyReads
  <2>2. fix' = fix \/ fix' = [fix EXCEPT !["thread"] = "no"]
    BY Zenon, <1>1 DEF VerifyLists, VerifyReads
  <2>3. \/ vt' = NoThread
        \/ vt'.m = vt.m /\ vt'.in \in {vt.in, zst}
    BY ZenonT(30), <1>1 DEF VerifyLists, VerifyReads, TypeOK, Threads
  <2>4. Covered(vt'.m) \subseteq Covered(vt.m) /\ vt'.in \subseteq vt.in \cup zst
    BY Zenon, <2>3, ThreadKept, FirstManifests
  <2>5. LetGo' \subseteq LetGo
    BY Zenon, <2>1, <2>4, LetGoNext DEF LetGo
  <2> QED BY Zenon, <2>1, <2>2, <2>4, <2>5, FixKept, ArchivesKept DEF Archives
<1>2. ASSUME VerifyRecords PROVE Archives'
  <2> DEFINE verdict == IF vt.ok THEN Verdict(vt.in) ELSE [f \in Files |-> "invalid"]
             r == Record(ThreadManifest, vt.paths, verdict)
             m == [r EXCEPT !.phase = "complete"]
  <2>1. /\ verdict \in [Files -> {"verified", "retry", "invalid"}]
        /\ {f \in Files : verdict[f] = "verified"} \subseteq vt.in
    BY <1>2, VerdictFacts DEF VerifyRecords
  <2>2. r \in Manifests /\ Covered(r) \subseteq Covered(ThreadManifest) \cup vt.in
    <3> HIDE DEF verdict
    <3> QED BY Zenon, <2>1, ThreadFacts, RecordFacts
  <2>3. Covered(m) = Covered(r)
    BY Zenon, <2>2, PhaseFacts DEF Phases
  <2>4. Covered(ThreadManifest) \subseteq LetGo
    BY DEF ThreadManifest, LetGo
  <2>5. /\ cut' = cut /\ zst' = zst /\ nxt' = nxt /\ at' = at /\ tar' = tar /\ fix' = fix
        /\ gone' = gone /\ disk' = m /\ man' \in {m, man} /\ vt' = NoThread
    BY <1>2 DEF VerifyRecords
  <2> HIDE DEF m
  <2>6. LetGo' \subseteq LetGo \cup vt.in
    BY <2>2, <2>3, <2>4, <2>5, LetGoNext, ThreadKept, FirstManifests DEF LetGo
  <2>7. ~cut => LetGo' \subseteq LetGo \cup zst
    BY Zenon, <2>6 DEF Archives
  <2> QED BY Zenon, <2>5, <2>7, ThreadKept DEF Archives
<1> QED BY Zenon, <1>1, <1>2, ArchivesRestore DEF VerifyThread, Readers

\* Steps that leave the tar, the archive, the manifests and the thread alone.
LEMMA ArchivesApart ==
  ASSUME TypeOK, Archives,
         \/ \E f \in Files : \/ RawArrives(f) \/ IngestDone(f) \/ IngestGivesUp(f)
                             \/ Discover(f) \/ DeleteDeferred(f)
         \/ EnqueueDayClose \/ AlreadyComplete \/ BeginDayClose \/ WaitPasses
         \/ Settle \/ UNCHANGED vars
  PROVE  Archives'
<1> USE DEF fileVars, queueVars, manVars, jobVars
<1>1. /\ cut' = cut /\ zst' = zst /\ nxt' = nxt /\ vt' = vt /\ tar' = tar
      /\ gone' = gone /\ disk' = disk /\ man' \in {man, disk}
      /\ fix' = fix \/ fix' = [fix EXCEPT !["job"] = "no"]
  BY DEF vars, RawArrives, IngestDone, IngestGivesUp, Discover, DeleteDeferred,
         EnqueueDayClose, AlreadyComplete, BeginDayClose, WaitPasses, Settle, Goto
<1>2. Waiting => \A b : AfterWait(b) \notin Dropping \cup {"autoseal"}
  BY Zenon DEF Waiting, AfterWait, Dropping
<1>3. at' = at \/ at' \notin Dropping \cup {"autoseal"}
  <2>1. CASE WaitPasses
    BY <1>2, <2>1 DEF WaitPasses, Goto
  <2>2. CASE BeginDayClose \/ Settle
    BY Zenon, <2>2 DEF BeginDayClose, Settle, Goto, Dropping
  <2>3. CASE ~(WaitPasses \/ BeginDayClose \/ Settle)
    BY <2>3 DEF vars, RawArrives, IngestDone, IngestGivesUp, Discover, DeleteDeferred,
           EnqueueDayClose, AlreadyComplete
  <2> QED BY <2>1, <2>2, <2>3
<1>4. LetGo' \subseteq LetGo
  BY Zenon, <1>1, LetGoNext DEF LetGo
<1> QED BY Zenon, <1>1, <1>3, <1>4, FixKept, ArchivesKept DEF Archives

\* The job ends, by itself or with the process.
LEMMA ArchivesEnd ==
  ASSUME TypeOK, Archives, Yield \/ Finish \/ Crash
  PROVE  Archives'
<1> USE DEF fileVars, queueVars, manVars, jobVars
<1>1. /\ cut' = cut /\ zst' = zst /\ nxt' = "off" /\ at' = "off" /\ tar' = tar
      /\ gone' = gone /\ disk' = disk /\ man' = NewManifest
      /\ fix' = fix \/ fix' = [t \in Readers |-> "no"]
  BY DEF Yield, Finish, Crash, EndJob, JobReset
<1>2. \/ vt' = NoThread
      \/ vt' = IF vt.own THEN [vt EXCEPT !.own = FALSE, !.m = man] ELSE vt
  BY DEF Yield, Finish, Crash, EndJob
<1>3. Covered(vt'.m) \subseteq LetGo /\ vt'.in \subseteq vt.in
  <2>1. CASE vt' = NoThread
    BY ZenonT(30), <2>1, ThreadKept, FirstManifests
  <2>2. CASE vt' = IF vt.own THEN [vt EXCEPT !.own = FALSE, !.m = man] ELSE vt
    <3>1. vt'.in = vt.in /\ vt'.m \in {man, vt.m}
      BY Zenon, <2>2, ThreadKept
    <3> QED BY Zenon, <3>1 DEF LetGo
  <2> QED BY <1>2, <2>1, <2>2
<1>4. LetGo' \subseteq LetGo
  BY <1>1, <1>3, LetGoNext, FirstManifests DEF LetGo
<1> QED BY Zenon, <1>1, <1>3, <1>4, FixKept, ArchivesKept DEF Archives, Dropping

\* A wait restores the tar at most, and takes up what the restored tar holds.
LEMMA ArchivesWait ==
  ASSUME TypeOK, Archives, WaitKicks
  PROVE  Archives'
<1> USE DEF fileVars, queueVars, manVars, jobVars
<1> DEFINE up == Reclassified(man)
<1>1. /\ cut' = cut /\ zst' = zst /\ gone' = gone
      /\ fix' = [fix EXCEPT !["job"] = "no"]
  BY Zenon DEF WaitKicks, Goto
<1>2. \A b : AfterWait(b) \notin Dropping \cup {"autoseal"}
  BY DEF WaitKicks, Waiting, AfterWait, Dropping
<1>3. at' \notin Dropping \cup {"autoseal"} /\ nxt' \notin Dropping \cup {"autoseal"}
  BY Zenon, <1>2 DEF WaitKicks, Goto, Dropping, Archives
<1>4. vt' \in {vt, Started}
  BY Zenon DEF WaitKicks
<1>5. up \in Manifests /\ Covered(up) \subseteq Covered(man) \cup Restored.in
  BY ReclassifyFacts DEF TypeOK
<1>6. /\ Covered([man EXCEPT !.phase = "deleting"]) = Covered(man)
      /\ Covered([up EXCEPT !.phase = "deleting"]) = Covered(up)
  BY Zenon, <1>5, PhaseFacts DEF Phases, TypeOK
<1>7. \/ tar' = tar /\ man' = man /\ disk' = disk
      \/ tar' = tar /\ man' = [man EXCEPT !.phase = "deleting"] /\ disk' = man'
      \/ Decompressed /\ man' = man /\ disk' = disk
      \/ Decompressed /\ man' = [up EXCEPT !.phase = "deleting"] /\ disk' = man'
  BY Zenon DEF WaitKicks, Save
<1>8. /\ tar' = tar \/ (MustDecompress /\ tar' = TarOf(zst))
      /\ Covered(man') \subseteq Covered(man) \cup tar'.in
      /\ disk' = disk \/ disk' = man'
  <2> HIDE DEF up
  <2> QED BY Zenon, <1>5, <1>6, <1>7, RestoreFacts
<1>9. LetGo' \subseteq LetGo \cup tar'.in /\ vt'.in \subseteq vt.in
  BY Zenon, <1>1, <1>4, <1>8, LetGoNext, ThreadKept DEF LetGo
<1> QED BY Zenon, <1>1, <1>3, <1>8, <1>9, TarKept, FixKept, ArchivesKept

\* The verification before the seal speaks of members of the restored tar.
LEMMA ArchivesPreSeal ==
  ASSUME TypeOK, Archives, PreSealVerify
  PROVE  Archives'
<1> USE DEF fileVars, queueVars, manVars, jobVars
<1> DEFINE named == Listed(man) \cup (raw \cap Restored.in)
           paths == IF named = {} THEN raw ELSE named
           m == Record(man, paths, Verdict(Restored.in))
           n == [m EXCEPT !.phase = "complete", !.stage = "pre"]
<1>1. /\ cut' = cut /\ zst' = zst /\ gone' = gone /\ nxt' = nxt /\ vt' = vt
      /\ fix' = [fix EXCEPT !["job"] = "no"]
  BY Zenon DEF PreSealVerify, Goto
<1>2. at' \notin Dropping \cup {"autoseal"}
  BY DEF PreSealVerify, Goto, Dropping
<1>3. m \in Manifests /\ Covered(m) \subseteq Covered(man) \cup Restored.in
  <2>1. /\ Verdict(Restored.in) \in [Files -> {"verified", "retry", "invalid"}]
        /\ {f \in Files : Verdict(Restored.in)[f] = "verified"} \subseteq Restored.in
    BY Zenon, VerdictFacts
  <2> HIDE DEF paths
  <2>2. /\ m \in Manifests
        /\ Covered(m) \subseteq
             Covered(man) \cup {f \in Files : Verdict(Restored.in)[f] = "verified"}
    BY <2>1, RecordFacts DEF TypeOK
  <2> QED BY <2>1, <2>2
<1>4. Covered(n) = Covered(m)
  BY Zenon, <1>3, StageFacts
<1>5. \/ (tar' = tar \/ Decompressed) /\ man' = man /\ disk' = disk
      \/ Decompressed /\ man' = n /\ disk' = n
  BY Zenon DEF PreSealVerify, Save
<1> HIDE DEF m, n
<1>6. /\ tar' = tar \/ (MustDecompress /\ tar' = TarOf(zst))
      /\ Covered(man') \subseteq Covered(man) \cup tar'.in
      /\ disk' = disk \/ disk' = man'
  BY Zenon, <1>3, <1>4, <1>5, RestoreFacts
<1>7. LetGo' \subseteq LetGo \cup tar'.in
  BY Zenon, <1>1, <1>6, LetGoNext DEF LetGo
<1> QED BY Zenon, <1>1, <1>2, <1>6, <1>7, TarKept, FixKept, ArchivesKept DEF Archives

\* The seal takes what the tar holds into the archive.
LEMMA ArchivesSeal ==
  ASSUME TypeOK, Covers, Archives, ~cut => ~late, SealSkipped \/ SealDone \/ SealFails
  PROVE  Archives'
<1> USE DEF fileVars, queueVars, manVars, jobVars
<1>1. /\ cut' = cut /\ gone' = gone /\ vt' = vt /\ disk' = disk /\ man' = man
      /\ fix' = [fix EXCEPT !["job"] = "no"]
  BY Zenon DEF SealSkipped, SealDone, SealFails, Goto
<1>2. LetGo' = LetGo
  BY Zenon, <1>1, LetGoNext DEF LetGo
<1>3. AfterSeal \notin Dropping \cup {"autoseal"} /\ Sealing
  BY DEF AfterSeal, Sealing, Dropping, SealSkipped, SealDone, SealFails
<1>4. tar.in \cup zst \in SUBSET Files
  BY DEF TypeOK, Tars
<1>5. /\ SealInput \in {tar, TarOf(tar.in \cup zst), NoTar}
      /\ SealInput = NoTar => SealsNothing(SealInput)
      /\ at = "merge" => SealInput \in {tar, TarOf(tar.in \cup zst)}
  BY Zenon, <1>3, SealInputFacts, TarFacts DEF SealsNothing, SealInput
<1>6. CASE SealSkipped \/ SealFails
  <2>1. zst' = zst /\ nxt' = nxt /\ at' = AfterSeal
    BY Zenon, <1>6 DEF SealSkipped, SealFails, Goto
  <2>2. tar' \in {tar, TarOf(tar.in \cup zst)}
    BY ZenonT(30), <1>5, <1>6 DEF SealSkipped, SealFails
  <2>3. tar.ok => tar'.ok /\ tar.in \subseteq zst \cup tar'.in
    BY Zenon, <1>4, <2>2, TarFacts
  <2> QED BY Zenon, <1>1, <1>2, <1>3, <2>1, <2>3, FixKept, ArchivesKept DEF Archives
<1>7. CASE SealDone
  <2>1. /\ zst' = SealInput.in /\ tar' = SealInput /\ SealInput.has
        /\ SealInput \in {tar, TarOf(tar.in \cup zst)}
    BY Zenon, <1>5, <1>7 DEF SealDone, SealsNothing
  <2>2. nxt' \in {nxt, AfterSeal} /\ at' \in {"sealed", AfterSeal}
    BY Zenon, <1>7 DEF SealDone, Goto
  <2>3. ~cut => zst \subseteq zst' /\ tar.in \subseteq zst' /\ (tar.ok => tar'.ok)
    BY Zenon, <1>4, <2>1, TarFacts DEF Covers, TarCoversSealed
  <2>4. at' # "autoseal" /\ nxt' \notin Dropping \cup {"autoseal"}
    BY Zenon, <1>3, <2>2 DEF Archives
  <2>5. ~cut => \A t \in Readers : fix'[t] = "no"
    BY Zenon, <1>1, FixKept DEF Archives
  <2> QED BY Zenon, <1>1, <1>2, <2>3, <2>4, <2>5 DEF Archives
<1> QED BY Zenon, <1>6, <1>7

\* The verification after the seal records nothing about files.
LEMMA ArchivesPostSeal ==
  ASSUME TypeOK, Archives, PostSealVerify
  PROVE  Archives'
<1> USE DEF fileVars, queueVars, manVars, jobVars
<1>1. /\ cut' = cut /\ zst' = zst /\ gone' = gone /\ vt' = vt /\ tar' = tar
      /\ fix' = [fix EXCEPT !["job"] = "no"]
  BY Zenon DEF PostSealVerify, Goto
<1>2. at' \notin Dropping \cup {"autoseal"} /\ nxt' \notin Dropping \cup {"autoseal"}
  BY DEF PostSealVerify, Goto, Dropping, Archives
<1>3. \/ man' = man /\ disk' = disk
      \/ man' = [man EXCEPT !.stage = "post"] /\ disk' = man'
  BY Zenon DEF PostSealVerify, Save
<1>4. LetGo' \subseteq LetGo
  BY Zenon, <1>1, <1>3, StageFacts, LetGoNext DEF LetGo, TypeOK
<1> QED BY Zenon, <1>1, <1>2, <1>4, FixKept, ArchivesKept DEF Archives

\* A deletion batch begins with what the restored tar holds.
LEMMA ArchivesBatch ==
  ASSUME TypeOK, Archives, BatchBegins
  PROVE  Archives'
<1> USE DEF fileVars, queueVars, manVars, jobVars
<1> DEFINE m == Reopened(man)
           up == Reclassified(m)
           del == [up EXCEPT !.phase = "deleting"]
<1>1. /\ cut' = cut /\ zst' = zst /\ gone' = gone
      /\ fix' = [fix EXCEPT !["job"] = "no"]
  BY Zenon DEF BatchBegins, Goto
<1>2. at' \notin Dropping \cup {"autoseal"} /\ nxt' \notin Dropping \cup {"autoseal"}
  BY DEF BatchBegins, Goto, Dropping, Archives
<1>3. Reclassify(m) /\ disk' \in {up, disk} /\ man' \in {up, del}
  BY Zenon DEF BatchBegins
<1>4. vt' \in {vt, Started}
  BY Zenon DEF BatchBegins
<1>5. m \in Manifests /\ Covered(m) = Covered(man)
  BY Zenon, PhaseFacts DEF Phases, TypeOK, Reopened
<1> HIDE DEF m
<1>6. /\ up \in Manifests /\ Covered(up) \subseteq Covered(m) \cup Restored.in
      /\ SkippedPaths(m) = {} => up = m
  BY <1>5, ReclassifyFacts
<1>7. /\ Covered(up) \subseteq Covered(man) \cup tar'.in
      /\ tar' = tar \/ (MustDecompress /\ tar' = TarOf(zst))
  BY Zenon, <1>3, <1>5, <1>6, ReclassifyTar
<1>8. Covered(del) = Covered(up)
  BY Zenon, <1>6, PhaseFacts DEF Phases
<1> HIDE DEF up, del
<1>9. LetGo' \subseteq LetGo \cup tar'.in /\ vt'.in \subseteq vt.in
  BY <1>1, <1>3, <1>4, <1>7, <1>8, LetGoNext, ThreadKept DEF LetGo
<1> QED BY Zenon, <1>1, <1>2, <1>7, <1>9, TarKept, FixKept, ArchivesKept

\* Only a file the manifest has verified is removed.
LEMMA ArchivesDelete ==
  ASSUME TypeOK, Archives, NEW f \in Files, DeleteRaw(f)
  PROVE  Archives'
<1> USE DEF fileVars, queueVars, manVars, jobVars
<1>1. /\ cut' = cut /\ zst' = zst /\ nxt' = nxt /\ at' = at /\ vt' = vt /\ tar' = tar
      /\ fix' = fix /\ disk' = disk /\ gone' = gone \cup {f} /\ man' = [man EXCEPT !.e[f] = "deleted"]
  BY DEF DeleteRaw
<1>2. f \in Covered(man)
  BY DEF DeleteRaw, ToDelete, Pending, Covered
<1>3. LetGo' \subseteq LetGo
  BY <1>1, <1>2, DeleteFacts, LetGoNext DEF LetGo, TypeOK
<1> QED BY <1>1, <1>3, ArchivesKept DEF Archives

\* A tar equal to the sealed archive may go: all that was let go of is sealed.
LEMMA EqualMayGo ==
  ASSUME TypeOK, Archives, ~cut, SealValid(Seen("job"))
  PROVE  LetGo \subseteq zst
<1>1. Seen("job") = tar
  BY Zenon, SeenFacts DEF Archives, Readers
<1>2. tar.has => tar.in = zst
  BY Zenon, <1>1 DEF SealValid
<1>3. ~tar.has => tar.in = {}
  BY Zenon, TarFacts DEF TypeOK
<1> QED BY Zenon, <1>2, <1>3 DEF Archives

\* The deletion of a batch ends, and a tar is yet to be validated.
LEMMA ArchivesDeleteEnds ==
  ASSUME TypeOK, Archives, DeleteEnds
  PROVE  Archives'
<1> USE DEF fileVars, queueVars, manVars, jobVars
<1>1. /\ cut' = cut /\ zst' = zst /\ gone' = gone /\ vt' = vt /\ tar' = tar
      /\ fix' = [fix EXCEPT !["job"] = "no"]
  BY Zenon DEF DeleteEnds, Goto
<1>2. nxt' \in {nxt, "off"} /\ at' \in {nxt, "validate"}
  BY Zenon DEF DeleteEnds, Goto
<1>3. \/ man' = man /\ disk' \in {man, disk}
      \/ man' \in {[man EXCEPT !.phase = "done"], [man EXCEPT !.phase = "complete"]}
         /\ disk' = man'
  BY Zenon DEF DeleteEnds, Save
<1>4. /\ Covered([man EXCEPT !.phase = "done"]) = Covered(man)
      /\ Covered([man EXCEPT !.phase = "complete"]) = Covered(man)
  BY Zenon, PhaseFacts DEF TypeOK, Phases
<1>5. Covered(man') = Covered(man) /\ Covered(disk') \subseteq LetGo
  BY Zenon, <1>3, <1>4 DEF LetGo
<1>6. LetGo' \subseteq LetGo
  BY Zenon, <1>1, <1>5, LetGoNext DEF LetGo
<1>7. at' \notin Dropping \cup {"autoseal"} /\ nxt' \notin Dropping \cup {"autoseal"}
  BY <1>2 DEF Archives, Dropping
<1> QED BY Zenon, <1>1, <1>6, <1>7, FixKept, ArchivesKept DEF Archives

\* A batch that is done leaves the files alone, and comes to no dropping stage.
LEMMA ArchivesBatchDone ==
  ASSUME TypeOK, Archives, BatchDone, gone' = gone, vt' = vt
  PROVE  /\ LetGo' \subseteq LetGo
         /\ at' \notin Dropping \cup {"autoseal"} /\ nxt' \notin Dropping \cup {"autoseal"}
         /\ fix' = [fix EXCEPT !["job"] = "no"]
<1>1. /\ at' = nxt /\ nxt' = "off" /\ fix' = [fix EXCEPT !["job"] = "no"]
      /\ disk' = man' /\ Covered(man') = Covered(man)
  BY Zenon, BatchDoneFacts
<1>2. LetGo' \subseteq LetGo
  BY Zenon, <1>1, LetGoNext DEF LetGo
<1> QED BY <1>1, <1>2 DEF Archives, Dropping

\* The validation of a batch goes on to drop the tar only when tar and archive
\* agree, and to an auto-seal only when nothing is sealed.
LEMMA ArchivesValidates ==
  ASSUME TypeOK, Archives, BatchValidates \/ AutoSealFails
  PROVE  Archives'
<1> USE DEF fileVars, queueVars, manVars, jobVars
<1>1. cut' = cut /\ zst' = zst /\ gone' = gone /\ vt' = vt /\ tar' = tar
  BY Zenon DEF BatchValidates, AutoSealFails
<1>2. CASE BatchDone
  BY Zenon, <1>1, <1>2, ArchivesBatchDone, FixKept, ArchivesKept DEF Archives
<1>3. CASE ~BatchDone
  <2>1. /\ nxt' = nxt /\ man' = man /\ disk' = disk /\ fix' = [fix EXCEPT !["job"] = "no"]
        /\ \/ at' = "autoseal" /\ zst = {}
           \/ at' = "batchdrop" /\ SealValid(Seen("job"))
    BY Zenon, <1>3 DEF BatchValidates, AutoSealFails, Goto
  <2>2. LetGo' = LetGo
    BY Zenon, <1>1, <2>1, LetGoNext DEF LetGo
  <2>3. at' \in Dropping => SealValid(Seen("job"))
    BY <2>1 DEF Dropping
  <2>4. at' = "autoseal" => zst = {}
    BY Zenon, <2>1
  <2>5. ~cut => \A t \in Readers : fix'[t] = "no"
    BY Zenon, <2>1, FixKept DEF Archives
  <2> QED BY Zenon, <1>1, <2>1, <2>2, <2>3, <2>4, <2>5, EqualMayGo DEF Archives
<1> QED BY Zenon, <1>2, <1>3

\* The auto-seal takes what the tar holds into the archive.
LEMMA ArchivesAutoSeals ==
  ASSUME TypeOK, Archives, AutoSeals
  PROVE  Archives'
<1> USE DEF fileVars, queueVars, manVars, jobVars
<1>1. cut' = cut /\ gone' = gone /\ vt' = vt /\ tar' = tar /\ zst = {}
  BY Zenon DEF AutoSeals, Archives
<1>2. CASE ~tar.ok
  <2>1. BatchDone /\ zst' = zst
    BY Zenon, <1>2 DEF AutoSeals
  <2> QED BY Zenon, <1>1, <2>1, ArchivesBatchDone, FixKept, ArchivesKept DEF Archives
<1>3. CASE tar.ok
  <2>1. /\ zst' = tar.in /\ at' = "autosealed" /\ nxt' = nxt /\ man' = man /\ disk' = disk
        /\ fix' = [fix EXCEPT !["job"] = "no"]
    BY Zenon, <1>3 DEF AutoSeals, Goto
  <2>2. LetGo' = LetGo
    BY Zenon, <1>1, <2>1, LetGoNext DEF LetGo
  <2>3. ~cut => \A t \in Readers : fix'[t] = "no"
    BY Zenon, <2>1, FixKept DEF Archives
  <2> QED BY Zenon, <1>1, <2>1, <2>2, <2>3 DEF Archives
<1> QED BY Zenon, <1>2, <1>3

\* The same for the tar_drop stage.
LEMMA ArchivesTarDrop ==
  ASSUME TypeOK, Archives, TarDrop
  PROVE  Archives'
<1> USE DEF fileVars, queueVars, manVars, jobVars
<1>1. /\ cut' = cut /\ zst' = zst /\ gone' = gone /\ vt' = vt /\ nxt' = nxt
      /\ man' = man /\ disk' = disk /\ tar' = tar /\ fix' = [fix EXCEPT !["job"] = "no"]
  BY Zenon DEF TarDrop, Goto
<1>2. (at' \in Dropping => SealValid(Seen("job"))) /\ at' # "autoseal"
  BY DEF TarDrop, Goto, Dropping
<1>3. LetGo' = LetGo
  BY Zenon, <1>1, LetGoNext DEF LetGo
<1>4. ~cut => \A t \in Readers : fix'[t] = "no"
  BY Zenon, <1>1, FixKept DEF Archives
<1> QED BY Zenon, <1>1, <1>2, <1>3, <1>4, EqualMayGo DEF Archives

\* The tar goes; what was let go of is in the sealed archive.
LEMMA ArchivesDrops ==
  ASSUME TypeOK, Archives, SealDrops \/ AutoSealDrops \/ BatchDrops \/ TarDropped
  PROVE  Archives'
<1> USE DEF fileVars, queueVars, manVars, jobVars
<1> DEFINE done == [man EXCEPT !.phase = "done"]
<1>1. /\ cut' = cut /\ zst' = zst /\ gone' = gone /\ tar' = NoTar /\ at \in Dropping
      /\ nxt' \in {nxt, "off"} /\ at' \in {nxt, "off", "batchdrop"}
      /\ fix' = fix \/ fix' = [fix EXCEPT !["job"] = "no"]
  BY DEF SealDrops, AutoSealDrops, BatchDrops, TarDropped, BatchDone, EndJob, JobReset,
         Goto, Dropping
<1>2. disk' \in {disk, done} /\ man' \in {man, done, NewManifest}
  BY Zenon
     DEF SealDrops, AutoSealDrops, BatchDrops, TarDropped, BatchDone, EndJob, JobReset, Save
<1>3. Covered(done) = Covered(man)
  BY Zenon, PhaseFacts DEF TypeOK, Phases
<1>4. \/ vt' = vt
      \/ vt' = IF vt.own THEN [vt EXCEPT !.own = FALSE, !.m = done] ELSE vt
  BY Zenon DEF SealDrops, AutoSealDrops, BatchDrops, TarDropped, EndJob
<1> HIDE DEF done
<1>5. Covered(vt'.m) \subseteq LetGo /\ vt'.in = vt.in
  <2>1. vt'.in = vt.in /\ vt'.m \in {done, vt.m}
    BY Zenon, <1>4, ThreadKept
  <2> QED BY Zenon, <1>3, <2>1 DEF LetGo
<1>6. LetGo' \subseteq LetGo
  BY ZenonT(30), <1>1, <1>2, <1>3, <1>5, LetGoNext, FirstManifests DEF LetGo
<1>7. nxt' \notin Dropping \cup {"autoseal"} /\ at' # "autoseal"
  BY <1>1 DEF Archives, Dropping
<1>8. ~cut => \A t \in Readers : fix'[t] = "no"
  BY Zenon, <1>1, FixKept DEF Archives
<1> QED BY Zenon, <1>1, <1>5, <1>6, <1>7, <1>8, TarFacts DEF Archives

-----------------------------------------------------------------------------
(* The theorems.                                                             *)

\* Only after a cut is an earlier sealed archive put in the place of the tar.
LEMMA LateKept ==
  ASSUME TypeOK, Archives, late => cut, [Next]_vars
  PROVE  late' => cut'
<1> USE DEF fileVars, queueVars, manVars, jobVars
<1>1. ASSUME NEW r \in Readers, Restore(r) PROVE late' => cut'
  <2>1. cut' = cut /\ (late' = late \/ fix[r] = "copied")
    BY Zenon, <1>1 DEF Restore, RestoreBegins, RestoreCopies, RestoreReplaces
  <2> QED BY Zenon, <2>1 DEF Archives
<1>2. CASE Append \/ VerifyLists \/ VerifyReads \/ VerifyRecords \/ UNCHANGED vars
  BY Zenon, <1>2
     DEF Append, AppendClaimed, AppendLooks, AppendWrites, AppendSkips, VerifyLists,
         VerifyReads, VerifyRecords, vars
<1>3. CASE Surroundings
  BY Zenon, <1>3
     DEF Surroundings, RawArrives, IngestDone, IngestGivesUp, Discover, DeleteDeferred,
         EnqueueDayClose, AppendBreaks, SealFails, AutoSealFails, Crash
<1>4. CASE BeginDayClose \/ AlreadyComplete \/ Yield \/ WaitPasses \/ WaitKicks
           \/ PreSealVerify \/ SealSkipped \/ SealDone \/ SealDrops
  BY Zenon, <1>4
     DEF BeginDayClose, AlreadyComplete, Yield, WaitPasses, WaitKicks, PreSealVerify,
         SealSkipped, SealDone, SealDrops
<1>5. CASE \/ PostSealVerify \/ BatchBegins \/ (\E f \in Files : DeleteRaw(f))
           \/ DeleteEnds \/ Settle \/ TarDrop \/ TarDropped \/ Finish
  BY Zenon, <1>5
     DEF PostSealVerify, BatchBegins, DeleteRaw, DeleteEnds, Settle, TarDrop, TarDropped,
         Finish
<1>6. CASE BatchValidates \/ AutoSeals \/ AutoSealDrops \/ BatchDrops
  BY Zenon, <1>6 DEF BatchValidates, AutoSeals, AutoSealDrops, BatchDrops
<1> QED
  BY Zenon, <1>1, <1>2, <1>3, <1>4, <1>5, <1>6 DEF Next, DayCloseJob, VerifyThread, Readers

\* The strengthened invariant is inductive.
LEMMA ArchivesInvariant == Spec => []Archives
<1> DEFINE Inv == Archives /\ (late => cut)
<1>1. Init => Inv
  <2>1. Init => LetGo = {}
    BY FirstManifests DEF Init, LetGo, NoThread
  <2>2. Init => /\ at = "off" /\ nxt = "off" /\ tar = NoTar /\ vt = NoThread /\ ~late
                /\ \A t \in Readers : fix[t] = "no"
    BY Zenon DEF Init
  <2>3. NoThread.in = {} /\ "off" \notin Dropping \cup {"autoseal"}
    BY DEF NoThread, Dropping
  <2>4. NoTar.ok
    BY Zenon, TarFacts
  <2> QED BY Zenon, <2>1, <2>2, <2>3, <2>4 DEF Archives
<1>2. TypeOK /\ Covers /\ Inv /\ [Next]_vars => Inv'
  <2> SUFFICES ASSUME TypeOK, Covers, Inv, [Next]_vars PROVE Inv'
    OBVIOUS
  <2>1. CASE Append \/ VerifyThread \/ AppendBreaks \/ Restore("job")
    BY Zenon, <2>1, LateKept, ArchivesAppend, ArchivesThread, ArchivesRestore DEF Readers
  <2>2. CASE \/ \E f \in Files : \/ RawArrives(f) \/ IngestDone(f) \/ IngestGivesUp(f)
                                 \/ Discover(f) \/ DeleteDeferred(f)
             \/ EnqueueDayClose \/ AlreadyComplete \/ BeginDayClose \/ WaitPasses
             \/ Settle \/ UNCHANGED vars
    BY Zenon, <2>2, LateKept, ArchivesApart
  <2>3. CASE Yield \/ Finish \/ Crash \/ WaitKicks \/ PreSealVerify \/ PostSealVerify
    BY Zenon, <2>3, LateKept, ArchivesEnd, ArchivesWait, ArchivesPreSeal, ArchivesPostSeal
  <2>4. CASE SealSkipped \/ SealDone \/ SealFails
    BY Zenon, <2>4, LateKept, ArchivesSeal
  <2>5. CASE BatchBegins \/ (\E f \in Files : DeleteRaw(f)) \/ DeleteEnds
    BY Zenon, <2>5, LateKept, ArchivesBatch, ArchivesDelete, ArchivesDeleteEnds
  <2>6. CASE BatchValidates \/ AutoSealFails \/ AutoSeals \/ TarDrop
    BY Zenon, <2>6, LateKept, ArchivesValidates, ArchivesAutoSeals, ArchivesTarDrop
  <2>7. CASE SealDrops \/ AutoSealDrops \/ BatchDrops \/ TarDropped
    BY Zenon, <2>7, LateKept, ArchivesDrops
  <2> QED
    BY Zenon, <2>1, <2>2, <2>3, <2>4, <2>5, <2>6, <2>7
       DEF Next, DayCloseJob, Surroundings
<1> QED BY <1>1, <1>2, TypeCorrect, CoversInvariant, PTL DEF Spec

\* A raw file that a day close removed is in the open tar or in the sealed
\* archive, while no append has been cut short; auto-seals and the drops that
\* follow them included.
THEOREM RemovedIsArchived == Spec => []NothingLost
<1>1. Archives => NothingLost
  BY DEF Archives, NothingLost, LetGo
<1> QED BY <1>1, ArchivesInvariant, PTL

\* A day is answered complete only without a tar and, while no append has been
\* cut short, with every removed raw file in the sealed archive.
THEOREM CompleteMeansSealed == Spec => CompleteIsSealed
<1> DEFINE P == job /\ ~job' => ~tar'.has /\ (~cut => gone \subseteq zst')
<1>1. TypeOK /\ Archives /\ [Next]_vars => P
  <2> SUFFICES ASSUME TypeOK, Archives, Next, job, ~job'
               PROVE  ~tar'.has /\ (~cut => gone \subseteq zst')
    BY Zenon DEF vars, jobVars
  <2> USE DEF fileVars, queueVars, manVars, jobVars
  <2>1. ~cut /\ ~tar.has => gone \subseteq zst
    BY TarFacts DEF TypeOK, Archives, LetGo
  <2>2. CASE AlreadyComplete \/ Finish
    BY Zenon, <2>1, <2>2 DEF AlreadyComplete, Finish, EndJob, Complete
  <2>3. CASE TarDropped
    BY <2>3, TarFacts DEF TarDropped, Archives, LetGo, Dropping
  <2>4. CASE Append
    BY Zenon, <2>4 DEF Append, AppendClaimed, AppendLooks, AppendWrites, AppendSkips
  <2>5. CASE VerifyThread \/ Restore("job")
    BY Zenon, <2>5 DEF VerifyThread, VerifyLists, VerifyReads, VerifyRecords, Restore,
                RestoreBegins, RestoreCopies, RestoreReplaces
  <2>6. CASE Surroundings
    BY Zenon, <2>6 DEF Surroundings, RawArrives, IngestDone, IngestGivesUp, Discover,
                DeleteDeferred, EnqueueDayClose, AppendBreaks, SealFails, AutoSealFails,
                Crash
  <2>7. CASE BeginDayClose \/ Yield \/ WaitPasses \/ WaitKicks \/ PreSealVerify
             \/ SealSkipped \/ SealDone \/ SealDrops
    BY Zenon, <2>7 DEF BeginDayClose, Yield, EndJob, WaitPasses, WaitKicks, PreSealVerify,
                SealSkipped, SealDone, SealDrops
  <2>8. CASE \/ PostSealVerify \/ BatchBegins \/ (\E f \in Files : DeleteRaw(f))
             \/ DeleteEnds \/ Settle \/ TarDrop
    BY Zenon, <2>8 DEF PostSealVerify, BatchBegins, DeleteRaw, DeleteEnds, Settle, TarDrop
  <2>9. CASE BatchValidates \/ AutoSeals \/ AutoSealDrops \/ BatchDrops
    BY Zenon, <2>9 DEF BatchValidates, AutoSeals, AutoSealDrops, BatchDrops
  <2> QED
    BY Zenon, <2>2, <2>3, <2>4, <2>5, <2>6, <2>7, <2>8, <2>9 DEF Next, DayCloseJob
<1> QED BY <1>1, TypeCorrect, ArchivesInvariant, PTL DEF Spec, CompleteIsSealed
=============================================================================
