---------------------------- MODULE MonitorDaemon ----------------------------
(***************************************************************************)
(* hpcperfstatsd, the daemon on every compute node: payloads are collected   *)
(* into a ring buffer, published to RabbitMQ from timers, spooled to one      *)
(* dumpfile per day when the ring refuses them or the daemon stops, and       *)
(* replayed from there.  The libev loop runs one callback at a time, so each  *)
(* callback is one action.                                                    *)
(*                                                                            *)
(* A payload is the sequence of its pieces: the `$` header and the sample of  *)
(* one collection, and the blank line that starts every sample.  A dumpfile   *)
(* is the concatenation of payloads; only blank lines separate them again.    *)
(***************************************************************************)
EXTENDS Naturals, Sequences, Functions, FiniteSets

CONSTANTS
  JobIds,       \* job ids the scheduler writes to the jobid file
  NoJob,        \* "-"
  Days,         \* dumpfile names, one for a day
  NumIds,       \* bound: payloads held at the same time
  MaxBuffer,    \* max_buffer_size
  MaxBatch,     \* payloads merged into one message
  SuccMax,      \* send_success_count_max
  MaxFiles,     \* MONITOR_DUMPFILE_MAX_FILES_PER_CALL
  Brokers       \* what a callback may find of the broker: "down", "slow", "up"

ASSUME MonitorAssumption ==
  /\ NoJob \notin JobIds /\ IsFiniteSet(Days) /\ Days # {}
  /\ {NumIds, MaxBuffer, MaxBatch, SuccMax, MaxFiles} \subseteq Nat \ {0}
  /\ Brokers \subseteq {"down", "slow", "up"} /\ Brokers \cap {"slow", "up"} # {}

VARIABLES
  ring,         \* from q_first on, a sequence of payloads
  files,        \* contents of each dumpfile, empty when there is none
  mode,         \* file_mode_enabled
  succ,         \* send_success_count, counted up to SuccMax
  out,          \* messages the last callback published
  jobid,        \* the job the daemon knows of
  running,      \* "up", "down" after a signal, "crashed"
  day,          \* names the dumpfile that is written today
  calm          \* the outages are over: broker and dump directory work from now on

node == <<ring, files, mode, succ, out>>
vars == <<node, jobid, running, day, calm>>

-----------------------------------------------------------------------------
(* Payloads. *)

Blank == <<>>
Hdr(i) == <<i, "hdr">>
Sample(i) == <<i, "sample">>

\* stats_wr_hdr before stats_buffer_collect, which starts with a newline.
Payload(i, hdr) ==
  IF hdr THEN <<Hdr(i), Blank, Sample(i)>> ELSE <<Blank, Sample(i)>>

Pieces(p) == Range(p) \ {Blank}
Headers == {Hdr(i) : i \in 1 .. NumIds}

\* stats_buffer_is_schema_payload: the first character after white space.
IsSchema(p) ==
  \E n \in DOMAIN p : p[n] \in Headers /\ \A k \in 1 .. n - 1 : p[k] = Blank

\* One line more: a blank line ends a payload, at the start of the file it is
\* skipped.
ReadLine(ps, line) ==
  IF line = Blank THEN IF ps = <<>> THEN ps ELSE Append(ps, <<>>)
  ELSE IF ps = <<>> THEN <<<<line>>>>
  ELSE [ps EXCEPT ![Len(ps)] = Append(@, line)]

\* What ring_buffer_load_file makes of a dumpfile.
Reload(text) ==
  LET parts[n \in 0 .. Len(text)] ==
        IF n = 0 THEN <<>> ELSE ReadLine(parts[n - 1], text[n])
  IN parts[Len(text)]

PiecesOf(ps) == UNION {Pieces(p) : p \in Range(ps)}
Published(o) == UNION {PiecesOf(m) : m \in o}
InFiles(f) == UNION {Pieces(f[d]) : d \in Days}

-----------------------------------------------------------------------------
(* The steps of a callback take the state of the node to the set of states it *)
(* may be in afterwards.  What it meets is fixed for a callback: the broker is *)
(* "down", "slow" (a budget or an error may cut a drain short) or "up" (every  *)
(* drain is complete, one of the outcomes of "slow"), and dumpfiles can be       *)
(* opened, to read or to append, or not.  Listing their directory succeeds.      *)
Here(broker, disk) ==
  [ring |-> ring, files |-> files, mode |-> mode, succ |-> succ, out |-> {},
   broker |-> broker, disk |-> disk]
Then(S, Step(_)) == UNION {Step(s) : s \in S}

\* Names for a new payload; the bound is on those held or just published.
FreeIds(s) ==
  {i \in 1 .. NumIds : {Hdr(i), Sample(i)} \cap
     (PiecesOf(s.ring) \cup InFiles(s.files) \cup Published(s.out)) = {}}

\* The bound on spooled payloads leaves a name for a sample to be taken.
Becomes(S) ==
  \E s \in S :
    /\ FreeIds([s EXCEPT !.ring = <<>>, !.out = {}]) # {}
    /\ ring' = s.ring /\ files' = s.files /\ mode' = s.mode /\ succ' = s.succ
    /\ out' = s.out

\* Mutant of Victims: a schema payload may be overwritten.
VictimsAny(r) == DOMAIN r

\* What a full ring may overwrite.
Victims(r) == {n \in DOMAIN r : ~IsSchema(r[n])}

\* save_file_stats_buffer of a payload the ring refused.
Refused(s, p) == [s EXCEPT !.files[day] = @ \o p, !.mode = TRUE, !.succ = 0]

\* ring_buffer_insert.  The first payload that is not a schema is overwritten and
\* becomes the last one: what was before it moves to the end of the ring.
Insert(s, p) ==
  LET r == s.ring
      v == CHOOSE n \in Victims(r) : \A k \in Victims(r) : n <= k
  IN IF Len(r) < MaxBuffer THEN [s EXCEPT !.ring = Append(r, p)]
     ELSE IF Victims(r) # {}
          THEN [s EXCEPT !.ring = SubSeq(r, v + 1, Len(r)) \o SubSeq(r, 1, v - 1) \o <<p>>]
          ELSE IF s.disk THEN Refused(s, p) ELSE s

\* monitor_daemon_collect_to_ring; a payload that cannot be built is dropped.
Collect(s, hdr) ==
  {s} \cup {Insert(s, Payload(i, hdr)) :
             i \in {k \in FreeIds(s) : \A l \in FreeIds(s) : k <= l}}

\* A message is one payload, or up to MaxBatch payloads without a `$` in front.
Mergeable(m) ==
  Len(m) = 1 \/ (Len(m) <= MaxBatch /\ \A n \in DOMAIN m : ~IsSchema(m[n]))

\* The ways to cut the front of the ring into messages: the last position of each.
\* At least one is sent, all of them unless a budget runs out.
Cuts(r, broker) ==
  {C \in SUBSET DOMAIN r :
     /\ C # {} /\ (broker = "up" => Len(r) \in C)
     /\ \A n \in C : \E k \in (C \cup {0}) :
          /\ k < n /\ \A c \in C : ~(k < c /\ c < n)
          /\ Mergeable(SubSeq(r, k + 1, n))}

\* Mutant of MessagesOf: the copy of a batch stops one payload too early.
MessagesOfShort(r, C) ==
  {SubSeq(r, y[1] + 1, y[2] - 1) : y \in
     {x \in (C \cup {0}) \X C : x[1] < x[2] /\ \A c \in C : ~(x[1] < c /\ c < x[2])}}

\* The messages of a cut.
MessagesOf(r, C) ==
  {SubSeq(r, y[1] + 1, y[2]) : y \in
     {x \in (C \cup {0}) \X C : x[1] < x[2] /\ \A c \in C : ~(x[1] < c /\ c < x[2])}}

\* ring_buffer_drop_first, n times.
Drop(r, n) == SubSeq(r, n + 1, Len(r))

\* ring_buffer_resend_limited: payloads leave the ring once they are published.
Resend(s) ==
  IF s.broker = "down" \/ s.ring = <<>> THEN {s}
  ELSE {[s EXCEPT !.ring = Drop(@, CHOOSE n \in C : \A k \in C : k <= n),
                  !.out = @ \cup MessagesOf(s.ring, C)] : C \in Cuts(s.ring, s.broker)}

ResendIfNonempty(s) ==
  {[t EXCEPT !.succ = IF t.ring = <<>> THEN @ ELSE 0] : t \in Resend(s)}

\* monitor_daemon_rotate_collect_flush.
RotateFlush(s) == Then(Collect(s, TRUE), ResendIfNonempty)

\* Mutant of Unlink: the dumpfile is left in place.
UnlinkNot(s, d) == s

Unlink(s, d) == [s EXCEPT !.files[d] = <<>>]

\* monitor_daemon_replay_one_dumpfile, with what the loop does about its result;
\* left: files listed and not yet tried, whole: files drained to the end.
ReplayOne(x, d) ==
  LET loaded == Unlink([x.s EXCEPT !.ring = @ \o Reload(x.s.files[d])], d)
      After(t) ==
        IF t.ring = <<>> THEN [s |-> t, left |-> x.left \ {d}, whole |-> x.whole + 1, go |-> TRUE]
        ELSE [s |-> [t EXCEPT !.succ = 0], left |-> x.left \ {d}, whole |-> x.whole, go |-> FALSE]
  IN IF ~x.s.disk THEN {[x EXCEPT !.s.succ = 0, !.go = FALSE]}
     ELSE {After(t) : t \in Resend(loaded)}

Round(x) ==
  IF ~x.go \/ x.left = {} \/ x.whole >= MaxFiles THEN {x}
  ELSE UNION {ReplayOne(x, d) : d \in x.left}

\* send_dumpfile_stats: the files in the order of the directory, until one is not
\* drained; file mode ends when none is left of those listed.
SendDumps(s) ==
  LET listed == {d \in Days : s.files[d] # <<>>}
      rounds[n \in 0 .. Cardinality(Days)] ==
        IF n = 0 THEN {[s |-> s, left |-> listed, whole |-> 0, go |-> TRUE]}
        ELSE Then(rounds[n - 1], Round)
  IN IF listed = {} THEN {s}
     ELSE {IF x.left = {} THEN [x.s EXCEPT !.mode = FALSE] ELSE x.s :
             x \in rounds[Cardinality(Days)]}

\* Mutant of Prime: dumpfiles of an earlier run are not noticed.
PrimeNot(s) == s

\* monitor_daemon_prime_file_mode_from_dumpdir.
Prime(s) ==
  IF \E d \in Days : s.files[d] # <<>> THEN [s EXCEPT !.mode = TRUE, !.succ = 0] ELSE s

\* The payloads of a ring one after the other.
Joined(r) ==
  LET upTo[n \in 0 .. Len(r)] == IF n = 0 THEN <<>> ELSE upTo[n - 1] \o r[n]
  IN upTo[Len(r)]

\* save_file_ring_buffer.
SaveRing(s) == IF s.disk THEN [s EXCEPT !.files[day] = @ \o Joined(s.ring)] ELSE s

-----------------------------------------------------------------------------
(* The callbacks. *)

Init ==
  /\ ring = <<>> /\ files = [d \in Days |-> <<>>] /\ mode = FALSE /\ succ = 0 /\ out = {}
  /\ jobid = NoJob /\ running = "down" /\ day \in Days
  /\ calm = FALSE

\* main: dumpfiles are noticed, a schema payload is published, then dumpfiles are
\* replayed whether or not it left the ring.
Start(h) ==
  /\ running # "up" /\ running' = "up"
  /\ jobid' \in JobIds \cup {NoJob}
  /\ Becomes(Then(RotateFlush(Prime([h EXCEPT !.mode = FALSE, !.succ = 0])), SendDumps))
  /\ UNCHANGED day

RotateTimer(h) ==
  /\ running = "up"
  /\ Becomes(RotateFlush(h))
  /\ UNCHANGED <<jobid, running, day>>

SampleTimer(h) ==
  /\ running = "up"
  /\ Becomes(Collect(h, FALSE))
  /\ UNCHANGED <<jobid, running, day>>

\* monitor_daemon_send_timer_cb: dumpfiles wait for SuccMax sends that shortened the ring.
SendTimer(h) ==
  LET Count(s) ==
        {[s EXCEPT !.succ = IF Len(s.ring) < Len(ring)
                              THEN IF @ < SuccMax THEN @ + 1 ELSE @
                              ELSE IF s.ring # <<>> THEN 0 ELSE @]}
      Dumps(s) ==
        IF s.mode /\ s.ring = <<>> /\ s.succ >= SuccMax THEN SendDumps(s) ELSE {s}
  IN /\ running = "up"
     /\ Becomes(Then(Then(ResendIfNonempty(h), Count), Dumps))
     /\ UNCHANGED <<jobid, running, day>>

\* monitor_daemon_fd_cb: a job's end collects a schema payload; dumpfiles are
\* replayed then only if the ring is empty all the same.
JobChange(h) ==
  LET Dumps(s) ==
        IF s.mode /\ s.ring = <<>> /\ jobid' = NoJob /\ s.succ > 0
          THEN SendDumps(s) ELSE {s}
  IN /\ running = "up"
     /\ jobid' \in (JobIds \cup {NoJob}) \ {jobid}
     /\ Becomes(Then(Collect(h, jobid' = NoJob), Dumps))
     /\ UNCHANGED <<running, day>>

\* monitor_daemon_signal_cb_hup.
Hup(h) ==
  LET Dumps(s) == IF s.ring = <<>> THEN SendDumps(s) ELSE {s}
      Reset(s) == {[s EXCEPT !.succ = 0]}
  IN /\ running = "up"
     /\ Becomes(Then(Then(Then(ResendIfNonempty(Prime(h)), Dumps), Reset), RotateFlush))
     /\ UNCHANGED <<jobid, running, day>>

\* monitor_daemon_signal_cb_int.
Term(h) ==
  /\ running = "up" /\ running' = "down"
  /\ Becomes({[SaveRing(s) EXCEPT !.ring = <<>>] : s \in ResendIfNonempty(h)})
  /\ UNCHANGED <<jobid, day>>

\* The process dies (power, kill -9): what is in memory is gone.
Crash(h) ==
  /\ running = "up" /\ running' = "crashed"
  /\ Becomes({[h EXCEPT !.ring = <<>>]})
  /\ UNCHANGED <<jobid, day>>

\* A day's name is not used again while its dumpfile is there.
NextDay ==
  /\ day' \in {d \in Days : d # day /\ files[d] = <<>>}
  /\ out' = {}
  /\ UNCHANGED <<ring, files, mode, succ, jobid, running>>

Timers(h) == RotateTimer(h) \/ SampleTimer(h) \/ SendTimer(h)
Signals(h) == Start(h) \/ JobChange(h) \/ Hup(h) \/ Term(h) \/ Crash(h)

\* Broker and dump directory fail as they like, until they no longer do; after
\* that only the timers fire.
Troubled ==
  /\ ~calm /\ UNCHANGED calm
  /\ \E broker \in Brokers, disk \in BOOLEAN :
       Timers(Here(broker, disk)) \/ Signals(Here(broker, disk))
Recovered ==
  /\ running = "up" /\ ~calm /\ calm' = TRUE
  /\ out' = {}
  /\ UNCHANGED <<ring, files, mode, succ, jobid, running, day>>
Healthy == calm /\ UNCHANGED calm /\ Timers(Here("up", TRUE))

Next == Troubled \/ Recovered \/ Healthy \/ (NextDay /\ UNCHANGED calm)

Spec == Init /\ [][Next]_vars

\* Timers keep firing and samples can be built; rotations are hours apart and sends
\* minutes, so sends do find the ring nonempty again and again.
Fairness ==
  /\ WF_vars(calm /\ UNCHANGED calm /\ SampleTimer(Here("up", TRUE)) /\ ring' # ring)
  /\ SF_vars(calm /\ UNCHANGED calm /\ ring # <<>> /\ SendTimer(Here("up", TRUE)))

FairSpec == Spec /\ Fairness

-----------------------------------------------------------------------------
(* Properties. *)

Piece == {Hdr(i) : i \in 1 .. NumIds} \cup {Sample(i) : i \in 1 .. NumIds}
Texts == Range(ring) \cup Range(files)

\* The state of the daemon: payloads and dumpfiles are sequences of pieces, only a
\* running daemon holds any in memory, and no published message is empty.
TypeOK ==
  /\ \A t \in Texts : Range(t) \subseteq Piece \cup {Blank}
  /\ running \in {"up", "down", "crashed"} /\ (running # "up" => ring = <<>>)
  /\ mode \in BOOLEAN /\ succ \in 0 .. SuccMax /\ day \in Days
  /\ jobid \in JobIds \cup {NoJob}
  /\ \A m \in out : m # <<>> /\ m \in Seq(Range(m))

Places(f, x) ==
  UNION {{<<n, k>> : k \in {j \in DOMAIN f[n] : f[n][j] = x}} : n \in DOMAIN f}
Occurrences(x) == Cardinality(Places(ring, x)) + Cardinality(Places(files, x))

\* No collected piece is held twice, in the ring or in dumpfiles, and none is still
\* held by the callback that published it: publish then drop, load then remove, and
\* replay in batches never duplicate a sample.
HeldOnce ==
  \A x \in Piece : Occurrences(x) <= IF x \in Published(out) THEN 0 ELSE 1

Held == PiecesOf(ring) \cup InFiles(files)
Payloads == Range(ring) \cup UNION {Range(Reload(files[d])) : d \in Days}

Overwritten(lost) ==
  /\ Cardinality(Payloads) >= MaxBuffer
  /\ \E p \in Payloads : ~IsSchema(p) /\ lost = Pieces(p)

\* What a step loses, and how the step explains it.
Lost == Held \ (Held' \cup Published(out'))
LossExplained ==
  CASE running' = "up" -> Lost = {} \/ Overwritten(Lost)
    [] running' = "crashed" -> Lost \subseteq PiecesOf(ring)
    [] running' = "down" -> Lost # {} =>
         ~ \E broker \in Brokers : Term(Here(broker, TRUE))

\* While the daemon runs, a held piece disappears unpublished only as part of one
\* payload without a leading `$`, in the ring or just reloaded into it, that is
\* overwritten because the ring is full.  A stop that can write the dump directory
\* keeps everything, and what is in dumpfiles outlives a crash.
LossAccounted == [][LossExplained]_vars

\* Once broker and dump directory work, the send timer replays every dumpfile,
\* those of earlier runs of the daemon and those still written included.
DumpsReplayed == calm ~> InFiles(files) = {}
=============================================================================
