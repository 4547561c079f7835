--------------------------- MODULE SlowLogCollector ---------------------------
(***************************************************************************)
(* The slow-log collector of one node.  A poll reads a window of the        *)
(* records DAS has published, newest first and page by page, while more of  *)
(* them are published; it stores those it does not know, and then moves its *)
(* watermark to the end of the window.  Every window starts some way before *)
(* the watermark, to find records that were published late.                 *)
(*                                                                          *)
(* One call of the API, one commit or one write of the state file is one    *)
(* step.  DAS, the clock, the index worker, a shutdown and crashes          *)
(* interleave with the polls.                                               *)
(***************************************************************************)
EXTENDS Integers, FiniteSets

CONSTANTS
    MaxRecords,   \* bound: slow statements
    Lag,          \* lag_seconds: a window ends this long ago
    Lookback,     \* initial_lookback_minutes
    Replay,       \* replay_seconds
    ReplayFloor,  \* _MIN_ADAPTIVE_REPLAY_SECONDS
    Forward,      \* max_window_minutes
    ForwardFloor, \* _MIN_FORWARD_SECONDS
    PageSize,     \* _API_PAGE_SIZE
    MaxPages,     \* _MAX_PAGES
    Budget,       \* the records _PAGE_BUDGET pages hold
    Budgets       \* bounds: ticks of the clock, failed steps, shutdowns and crashes

ASSUME RecordsAssumption == MaxRecords \in Nat
ASSUME WindowAssumption ==
    /\ {Lag, Lookback, Replay, ReplayFloor, Forward, ForwardFloor, Budget} \subseteq Nat
    /\ {PageSize, MaxPages} \subseteq Nat \ {0}
    /\ 0 < ReplayFloor /\ ReplayFloor <= Replay /\ 0 < ForwardFloor /\ ForwardFloor <= Forward
ASSUME BudgetsAssumption == Budgets \subseteq [tick : Nat, fault : Nat, restart : Nat]

VARIABLES
    now,      \* the clock
    time,     \* the records DAS shows, each with its start
    late,     \* those among them that appeared after the lag
    store,    \* committed batches, each a set of records
    disk,     \* the state file, or None
    mem,      \* watermark, _seen_ids and the sizes of the next windows
    poll,     \* the poll under way
    stop,     \* the _stop event
    origin,   \* ghost: the watermark the collection began with
    cut,      \* ghost: a shutdown has left a window half read
    left      \* remaining budgets

outside == <<now, time, late>>
vars == <<now, time, late, store, disk, mem, poll, stop, origin, cut, left>>

Records == 1..MaxRecords  \* numbered as they appear

None == [mark |-> 0]
Idle == [at |-> "idle", start |-> 0, end |-> 0, page |-> 1, observed |-> {}, events |-> {},
         count |-> 0, oldest |-> 0, truncated |-> FALSE, left |-> FALSE]

Larger(a, b) == IF a > b THEN a ELSE b
Smaller(a, b) == IF a < b THEN a ELSE b

Spend(what) == left[what] > 0 /\ left' = [left EXCEPT ![what] = @ - 1]
Horizon == now + left.tick

Visible == DOMAIN time
Stored == UNION store

\* _load_watermark, and the lookback of a first start.
Loaded(t) ==
    IF disk # None THEN disk
    ELSE [mark |-> t - Lookback, seen |-> {}, replay |-> Replay, forward |-> Forward]

Init ==
    /\ now = Lookback + 1
    /\ \E n \in 0..MaxRecords : time \in [1..n -> 1..now]
    /\ late = {} /\ store = {} /\ disk = None
    /\ mem = [mark |-> 1, seen |-> {}, replay |-> Replay, forward |-> Forward]
    /\ poll = Idle /\ stop = FALSE /\ origin = 1 /\ cut = FALSE /\ left \in Budgets

(***************************************************************************)
(* What happens around the collector.                                       *)
(***************************************************************************)
Tick ==
    /\ Spend("tick") /\ now' = now + 1
    /\ UNCHANGED <<time, late, store, disk, mem, poll, stop, origin, cut>>

\* DAS publishes a statement when it has ended: the later, the longer it ran.
Publish(t) ==
    LET r == Cardinality(Visible) + 1 IN
    /\ r \in Records
    /\ time' = [s \in 1..r |-> IF s = r THEN t ELSE time[s]]
    /\ late' = IF t + Lag <= now THEN late \cup {r} ELSE late
    /\ UNCHANGED <<now, store, disk, mem, poll, stop, origin, cut, left>>

(***************************************************************************)
(* The listing of a window.                                                 *)
(***************************************************************************)
Window(from, to) == {r \in Visible : from <= time[r] /\ time[r] <= to}

\* Those of one moment are listed as they appeared, the last one first.
Newer(r, s) == time[r] > time[s] \/ (time[r] = time[s] /\ r > s)

Page(W, n) ==
    {r \in W : LET before == Cardinality({s \in W : Newer(s, r)})
               IN  (n - 1) * PageSize <= before /\ before < n * PageSize}

(***************************************************************************)
(* The poll (_poll_once).                                                   *)
(***************************************************************************)
End == Smaller(now - Lag, mem.mark + Smaller(Forward, mem.forward))

BeginPoll ==
    /\ poll.at = "idle" /\ ~stop /\ now - Lag > mem.mark
    /\ poll' = [Idle EXCEPT !.at = "page", !.start = Larger(mem.mark - mem.replay, 0), !.end = End]
    /\ UNCHANGED <<outside, store, disk, mem, stop, origin, cut, left>>

\* Nothing to read yet; the state is written all the same.
NothingNew ==
    /\ poll.at = "idle" /\ ~stop /\ now - Lag <= mem.mark /\ disk # mem
    /\ poll' = [poll EXCEPT !.at = "save"]
    /\ UNCHANGED <<outside, store, disk, mem, stop, origin, cut, left>>

PageEnds(got, seen, W) == Cardinality(got) < PageSize \/ seen >= Cardinality(W)

ReadPage ==
    /\ poll.at = "page" /\ ~stop /\ poll.page <= MaxPages
    /\ LET W == Window(poll.start, poll.end)
           got == Page(W, poll.page)
           count == poll.count + Cardinality(got)
           times == {time[r] : r \in got} \cup ({poll.oldest} \ {0})
       IN  poll' = [poll EXCEPT
               !.at = IF PageEnds(got, count, W) THEN "dedupe" ELSE "page",
               !.page = @ + 1,
               !.observed = @ \cup got,
               !.events = @ \cup (got \ (poll.observed \cup mem.seen)),
               !.count = count,
               !.oldest = IF times = {} THEN 0 ELSE CHOOSE t \in times : \A u \in times : t <= u]
    /\ UNCHANGED <<outside, store, disk, mem, stop, origin, cut, left>>

PageCap ==
    /\ poll.at = "page" /\ ~stop /\ poll.page > MaxPages
    /\ poll' = [poll EXCEPT !.at = "dedupe", !.truncated = TRUE]
    /\ UNCHANGED <<outside, store, disk, mem, stop, origin, cut, left>>

\* "while not self._stop.is_set()": a shutdown ends the reading, and the poll goes on.
LeaveLoop ==
    /\ poll.at = "page" /\ stop
    /\ poll' = [poll EXCEPT !.at = "dedupe", !.left = TRUE]
    /\ UNCHANGED <<outside, store, disk, mem, stop, origin, cut, left>>

\* Mutant of Reached: a poll that was cut short moves the watermark too.
ReachedAlways == TRUE

\* Was everything newer than the watermark read?
Reached == ~poll.truncated \/ (0 < poll.oldest /\ poll.oldest <= mem.mark)

\* Mutants: the window forward grows without its limit; it is never shortened.
GrownUncapped == mem.forward * 2
ShortenedNever == mem.forward

Grown == Smaller(Forward, mem.forward * 2)
Shortened == Larger(ForwardFloor, mem.forward \div 2)

\* _tune_window: the sizes of the next windows.
Tuned ==
    LET fit == (Budget * Larger(poll.end - poll.start, 1)) \div poll.count - (poll.end - mem.mark) IN
    IF poll.truncated
    THEN [replay  |-> Larger(ReplayFloor, mem.replay \div 2),
          forward |-> IF Reached THEN mem.forward ELSE Shortened]
    ELSE [replay  |-> IF poll.count = 0 THEN Replay ELSE Smaller(Replay, Larger(ReplayFloor, fit)),
          forward |-> Grown]

\* What was read is known from now on, and the watermark moves.
Finish ==
    /\ mem' = [mark |-> IF Reached THEN poll.end ELSE mem.mark, seen |-> poll.observed,
               replay |-> Tuned.replay, forward |-> Tuned.forward]
    /\ poll' = [Idle EXCEPT !.at = "save"]
    /\ cut' = (cut \/ poll.left)

\* Mutant of Dedupe: what was read is known before it is stored.
DedupePublished ==
    /\ poll.at = "dedupe"
    /\ \E known \in {UNION built : built \in SUBSET store} :
         IF poll.events \subseteq known THEN Finish
         ELSE /\ poll' = [poll EXCEPT !.at = "ingest", !.events = @ \ known]
              /\ mem' = [mem EXCEPT !.seen = poll.observed] /\ UNCHANGED cut
    /\ UNCHANGED <<outside, store, disk, stop, origin, left>>

\* slowlog_existing_event_ids: the index knows the batches it has built by now; an
\* index that does not answer knows none.
Dedupe ==
    /\ poll.at = "dedupe"
    /\ \E known \in {UNION built : built \in SUBSET store} :
         IF poll.events \subseteq known THEN Finish
         ELSE /\ poll' = [poll EXCEPT !.at = "ingest", !.events = @ \ known]
              /\ UNCHANGED <<mem, cut>>
    /\ UNCHANGED <<outside, store, disk, stop, origin, left>>

\* A batch is a file named for its events: what is stored already is not stored again.
Batch(events) == store \cup {events}

\* _ingest_batch: the file is hidden until all of it is there.
Ingest ==
    /\ poll.at = "ingest"
    /\ store' = Batch(poll.events) /\ Finish
    /\ UNCHANGED <<outside, disk, stop, origin, left>>

\* _save_watermark
Save ==
    /\ poll.at = "save"
    /\ disk' = mem /\ poll' = Idle
    /\ UNCHANGED <<outside, store, mem, stop, origin, cut, left>>

\* An exception ends the poll: a failed call, a full disk, a busy catalog before the
\* batch is stored or a busy index after it.
PollFails ==
    /\ poll.at \in {"page", "ingest", "save"} /\ Spend("fault")
    /\ store' \in IF poll.at = "ingest" THEN {store, Batch(poll.events)} ELSE {store}
    /\ poll' = Idle
    /\ UNCHANGED <<outside, disk, mem, stop, origin, cut>>

(***************************************************************************)
(* Shutdowns and crashes.                                                   *)
(***************************************************************************)
Shutdown ==
    /\ ~stop /\ left.restart > 0 /\ stop' = TRUE
    /\ UNCHANGED <<outside, store, disk, mem, poll, origin, cut, left>>

\* The process ends at any step, after a shutdown or without one, and a new one begins.
Restart ==
    /\ Spend("restart")
    /\ mem' = Loaded(now) /\ poll' = Idle /\ stop' = FALSE
    /\ origin' = IF disk = None THEN Loaded(now).mark ELSE origin
    /\ UNCHANGED <<outside, store, disk, cut>>

Poll ==
    \/ BeginPoll \/ NothingNew \/ ReadPage \/ PageCap \/ LeaveLoop
    \/ Dedupe \/ Ingest \/ Save

Next ==
    \/ Tick \/ Poll \/ PollFails \/ Shutdown \/ Restart
    \/ \E t \in 1..now : Publish(t)

Spec == Init /\ [][Next]_vars

\* The collector's thread polls for as long as it runs, and a service that was
\* shut down is started again.
FairSpec == Spec /\ WF_vars(Tick) /\ WF_vars(Poll) /\ WF_vars(stop /\ Restart)

(***************************************************************************)
(* Properties.                                                              *)
(***************************************************************************)
States == [mark : Int, seen : SUBSET Records, replay : ReplayFloor..Replay, forward : ForwardFloor..Forward]

TypeOK ==
    /\ now \in Nat /\ Visible \subseteq Records /\ \A r \in Visible : time[r] \in 1..now
    /\ late \subseteq Visible /\ Stored \subseteq Visible
    /\ mem \in States /\ disk \in States \cup {None}
    /\ poll.at \in {"idle", "page", "dedupe", "ingest", "save"}
    /\ poll.at = "idle" => poll = Idle
    /\ poll.events \subseteq poll.observed /\ poll.observed \subseteq Visible
    /\ poll.page \in 1..MaxPages + 1 /\ {stop, cut} \subseteq BOOLEAN

\* What a poll skips as known is stored: "publishing before commit made a
\* transient SQLite lock permanently suppress the retry".
SeenIsStored == mem.seen \subseteq Stored /\ (disk # None => disk.seen \subseteq Stored)

\* The watermark passes no record that was shown in time, whatever fails, is cut
\* short or restarts; a shutdown that left a window half read is the exception.
PassedIsStored ==
    ~cut => \A r \in Visible \ late : origin < time[r] /\ time[r] <= mem.mark => r \in Stored

\* No window of the smallest size holds more records than a poll may read.
Sparse ==
    \A t \in 0..Horizon :
        Cardinality({r \in Visible : t < time[r] /\ time[r] <= t + ForwardFloor}) < PageSize * MaxPages

\* Every record shown in time is stored in the end, unless its moment is so busy
\* that not even the smallest window can be read.
Owed(r) == r \in Visible \ late /\ origin < time[r] /\ time[r] <= Horizon - Lag

EventuallyStored ==
    \A r \in Records : Owed(r) ~> (r \in Stored \/ ~Owed(r) \/ ~Sparse \/ cut)
=============================================================================
