------------------------- MODULE SlowLogCollectorProofs -------------------------
(***************************************************************************)
(* Proofs about SlowLogCollector, for any number of records, any windows,   *)
(* page sizes, page caps and budgets: nothing is skipped that is not        *)
(* stored, and the watermark passes nothing that was shown in time.  The    *)
(* second rests on how the pages of a listing shift while records appear.   *)
(***************************************************************************)
EXTENDS SlowLogCollector, FiniteSetTheorems, WellFoundedInduction, TLAPS

-----------------------------------------------------------------------------
(***************************************************************************)
(* Arithmetic.                                                              *)
(***************************************************************************)
LEMMA LargerFacts ==
    ASSUME NEW a \in Int, NEW b \in Int
    PROVE  Larger(a, b) \in {a, b} /\ a <= Larger(a, b) /\ b <= Larger(a, b)
BY DEF Larger

LEMMA SmallerFacts ==
    ASSUME NEW a \in Int, NEW b \in Int
    PROVE  Smaller(a, b) \in {a, b} /\ Smaller(a, b) <= a /\ Smaller(a, b) <= b
BY DEF Smaller

\* A set of natural numbers has a least element: of its initial segments, which are
\* finite, one has no other inside it.
LEMMA LeastNatural ==
    ASSUME NEW S, S \subseteq Nat, S # {}
    PROVE  \E p \in S : \A q \in S : p <= q
<1> DEFINE Upto(p) == {q \in S : q <= p}
           T == {Upto(p) : p \in S}
<1>1. ASSUME NEW p \in S PROVE IsFiniteSet(Upto(p)) /\ Upto(p) \subseteq S
    <2>1. p \in Nat /\ \A q \in S : q <= p => q \in 0..p
        OBVIOUS
    <2>2. IsFiniteSet(0..p)
        BY <2>1, FS_Interval
    <2> QED BY <2>1, <2>2, FS_Subset
<1>2. T \subseteq FiniteSubsetsOf(S) /\ T # {}
    BY <1>1 DEF FiniteSubsetsOf
<1>3. PICK x \in T : \A y \in T : ~ (<<y, x>> \in StrictSubsetOrdering(S))
    <2> HIDE DEF T
    <2> QED BY <1>2, FS_StrictSubsetOrderingWellFounded, WFMin
<1>4. PICK p \in S : x = Upto(p)
    BY <1>3
<1>5. ASSUME NEW q \in S, q < p PROVE FALSE
    <2>1. Upto(q) \subseteq x
        <3> SUFFICES ASSUME NEW r \in S, r <= q PROVE r <= p
            BY <1>4
        <3> QED BY <1>5
    <2>2. p \in x /\ p \notin Upto(q)
        BY <1>4, <1>5
    <2>3. <<Upto(q), x>> \in StrictSubsetOrdering(S)
        BY <2>1, <2>2, <1>4 DEF StrictSubsetOrdering
    <2> QED BY <2>3, <1>3
<1> QED BY <1>5

-----------------------------------------------------------------------------
(***************************************************************************)
(* Listings: every record of a window has a rank, and the pages cut the     *)
(* ranks into intervals.                                                    *)
(***************************************************************************)
Rank(W, r) == Cardinality({s \in W : Newer(s, r)})

\* Records with a start, as DAS shows them.
Shown == \E n \in 0..MaxRecords : time \in [1..n -> 1..now]

LEMMA ShownFacts ==
    ASSUME now \in Nat, Shown
    PROVE  /\ IsFiniteSet(Visible) /\ Visible \subseteq Records /\ Visible \subseteq Nat
           /\ \A r \in Visible : time[r] \in 1..now /\ time[r] \in Nat
           /\ Cardinality(Visible) \in Nat /\ Visible = 1..Cardinality(Visible)
<1>1. PICK n \in 0..MaxRecords : time \in [1..n -> 1..now]
    BY DEF Shown
<1>2. Visible = 1..n /\ n \in Nat /\ n <= MaxRecords /\ MaxRecords \in Nat
    BY <1>1, RecordsAssumption DEF Visible
<1>3. IsFiniteSet(1..n) /\ Cardinality(1..n) = n
    BY <1>2, FS_Interval
<1> QED BY <1>1, <1>2, <1>3 DEF Records

LEMMA RankFacts ==
    ASSUME now \in Nat, Shown, NEW W, W \subseteq Visible
    PROVE  /\ IsFiniteSet(W) /\ Cardinality(W) \in Nat
           /\ \A r \in W : Rank(W, r) \in Nat /\ Rank(W, r) < Cardinality(W)
           /\ \A r, s \in W : Newer(s, r) => Rank(W, s) < Rank(W, r)
           /\ \A r, s \in W : Rank(W, r) = Rank(W, s) => r = s
<1>1. IsFiniteSet(W) /\ Cardinality(W) \in Nat
    BY ShownFacts, FS_Subset, FS_CardinalityType
<1> DEFINE Above(r) == {s \in W : Newer(s, r)}
<1>2. \A r \in W : r \in Nat /\ time[r] \in Nat
    BY ShownFacts
<1>3. ASSUME NEW A, NEW B, IsFiniteSet(B), A \subseteq B, A # B
      PROVE  Cardinality(A) \in Nat /\ Cardinality(B) \in Nat /\ Cardinality(A) < Cardinality(B)
    <2>1. IsFiniteSet(A) /\ Cardinality(A) <= Cardinality(B) /\ Cardinality(A) # Cardinality(B)
        BY <1>3, FS_Subset
    <2>2. Cardinality(A) \in Nat /\ Cardinality(B) \in Nat
        BY <1>3, <2>1, FS_CardinalityType
    <2> QED BY <2>1, <2>2
<1>4. ASSUME NEW r \in W PROVE Rank(W, r) \in Nat /\ Rank(W, r) < Cardinality(W)
    <2>1. r \notin Above(r)
        BY <1>2 DEF Newer
    <2>2. Above(r) \subseteq W /\ Above(r) # W
        BY <2>1
    <2> QED BY <2>2, <1>1, <1>3 DEF Rank
<1>5. ASSUME NEW r \in W, NEW s \in W, Newer(s, r) PROVE Rank(W, s) < Rank(W, r)
    <2>1. s \in Above(r) /\ s \notin Above(s)
        BY <1>2, <1>5 DEF Newer
    <2>2. Above(s) \subseteq Above(r)
        <3> SUFFICES ASSUME NEW u \in W, Newer(u, s) PROVE Newer(u, r)
            OBVIOUS
        <3> QED BY <1>2, <1>5 DEF Newer
    <2>3. IsFiniteSet(Above(r))
        BY <1>1, FS_Subset
    <2> QED BY <2>1, <2>2, <2>3, <1>3 DEF Rank
<1>6. ASSUME NEW r \in W, NEW s \in W, Rank(W, r) = Rank(W, s) PROVE r = s
    <2>1. Newer(r, s) \/ Newer(s, r) \/ r = s
        BY <1>2 DEF Newer
    <2>2. ~Newer(r, s) /\ ~Newer(s, r)
        BY <1>4, <1>5, <1>6
    <2> QED BY <2>1, <2>2
<1> QED BY <1>1, <1>4, <1>5, <1>6

\* No rank is left out.
LEMMA EveryRank ==
    ASSUME now \in Nat, Shown, NEW W, W \subseteq Visible, NEW k \in Nat, k < Cardinality(W)
    PROVE  \E r \in W : Rank(W, r) = k
<1> DEFINE c == Cardinality(W)
           R == 0..(c - 1)
           f == [r \in W |-> Rank(W, r)]
<1>1. IsFiniteSet(W) /\ c \in Nat
    BY RankFacts
<1>2. IsFiniteSet(R) /\ Cardinality(R) = c
    <2> HIDE DEF c
    <2> QED BY <1>1, FS_Interval
<1>3. f \in [W -> R] /\ \A a, b \in W : f[a] = f[b] => a = b
    BY RankFacts
<1>4. f \in Injection(W, R)
    BY <1>3 DEF Injection, IsInjective
<1>5. f \in Surjection(W, R)
    <2> HIDE DEF f, R
    <2> QED BY <1>2, <1>4, FS_Injection
<1>6. k \in R
    BY <1>1
<1> QED BY <1>5, <1>6 DEF Surjection

LEMMA Pages ==
    ASSUME NEW n \in Nat \ {0}
    PROVE  /\ (n - 1) * PageSize \in Nat /\ n * PageSize \in Nat
           /\ n * PageSize = (n - 1) * PageSize + PageSize
           /\ PageSize \in Nat /\ PageSize > 0
BY WindowAssumption

\* A page has no more records than fit, and one that is not full is the last.
LEMMA PageFacts ==
    ASSUME now \in Nat, Shown, NEW W, W \subseteq Visible, NEW n \in Nat \ {0}
    PROVE  /\ Page(W, n) = {r \in W : (n - 1) * PageSize <= Rank(W, r) /\ Rank(W, r) < n * PageSize}
           /\ IsFiniteSet(Page(W, n)) /\ Cardinality(Page(W, n)) \in Nat
           /\ Cardinality(Page(W, n)) <= PageSize
           /\ Cardinality(Page(W, n)) < PageSize => \A r \in W : Rank(W, r) < n * PageSize
<1> DEFINE P == Page(W, n)
           lo == (n - 1) * PageSize
           R == lo..(lo + PageSize - 1)
           f == [r \in P |-> Rank(W, r)]
<1>1. P = {r \in W : lo <= Rank(W, r) /\ Rank(W, r) < n * PageSize}
    BY DEF Page, Rank
<1>2. IsFiniteSet(P) /\ Cardinality(P) \in Nat
    BY <1>1, RankFacts, FS_Subset, FS_CardinalityType
<1>3. lo \in Nat /\ n * PageSize = lo + PageSize /\ PageSize \in Nat /\ PageSize > 0
    BY Pages
<1>4. IsFiniteSet(R) /\ Cardinality(R) = PageSize
    <2> HIDE DEF lo
    <2> QED BY <1>3, FS_Interval
<1>5. f \in [P -> R] /\ \A a, b \in P : f[a] = f[b] => a = b
    <2> HIDE DEF lo, P
    <2> QED BY <1>1, <1>3, RankFacts
<1>6. Cardinality(P) <= PageSize
    <2>1. f \in Injection(P, R)
        BY <1>5 DEF Injection, IsInjective
    <2> HIDE DEF f, R, P
    <2> QED BY <2>1, <1>4, FS_Injection
<1>7. ASSUME NEW r \in W, Rank(W, r) >= n * PageSize PROVE Cardinality(P) >= PageSize
    <2>1. ASSUME NEW k \in R PROVE \E s \in P : f[s] = k
        <3>1. k \in Nat /\ lo <= k /\ k < n * PageSize
            <4> HIDE DEF lo
            <4> QED BY <1>3
        <3>2. k < Cardinality(W)
            <4> HIDE DEF lo
            <4> QED BY <3>1, <1>3, <1>7, RankFacts
        <3>3. PICK s \in W : Rank(W, s) = k
            BY <3>1, <3>2, EveryRank
        <3> QED BY <3>1, <3>3, <1>1
    <2>2. f \in Surjection(P, R)
        BY <1>5, <2>1 DEF Surjection
    <2> HIDE DEF f, R, P
    <2> QED BY <2>2, <1>2, <1>4, FS_Surjection
<1>8. Cardinality(P) < PageSize => \A r \in W : Rank(W, r) < n * PageSize
    <2> DEFINE hi == n * PageSize
    <2>1. hi \in Nat /\ PageSize \in Nat
        BY Pages
    <2>2. \A r \in W : Rank(W, r) \in Nat
        BY RankFacts
    <2>3. \A r \in W : Rank(W, r) >= hi => Cardinality(P) >= PageSize
        BY <1>7
    <2> HIDE DEF P, hi
    <2>4. Cardinality(P) < PageSize => \A r \in W : Rank(W, r) < hi
        BY <1>2, <2>1, <2>2, <2>3
    <2> QED BY <2>4 DEF hi
<1> QED BY <1>1, <1>2, <1>6, <1>8

-----------------------------------------------------------------------------
(***************************************************************************)
(* Types, and what is known as seen.                                        *)
(***************************************************************************)
Stages == {"idle", "page", "dedupe", "ingest", "save"}

Polls(V) ==
    [at : Stages, start : Int, end : Int, page : 1..MaxPages + 1, observed : SUBSET V,
     events : SUBSET V, count : Nat, oldest : Nat, truncated : BOOLEAN, left : BOOLEAN]

PollType == Polls(Visible)

\* The fields of a poll, and polls with some of them changed.
LEMMA PollFields ==
    ASSUME NEW V, NEW p \in Polls(V)
    PROVE  /\ p.at \in Stages /\ p.start \in Int /\ p.end \in Int /\ p.page \in 1..MaxPages + 1
           /\ p.observed \subseteq V /\ p.events \subseteq V /\ p.count \in Nat /\ p.oldest \in Nat
           /\ p.truncated \in BOOLEAN /\ p.left \in BOOLEAN
BY DEF Polls

LEMMA WiderPolls ==
    ASSUME NEW V, NEW U, V \subseteq U, NEW p \in Polls(V)
    PROVE  p \in Polls(U)
BY DEF Polls

LEMMA PollMoves ==
    ASSUME NEW V, NEW p \in Polls(V), NEW a \in Stages
    PROVE  [p EXCEPT !.at = a] \in Polls(V)
BY DEF Polls

LEMMA PollTruncated ==
    ASSUME NEW V, NEW p \in Polls(V), NEW a \in Stages
    PROVE  [p EXCEPT !.at = a, !.truncated = TRUE] \in Polls(V)
BY DEF Polls

LEMMA PollLeft ==
    ASSUME NEW V, NEW p \in Polls(V), NEW a \in Stages
    PROVE  [p EXCEPT !.at = a, !.left = TRUE] \in Polls(V)
BY DEF Polls

LEMMA PollStores ==
    ASSUME NEW V, NEW p \in Polls(V), NEW E, E \subseteq V, NEW a \in Stages
    PROVE  [p EXCEPT !.at = a, !.events = E] \in Polls(V)
BY DEF Polls

LEMMA PollReads ==
    ASSUME NEW V, NEW p \in Polls(V), NEW a \in Stages, NEW n \in 1..MaxPages + 1, NEW o \in SUBSET V,
           NEW e \in SUBSET V, NEW c \in Nat, NEW t \in Nat
    PROVE  [p EXCEPT !.at = a, !.page = n, !.observed = o, !.events = e, !.count = c, !.oldest = t] \in Polls(V)
BY DEF Polls

LEMMA IdlePolls ==
    ASSUME NEW V
    PROVE  Idle \in Polls(V) /\ [Idle EXCEPT !.at = "save"] \in Polls(V)
<1>1. 1 \in 1..MaxPages + 1
    BY WindowAssumption
<1>2. Idle \in Polls(V)
    BY <1>1 DEF Polls, Idle, Stages
<1> QED BY <1>2, PollMoves DEF Stages

LEMMA FirstPage ==
    ASSUME NEW V, NEW from \in Int, NEW to \in Int
    PROVE  [Idle EXCEPT !.at = "page", !.start = from, !.end = to] \in Polls(V)
<1>1. 1 \in 1..MaxPages + 1
    BY WindowAssumption
<1> QED BY <1>1 DEF Polls, Idle, Stages

Around ==
    /\ now \in Nat /\ Shown /\ origin \in Int
    /\ late \subseteq Visible /\ store \subseteq SUBSET Visible
    /\ mem \in States /\ disk \in States \cup {None}
    /\ stop \in BOOLEAN /\ cut \in BOOLEAN

Polling ==
    /\ poll \in PollType
    /\ poll.at = "idle" => poll = Idle
    /\ poll.events \subseteq poll.observed

Shape == Around /\ Polling

\* What a poll has read is stored, or among what it will store.
Seen ==
    /\ mem.seen \subseteq Stored /\ (disk # None => disk.seen \subseteq Stored)
    /\ poll.observed \subseteq poll.events \cup Stored

LEMMA Windows ==
    /\ {Lag, Lookback, Replay, ReplayFloor, Forward, ForwardFloor, Budget, PageSize, MaxPages} \subseteq Nat
    /\ 0 < ReplayFloor /\ ReplayFloor <= Replay /\ 0 < ForwardFloor /\ ForwardFloor <= Forward
    /\ 0 < PageSize /\ 0 < MaxPages
BY WindowAssumption

LEMMA TunedTypes ==
    ASSUME mem \in States, poll \in PollType
    PROVE  Tuned.replay \in ReplayFloor..Replay /\ Tuned.forward \in ForwardFloor..Forward
<1>1. mem.replay \in ReplayFloor..Replay /\ mem.forward \in ForwardFloor..Forward /\ mem.mark \in Int
    BY DEF States
<1>2. poll.count \in Nat /\ poll.end \in Int /\ poll.start \in Int
    BY PollFields DEF PollType
<1> DEFINE span == Budget * Larger(poll.end - poll.start, 1)
           fit == span \div poll.count - (poll.end - mem.mark)
<1>3. poll.count # 0 => fit \in Int
    <2>1. Larger(poll.end - poll.start, 1) \in Int
        BY <1>2, LargerFacts
    <2>2. span \in Int
        BY <2>1, Windows
    <2>3. \A a \in Int, b \in Nat \ {0} : a \div b \in Int
        OBVIOUS
    <2> HIDE DEF span
    <2>4. poll.count # 0 => span \div poll.count \in Int
        BY <2>2, <2>3, <1>2
    <2> QED BY <2>4, <1>1, <1>2
<1>4. Larger(ReplayFloor, mem.replay \div 2) \in ReplayFloor..Replay
    <2>1. mem.replay \div 2 \in Int /\ mem.replay \div 2 <= Replay
        BY <1>1, Windows
    <2> QED BY <2>1, LargerFacts, Windows
<1>5. Shortened \in ForwardFloor..Forward
    <2>1. mem.forward \div 2 \in Int /\ mem.forward \div 2 <= Forward
        BY <1>1, Windows
    <2> QED BY <2>1, LargerFacts, Windows DEF Shortened
<1>6. Grown \in ForwardFloor..Forward
    <2>1. mem.forward * 2 \in Int /\ mem.forward * 2 >= ForwardFloor
        BY <1>1, Windows
    <2> QED BY <2>1, SmallerFacts, Windows DEF Grown
<1>7. poll.count # 0 => Smaller(Replay, Larger(ReplayFloor, fit)) \in ReplayFloor..Replay
    <2> HIDE DEF fit
    <2>1. fit \in Int => Larger(ReplayFloor, fit) \in Int /\ Larger(ReplayFloor, fit) >= ReplayFloor
        BY LargerFacts, Windows
    <2> QED BY <1>3, <2>1, SmallerFacts, Windows
<1>8. Replay \in ReplayFloor..Replay
    BY Windows
<1> HIDE DEF fit, span
<1>9. CASE poll.truncated
    <2>1. Tuned = [replay |-> Larger(ReplayFloor, mem.replay \div 2),
                   forward |-> IF Reached THEN mem.forward ELSE Shortened]
        BY <1>9 DEF Tuned
    <2> QED BY <2>1, <1>1, <1>4, <1>5
<1>10. CASE ~poll.truncated
    <2>1. Tuned = [replay |-> IF poll.count = 0 THEN Replay ELSE Smaller(Replay, Larger(ReplayFloor, fit)),
                   forward |-> Grown]
        BY <1>10 DEF Tuned, fit, span
    <2> QED BY <2>1, <1>6, <1>7, <1>8
<1> QED BY <1>9, <1>10

\* A new record comes after all others.
LEMMA Publishes ==
    ASSUME now \in Nat, Shown, NEW t \in 1..now, Publish(t)
    PROVE  LET r == Cardinality(Visible) + 1 IN
           /\ Shown' /\ Visible' = Visible \cup {r} /\ r \notin Visible /\ r \in Nat
           /\ \A s \in Visible : time'[s] = time[s] /\ s < r
           /\ time'[r] = t /\ late' = IF t + Lag <= now THEN late \cup {r} ELSE late
<1> DEFINE n == Cardinality(Visible)
           r == n + 1
<1>1. n \in Nat /\ Visible = 1..n /\ \A s \in Visible : time[s] \in 1..now
    BY ShownFacts
<1>2. r \in 0..MaxRecords
    BY <1>1, RecordsAssumption DEF Publish, Records
<1>3. time' = [s \in 1..r |-> IF s = r THEN t ELSE time[s]] /\ now' = now
    BY DEF Publish
<1> HIDE DEF n
<1>4. time' \in [1..r -> 1..now']
    BY <1>1, <1>3
<1>5. Visible' = 1..r /\ 1..r = 1..n \cup {r}
    BY <1>1, <1>3 DEF Visible
<1>6. Shown'
    BY <1>2, <1>4 DEF Shown
<1>7. late' = IF t + Lag <= now THEN late \cup {r} ELSE late
    BY DEF Publish, n
<1> QED BY <1>1, <1>3, <1>5, <1>6, <1>7 DEF n

LEMMA ShapeInit == Init => Shape /\ Seen
<1> SUFFICES ASSUME Init PROVE Shape /\ Seen
    OBVIOUS
<1>1. now \in Nat /\ Shown
    BY Windows DEF Init, Shown
<1>2. mem \in States /\ disk \in States \cup {None} /\ origin \in Int /\ mem.seen = {} /\ disk = None
    BY Windows DEF Init, States
<1>3. poll = Idle /\ Idle \in PollType /\ Idle.events = {} /\ Idle.observed = {} /\ Idle.at = "idle"
    BY IdlePolls DEF Init, Idle, PollType, Stages
<1> QED BY <1>1, <1>2, <1>3 DEF Init, Shape, Around, Polling, Seen

\* What a poll does at its end.
LEMMA Finishes ==
    ASSUME Shape, Finish
    PROVE  /\ mem' \in States /\ mem'.seen = poll.observed
           /\ mem'.mark = IF Reached THEN poll.end ELSE mem.mark
           /\ poll' \in Polls(Visible) /\ poll'.at = "save" /\ poll'.events = {} /\ poll'.observed = {}
           /\ cut' = (cut \/ poll.left) /\ cut' \in BOOLEAN
<1>1. mem' = [mark |-> IF Reached THEN poll.end ELSE mem.mark, seen |-> poll.observed,
              replay |-> Tuned.replay, forward |-> Tuned.forward]
    BY DEF Finish
<1>2. poll \in PollType /\ mem \in States /\ Visible \subseteq Records /\ cut \in BOOLEAN
    BY ShownFacts DEF Shape, Around, Polling
<1>3. poll.end \in Int /\ poll.observed \subseteq Visible /\ poll.left \in BOOLEAN
    BY <1>2, PollFields DEF PollType
<1>4. Tuned.replay \in ReplayFloor..Replay /\ Tuned.forward \in ForwardFloor..Forward
    BY <1>2, TunedTypes
<1>5. (IF Reached THEN poll.end ELSE mem.mark) \in Int
    BY <1>2, <1>3 DEF States
<1>6. mem' \in States
    BY <1>1, <1>2, <1>3, <1>4, <1>5 DEF States
<1>7. poll' = [Idle EXCEPT !.at = "save"] /\ cut' = (cut \/ poll.left)
    BY DEF Finish
<1>8. poll' \in Polls(Visible)
    BY <1>7, IdlePolls DEF Stages
<1>9. poll'.at = "save" /\ poll'.events = {} /\ poll'.observed = {}
    BY <1>7 DEF Idle
<1> QED BY <1>1, <1>2, <1>3, <1>6, <1>7, <1>8, <1>9

\* A step of the poll before its end: it reads, or moves from one stage to the next.
LEMMA PollSteps ==
    ASSUME Shape, Seen, UNCHANGED <<now, time, late, store, disk, mem, stop, origin, cut>>,
           poll' \in Polls(Visible), poll'.at = "idle" => poll' = Idle,
           poll'.events \subseteq poll'.observed, poll'.observed \subseteq poll'.events \cup Stored
    PROVE  Shape' /\ Seen'
<1>1. Visible' = Visible /\ Stored' = Stored /\ Shown'
    BY DEF Shape, Around, Visible, Stored, Shown
<1>2. Around'
    BY <1>1 DEF Shape, Around
<1>3. Polling'
    BY <1>1 DEF Polling, PollType
<1> QED BY <1>1, <1>2, <1>3 DEF Shape, Seen

LEMMA ReadPages ==
    ASSUME Shape, Seen, ReadPage
    PROVE  Shape' /\ Seen'
<1> DEFINE W == Window(poll.start, poll.end)
           got == Page(W, poll.page)
           count == poll.count + Cardinality(got)
           times == {time[r] : r \in got} \cup ({poll.oldest} \ {0})
           oldest == IF times = {} THEN 0 ELSE CHOOSE t \in times : \A u \in times : t <= u
           at == IF PageEnds(got, count, W) THEN "dedupe" ELSE "page"
<1>1. /\ poll \in Polls(Visible) /\ Shown /\ now \in Nat /\ W \subseteq Visible
      /\ poll.events \subseteq poll.observed
    BY DEF Shape, Around, Polling, PollType, Window
<1>2. /\ poll.page \in 1..MaxPages + 1 /\ poll.count \in Nat /\ poll.oldest \in Nat
      /\ poll.observed \subseteq Visible /\ poll.events \subseteq Visible
    BY <1>1, PollFields
<1>3. poll.page \in Nat \ {0} /\ poll.page + 1 \in 1..MaxPages + 1
    BY <1>2, Windows DEF ReadPage
<1>4. got \subseteq Visible /\ Cardinality(got) \in Nat
    <2> HIDE DEF W
    <2>1. got \subseteq W /\ IsFiniteSet(W)
        BY <1>1, RankFacts DEF Page
    <2> HIDE DEF got
    <2>2. IsFiniteSet(got)
        BY <2>1, FS_Subset
    <2> QED BY <1>1, <2>1, <2>2, FS_CardinalityType
<1>5. times \subseteq Nat
    BY <1>1, <1>2, <1>4, ShownFacts
<1>6. oldest \in Nat
    <2> HIDE DEF times
    <2> QED BY <1>5, LeastNatural
<1>7. /\ poll' = [poll EXCEPT
           !.at = at, !.page = @ + 1, !.observed = @ \cup got,
           !.events = @ \cup (got \ (poll.observed \cup mem.seen)), !.count = count, !.oldest = oldest]
      /\ UNCHANGED <<now, time, late, store, disk, mem, stop, origin, cut>>
    BY DEF ReadPage, outside
<1>8. at \in Stages /\ at # "idle" /\ count \in Nat
    BY <1>2, <1>4 DEF Stages
<1> DEFINE o == poll.observed \cup got
           e == poll.events \cup (got \ (poll.observed \cup mem.seen))
<1>9. o \in SUBSET Visible /\ e \in SUBSET Visible /\ e \subseteq o
    BY <1>1, <1>2, <1>4
<1> HIDE DEF got, count, oldest, at
<1>10. poll' = [poll EXCEPT !.at = at, !.page = poll.page + 1, !.observed = o, !.events = e,
                            !.count = count, !.oldest = oldest]
    BY <1>7
<1>11. poll.observed \subseteq poll.events \cup Stored /\ mem.seen \subseteq Stored
    BY DEF Seen
<1>12. o \subseteq e \cup Stored
    BY <1>11
<1> HIDE DEF o, e
<1>13. poll' \in Polls(Visible)
    BY <1>1, <1>3, <1>6, <1>8, <1>9, <1>10, PollReads
<1>14. poll'.at = at /\ poll'.observed = o /\ poll'.events = e
    BY <1>1, <1>10 DEF Polls
<1> QED BY <1>7, <1>8, <1>9, <1>12, <1>13, <1>14, PollSteps

\* The poll ends: all it has read is stored.
LEMMA PollEnds ==
    ASSUME Shape, Seen, Finish, UNCHANGED <<now, time, late, disk, stop, origin>>,
           store \subseteq store', store' \subseteq SUBSET Visible, poll.observed \subseteq Stored'
    PROVE  Shape' /\ Seen'
<1>1. Visible' = Visible /\ Shown' /\ Stored \subseteq Stored'
    BY DEF Shape, Around, Visible, Stored, Shown
<1>2. mem' \in States /\ mem'.seen = poll.observed /\ cut' \in BOOLEAN
      /\ poll' \in Polls(Visible) /\ poll'.at = "save" /\ poll'.events = {} /\ poll'.observed = {}
    BY Finishes
<1>3. Around'
    BY <1>1, <1>2 DEF Shape, Around
<1>4. Polling'
    BY <1>1, <1>2 DEF Polling, PollType
<1> QED BY <1>1, <1>2, <1>3, <1>4 DEF Shape, Seen

LEMMA ShapeStep == Shape /\ Seen /\ [Next]_vars => Shape' /\ Seen'
<1> SUFFICES ASSUME Shape, Seen, [Next]_vars PROVE Shape' /\ Seen'
    OBVIOUS
<1> USE DEF outside
<1>a. /\ now \in Nat /\ Shown /\ origin \in Int /\ late \subseteq Visible /\ store \subseteq SUBSET Visible
      /\ mem \in States /\ disk \in States \cup {None} /\ stop \in BOOLEAN /\ cut \in BOOLEAN
    BY DEF Shape, Around
<1>b. /\ poll \in Polls(Visible)
      /\ poll.at = "idle" => poll = Idle
      /\ poll.events \subseteq poll.observed /\ poll.observed \subseteq poll.events \cup Stored
    BY DEF Shape, Polling, PollType, Seen
<1>c. mem.seen \subseteq Stored /\ (disk # None => disk.seen \subseteq Stored)
    BY DEF Seen
<1>d. /\ poll.observed \subseteq Visible /\ poll.events \subseteq Visible /\ poll.truncated \in BOOLEAN
      /\ poll.left \in BOOLEAN
    BY <1>b, PollFields
<1>e. Idle.events = {} /\ Idle.observed = {} /\ Idle.at = "idle" /\ Idle \in Polls(Visible)
    BY IdlePolls DEF Idle, Stages
<1>1. CASE Tick
    <2>1. UNCHANGED <<time, late, store, disk, mem, poll, stop, origin, cut>> /\ now' = now + 1
        BY <1>1 DEF Tick
    <2>2. Shown' /\ now' \in Nat /\ Visible' = Visible /\ Stored' = Stored
        BY <1>a, <2>1, ShownFacts DEF Shown, Visible, Stored
    <2> QED BY <1>a, <1>b, <1>c, <2>1, <2>2 DEF Shape, Around, Polling, Seen, PollType
<1>2. ASSUME NEW t \in 1..now, Publish(t) PROVE Shape' /\ Seen'
    <2>1. Shown' /\ Visible \subseteq Visible' /\ late' \subseteq Visible'
        BY <1>a, <1>2, Publishes
    <2>2. UNCHANGED <<now, store, disk, mem, poll, stop, origin, cut>>
        BY <1>2 DEF Publish
    <2>3. poll' \in Polls(Visible') /\ Stored' = Stored
        BY <1>b, <2>1, <2>2, WiderPolls DEF Stored
    <2>4. Around'
        BY <1>a, <2>1, <2>2 DEF Around
    <2>5. Polling'
        BY <1>b, <2>2, <2>3 DEF Polling, PollType
    <2> QED BY <1>b, <1>c, <2>2, <2>3, <2>4, <2>5 DEF Shape, Seen
<1>3. CASE BeginPoll
    <2> DEFINE from == Larger(mem.mark - mem.replay, 0)
    <2>1. mem.mark \in Int /\ mem.replay \in Int /\ mem.forward \in Int /\ now \in Int /\ Forward \in Int /\ Lag \in Int
        BY <1>a, Windows DEF States
    <2>2. from \in Int
        BY <2>1, LargerFacts
    <2>3. End \in Int
        <3>1. Smaller(Forward, mem.forward) \in Int
            BY <2>1, SmallerFacts
        <3> QED BY <2>1, <3>1, SmallerFacts DEF End
    <2>4. /\ poll' = [Idle EXCEPT !.at = "page", !.start = from, !.end = End]
          /\ UNCHANGED <<now, time, late, store, disk, mem, stop, origin, cut>>
        BY <1>3 DEF BeginPoll
    <2> HIDE DEF from
    <2>5. poll' \in Polls(Visible)
        BY <2>2, <2>3, <2>4, FirstPage
    <2>6. poll'.at = "page" /\ poll'.events = {} /\ poll'.observed = {}
        BY <2>4 DEF Idle
    <2> QED BY <2>4, <2>5, <2>6, PollSteps
<1>4. CASE NothingNew \/ PageCap \/ LeaveLoop
    <2>1. UNCHANGED <<now, time, late, store, disk, mem, stop, origin, cut>>
        BY <1>4 DEF NothingNew, PageCap, LeaveLoop
    <2>2. \/ poll' = [poll EXCEPT !.at = "save"]
          \/ poll' = [poll EXCEPT !.at = "dedupe", !.truncated = TRUE]
          \/ poll' = [poll EXCEPT !.at = "dedupe", !.left = TRUE]
        BY <1>4 DEF NothingNew, PageCap, LeaveLoop
    <2>3. poll' \in Polls(Visible)
        BY <1>b, <2>2, PollMoves, PollTruncated, PollLeft DEF Stages
    <2>4. poll'.at \in {"save", "dedupe"} /\ poll'.events = poll.events /\ poll'.observed = poll.observed
        BY <1>b, <2>2 DEF Polls
    <2> QED BY <1>b, <2>1, <2>3, <2>4, PollSteps
<1>5. CASE ReadPage
    BY <1>5, ReadPages
<1>6. CASE Dedupe
    <2>1. PICK known \in {UNION built : built \in SUBSET store} :
              IF poll.events \subseteq known THEN Finish
              ELSE /\ poll' = [poll EXCEPT !.at = "ingest", !.events = @ \ known]
                   /\ UNCHANGED <<mem, cut>>
        BY <1>6 DEF Dedupe
    <2>2. UNCHANGED <<now, time, late, store, disk, stop, origin>>
        BY <1>6 DEF Dedupe
    <2>3. known \subseteq Stored
        BY <2>1 DEF Stored
    <2>4. CASE poll.events \subseteq known
        <3>1. Finish /\ poll.observed \subseteq Stored
            BY <1>b, <2>1, <2>3, <2>4
        <3>2. Stored' = Stored
            BY <2>2 DEF Stored
        <3> QED BY <1>a, <2>2, <3>1, <3>2, PollEnds
    <2>5. CASE ~ (poll.events \subseteq known)
        <3> DEFINE e == poll.events \ known
        <3>1. poll' = [poll EXCEPT !.at = "ingest", !.events = e] /\ UNCHANGED <<mem, cut>>
            BY <2>1, <2>5
        <3>2. e \subseteq Visible /\ e \subseteq poll.observed /\ poll.observed \subseteq e \cup Stored
            BY <1>b, <1>d, <2>3
        <3> HIDE DEF e
        <3>3. poll' \in Polls(Visible)
            BY <1>b, <3>1, <3>2, PollStores DEF Stages
        <3>4. poll'.at = "ingest" /\ poll'.events = e /\ poll'.observed = poll.observed
            BY <1>b, <3>1 DEF Polls
        <3> QED BY <2>2, <3>1, <3>2, <3>3, <3>4, PollSteps
    <2> QED BY <2>4, <2>5
<1>7. CASE Ingest
    <2>1. UNCHANGED <<now, time, late, disk, stop, origin>> /\ store' = store \cup {poll.events} /\ Finish
        BY <1>7 DEF Ingest, Batch
    <2>2. Stored' = Stored \cup poll.events
        BY <2>1 DEF Stored
    <2>3. poll.observed \subseteq Stored' /\ store \subseteq store' /\ store' \subseteq SUBSET Visible
        BY <1>a, <1>b, <1>d, <2>1, <2>2
    <2> QED BY <2>1, <2>3, PollEnds
<1>8. CASE Save
    <2>1. UNCHANGED <<now, time, late, store, mem, stop, origin, cut>> /\ poll' = Idle /\ disk' = mem
        BY <1>8 DEF Save
    <2>2. Shown' /\ Visible' = Visible /\ Stored' = Stored
        BY <1>a, <2>1 DEF Shown, Visible, Stored
    <2> QED BY <1>a, <1>c, <1>e, <2>1, <2>2 DEF Shape, Around, Polling, Seen, PollType
<1>9. CASE PollFails
    <2>1. UNCHANGED <<now, time, late, disk, mem, stop, origin, cut>> /\ poll' = Idle
        BY <1>9 DEF PollFails
    <2>2. store' = store \/ store' = store \cup {poll.events}
        BY <1>9 DEF PollFails, Batch
    <2>3. store' \subseteq SUBSET Visible /\ Stored \subseteq Stored'
        BY <1>a, <1>d, <2>2 DEF Stored
    <2>4. Shown' /\ Visible' = Visible
        BY <1>a, <2>1 DEF Shown, Visible
    <2> QED BY <1>a, <1>c, <1>e, <2>1, <2>3, <2>4 DEF Shape, Around, Polling, Seen, PollType
<1>10. CASE Shutdown
    <2>1. UNCHANGED <<now, time, late, store, disk, mem, poll, origin, cut>> /\ stop' = TRUE
        BY <1>10 DEF Shutdown
    <2>2. Shown' /\ Visible' = Visible /\ Stored' = Stored
        BY <1>a, <2>1 DEF Shown, Visible, Stored
    <2> QED BY <1>a, <1>b, <1>c, <2>1, <2>2 DEF Shape, Around, Polling, Seen, PollType
<1>11. CASE Restart
    <2>1. UNCHANGED <<now, time, late, store, disk, cut>> /\ poll' = Idle /\ stop' = FALSE
          /\ mem' = Loaded(now) /\ origin' = IF disk = None THEN Loaded(now).mark ELSE origin
        BY <1>11 DEF Restart
    <2>2. mem' \in States /\ mem'.seen \subseteq Stored /\ origin' \in Int
        <3>1. CASE disk = None
            <4>1. Loaded(now) = [mark |-> now - Lookback, seen |-> {}, replay |-> Replay, forward |-> Forward]
                BY <3>1 DEF Loaded
            <4> QED BY <1>a, <2>1, <3>1, <4>1, Windows DEF States
        <3>2. CASE disk # None
            BY <1>a, <1>c, <2>1, <3>2 DEF Loaded
        <3> QED BY <3>1, <3>2
    <2>3. Shown' /\ Visible' = Visible /\ Stored' = Stored
        BY <1>a, <2>1 DEF Shown, Visible, Stored
    <2> QED BY <1>a, <1>c, <1>e, <2>1, <2>2, <2>3 DEF Shape, Around, Polling, Seen, PollType
<1>12. CASE UNCHANGED vars
    <2>1. UNCHANGED <<now, time, late, store, disk, mem, poll, stop, origin, cut>>
        BY <1>12 DEF vars
    <2> QED BY <1>b, <2>1, PollSteps
<1> QED BY <1>1, <1>2, <1>3, <1>4, <1>5, <1>6, <1>7, <1>8, <1>9, <1>10, <1>11, <1>12 DEF Next, Poll

LEMMA ShapeInvariant == Spec => [](Shape /\ Seen)
BY ShapeInit, ShapeStep, PTL DEF Spec

\* The type invariant (TypeOK): the windows stay within their limits, whatever the
\* load does to them.
THEOREM CollectorTypeCorrect == Spec => []TypeOK
<1>1. Shape => TypeOK
    <2> SUFFICES ASSUME Shape PROVE TypeOK
        OBVIOUS
    <2>1. /\ now \in Nat /\ Shown /\ late \subseteq Visible /\ store \subseteq SUBSET Visible /\ mem \in States
          /\ disk \in States \cup {None} /\ poll \in Polls(Visible)
          /\ poll.at = "idle" => poll = Idle
          /\ poll.events \subseteq poll.observed /\ {stop, cut} \subseteq BOOLEAN
        BY DEF Shape, Around, Polling, PollType
    <2>2. Visible \subseteq Records /\ \A r \in Visible : time[r] \in 1..now
        BY <2>1, ShownFacts
    <2>3. Stored \subseteq Visible
        BY <2>1 DEF Stored
    <2>4. poll.at \in Stages /\ poll.page \in 1..MaxPages + 1 /\ poll.observed \subseteq Visible
        BY <2>1, PollFields
    <2> QED BY <2>1, <2>2, <2>3, <2>4 DEF TypeOK, Stages
<1> QED BY <1>1, ShapeInvariant, PTL

\* What a poll skips as known is stored (SeenIsStored).
THEOREM SeenRecordsAreStored == Spec => []SeenIsStored
<1>1. Seen => SeenIsStored
    BY DEF Seen, SeenIsStored
<1> QED BY <1>1, ShapeInvariant, PTL

-----------------------------------------------------------------------------
(***************************************************************************)
(* What a poll has read of its window, and what the watermark has passed.   *)
(* Records that appear meanwhile push the others to later pages, never to   *)
(* earlier ones, and those that appear inside the window are late.          *)
(***************************************************************************)
Win == Window(poll.start, poll.end)
Due == Win \ late

Bounds ==
    /\ poll.start <= 0 \/ poll.start <= mem.mark
    /\ poll.end <= now - Lag

\* With a record, every newer one that was shown in time has been read.
Contiguous == \A r \in Due, o \in poll.observed : Newer(r, o) => r \in poll.observed

\* The pages read hold all the records of their ranks.
Ranked ==
    poll.at = "page" =>
        /\ poll.count <= (poll.page - 1) * PageSize
        /\ \A r \in Due : Rank(Win, r) < (poll.page - 1) * PageSize => r \in poll.observed

Whole == poll.at # "page" /\ ~poll.truncated /\ ~poll.left => Due \subseteq poll.observed

Oldest == poll.oldest = 0 \/ \E o \in poll.observed : time[o] = poll.oldest

Reading ==
    poll.at \in {"page", "dedupe", "ingest"} => Bounds /\ Contiguous /\ Ranked /\ Whole /\ Oldest

Passed(m) ==
    /\ m <= origin \/ m <= now - Lag
    /\ ~cut => \A r \in Visible \ late : origin < time[r] /\ time[r] <= m => r \in Stored

Passing == Passed(mem.mark) /\ (disk # None => Passed(disk.mark))

PollInv == Reading /\ Passing

\* A record published inside the window under way is late; the ranks of the others
\* only grow.
LEMMA PublishKeepsWindow ==
    ASSUME Shape, Bounds, NEW t \in 1..now, Publish(t)
    PROVE  /\ Due' = Due /\ \A r \in Win : r \in Win' /\ Rank(Win, r) \in Nat /\ Rank(Win, r)' \in Nat
           /\ \A r \in Win : Rank(Win, r) <= Rank(Win, r)'
           /\ \A r, s \in Visible : Newer(r, s)' <=> Newer(r, s)
<1> DEFINE n == Cardinality(Visible) + 1
<1>1. /\ now \in Nat /\ Shown /\ late \subseteq Visible /\ poll \in Polls(Visible) /\ Lag \in Nat
    BY Windows DEF Shape, Around, Polling, PollType
<1>2. poll.start \in Int /\ poll.end \in Int
    BY <1>1, PollFields
<1>3. /\ Shown' /\ Visible' = Visible \cup {n} /\ n \notin Visible
      /\ \A s \in Visible : time'[s] = time[s]
      /\ time'[n] = t /\ late' = IF t + Lag <= now THEN late \cup {n} ELSE late
    BY <1>1, Publishes
<1>4. now' = now /\ poll' = poll
    BY DEF Publish
<1> HIDE DEF n
<1>5. Win \subseteq Win' /\ Win' \subseteq Win \cup {n} /\ (n \in Win' => t <= poll.end) /\ Win \subseteq Visible
    BY <1>3, <1>4 DEF Win, Window
<1>6. n \in Win' => n \in late'
    BY <1>1, <1>2, <1>3, <1>5 DEF Bounds
<1>7. Due' = Due
    BY <1>1, <1>3, <1>5, <1>6 DEF Due
<1>8. \A r, s \in Visible : Newer(r, s)' <=> Newer(r, s)
    BY <1>3 DEF Newer
<1>9. ASSUME NEW r \in Win
      PROVE  /\ r \in Win' /\ Rank(Win, r) \in Nat /\ Rank(Win, r)' \in Nat
             /\ Rank(Win, r) <= Rank(Win, r)'
    <2> DEFINE A == {s \in Win : Newer(s, r)}
               B == {s \in Win' : Newer(s, r)'}
    <2>1. A \subseteq B
        BY <1>5, <1>8, <1>9
    <2>2. Visible' = Visible \cup {n} /\ IsFiniteSet(Visible)
        BY <1>1, <1>3, ShownFacts
    <2>3. IsFiniteSet(Visible')
        BY <2>2, FS_AddElement
    <2>4. B \subseteq Visible'
        BY DEF Win, Window
    <2>5. IsFiniteSet(B)
        <3> HIDE DEF B
        <3> QED BY <2>3, <2>4, FS_Subset
    <2>6. IsFiniteSet(A) /\ Cardinality(A) <= Cardinality(B) /\ Cardinality(A) \in Nat /\ Cardinality(B) \in Nat
        <3> HIDE DEF A, B
        <3>1. IsFiniteSet(A) /\ Cardinality(A) <= Cardinality(B)
            BY <2>1, <2>5, FS_Subset
        <3> QED BY <3>1, <2>5, FS_CardinalityType
    <2>7. Rank(Win, r) = Cardinality(A) /\ Rank(Win, r)' = Cardinality(B)
        BY DEF Rank
    <2> QED BY <1>5, <1>9, <2>6, <2>7
<1> QED BY <1>7, <1>8, <1>9

LEMMA SameWindow ==
    ASSUME UNCHANGED <<time, late>>, poll'.start = poll.start, poll'.end = poll.end
    PROVE  /\ Win' = Win /\ Due' = Due /\ Visible' = Visible
           /\ \A r : Rank(Win, r)' = Rank(Win, r)
           /\ \A r, s : Newer(r, s)' <=> Newer(r, s)
<1>1. Visible' = Visible
    BY DEF Visible
<1>2. Win' = Win
    BY <1>1 DEF Win, Window
<1>3. \A r, s : Newer(r, s)' <=> Newer(r, s)
    BY DEF Newer
<1>4. \A r : Rank(Win, r)' = Rank(Win, r)
    BY <1>2, <1>3 DEF Rank
<1> QED BY <1>1, <1>2, <1>3, <1>4 DEF Due

\* The page read next holds the records of the ranks that come next.
LEMMA ReadPageKeeps ==
    ASSUME Shape, Reading, ReadPage
    PROVE  Reading'
<1> DEFINE n == poll.page
           got == Page(Win, n)
           count == poll.count + Cardinality(got)
           times == {time[r] : r \in got} \cup ({poll.oldest} \ {0})
           oldest == IF times = {} THEN 0 ELSE CHOOSE t \in times : \A u \in times : t <= u
           at == IF PageEnds(got, count, Win) THEN "dedupe" ELSE "page"
           o == poll.observed \cup got
           e == poll.events \cup (got \ (poll.observed \cup mem.seen))
           lo == (n - 1) * PageSize
           hi == n * PageSize
<1>1. /\ poll \in Polls(Visible) /\ Shown /\ now \in Nat /\ Win \subseteq Visible
    BY DEF Shape, Around, Polling, PollType, Win, Window
<1>2. /\ n \in 1..MaxPages + 1 /\ poll.count \in Nat /\ poll.oldest \in Nat /\ poll.observed \subseteq Visible
    BY <1>1, PollFields
<1>3. n \in Nat \ {0}
    BY <1>2, Windows
<1>4. /\ lo \in Nat /\ hi \in Nat /\ hi = lo + PageSize /\ PageSize \in Nat
    BY <1>3, Pages
<1>5. /\ got = {r \in Win : lo <= Rank(Win, r) /\ Rank(Win, r) < hi}
      /\ Cardinality(got) \in Nat /\ Cardinality(got) <= PageSize
      /\ Cardinality(got) < PageSize => \A r \in Win : Rank(Win, r) < hi
    <2> HIDE DEF n
    <2> DEFINE W == Win
    <2>1. W \subseteq Visible
        BY <1>1
    <2> HIDE DEF W
    <2>2. /\ Page(W, n) = {r \in W : (n - 1) * PageSize <= Rank(W, r) /\ Rank(W, r) < n * PageSize}
          /\ IsFiniteSet(Page(W, n)) /\ Cardinality(Page(W, n)) \in Nat
          /\ Cardinality(Page(W, n)) <= PageSize
          /\ Cardinality(Page(W, n)) < PageSize => \A r \in W : Rank(W, r) < n * PageSize
        BY <1>1, <1>3, <2>1, PageFacts
    <2> QED BY <2>2 DEF W
<1>6. /\ poll.at = "page" /\ poll' = [poll EXCEPT
             !.at = at, !.page = @ + 1, !.observed = @ \cup got,
             !.events = @ \cup (got \ (poll.observed \cup mem.seen)), !.count = count, !.oldest = oldest]
      /\ UNCHANGED <<now, time, late, store, disk, mem, stop, origin, cut>>
    BY DEF ReadPage, outside, Win
<1>7. /\ poll'.at = at /\ poll'.page = n + 1 /\ poll'.observed = o /\ poll'.count = count
      /\ poll'.oldest = oldest /\ poll'.start = poll.start /\ poll'.end = poll.end
      /\ poll'.truncated = poll.truncated /\ poll'.left = poll.left
    <2> HIDE DEF got, count, oldest, at
    <2> QED BY <1>1, <1>6 DEF Polls
<1>8. /\ Win' = Win /\ Due' = Due
      /\ \A r : Rank(Win, r)' = Rank(Win, r)
      /\ \A r, s : Newer(r, s)' <=> Newer(r, s)
    BY <1>6, <1>7, SameWindow
<1>9. \A r \in Win : Rank(Win, r) \in Nat /\ Rank(Win, r) < Cardinality(Win)
    BY <1>1, RankFacts
<1>9a. \A r, s \in Win : Newer(s, r) => Rank(Win, s) < Rank(Win, r)
    BY <1>1, RankFacts
<1>10. Bounds /\ Contiguous /\ Ranked /\ Oldest
    BY <1>6 DEF Reading
<1>11. poll.count <= lo /\ \A r \in Due : Rank(Win, r) < lo => r \in poll.observed
    BY <1>6, <1>10 DEF Ranked
<1>12. Due \subseteq Win /\ got \subseteq Win
    BY <1>5 DEF Due
<1>13. Bounds'
    BY <1>6, <1>7, <1>10 DEF Bounds
<1> HIDE DEF n, lo, hi, got
<1>14. \A r \in Due : Rank(Win, r) < hi => r \in o
    BY <1>4, <1>5, <1>9, <1>11, <1>12
<1>15. \A r \in Due, s \in o : Newer(r, s) => r \in o
    <2> SUFFICES ASSUME NEW r \in Due, NEW s \in o, Newer(r, s) PROVE r \in o
        OBVIOUS
    <2>1. CASE s \in poll.observed
        BY <1>10, <2>1 DEF Contiguous
    <2>2. CASE s \in got
        <3>1. Rank(Win, r) < Rank(Win, s) /\ Rank(Win, s) < hi
            BY <1>5, <1>9a, <1>12, <2>2
        <3> QED BY <1>4, <1>9, <1>12, <1>14, <2>2, <3>1
    <2> QED BY <2>1, <2>2
<1>16. count \in Nat /\ count <= hi
    BY <1>2, <1>4, <1>5, <1>11
<1>17. PageEnds(got, count, Win) => Due \subseteq o
    <2>1. Cardinality(Win) \in Nat
        BY <1>1, RankFacts
    <2>2. CASE Cardinality(got) < PageSize
        BY <1>5, <1>12, <1>14, <2>2
    <2>3. CASE count >= Cardinality(Win)
        <3> HIDE DEF count
        <3>1. \A r \in Win : Rank(Win, r) < hi
            BY <1>4, <1>9, <1>16, <2>1, <2>3
        <3> QED BY <1>12, <1>14, <3>1
    <2> QED BY <2>2, <2>3 DEF PageEnds
<1>18. oldest = 0 \/ \E s \in o : time[s] = oldest
    <2>1. \A u \in times : \E s \in o : time[s] = u
        BY <1>10 DEF Oldest
    <2>2. times \subseteq Nat
        BY <1>1, <1>2, <1>12, ShownFacts
    <2>3. times # {} => oldest \in times
        <3> HIDE DEF times
        <3> QED BY <2>2, LeastNatural
    <2> HIDE DEF times
    <2> QED BY <2>1, <2>3
<1> HIDE DEF o, count, oldest
<1>19. Contiguous'
    BY <1>7, <1>8, <1>15 DEF Contiguous
<1>20. Ranked'
    <2>1. (poll'.page - 1) * PageSize = hi
        <3>1. poll'.page - 1 = n
            BY <1>3, <1>7
        <3> QED BY <3>1 DEF hi
    <2> QED BY <1>7, <1>8, <1>14, <1>16, <2>1 DEF Ranked
<1>21. Whole'
    BY <1>7, <1>8, <1>17 DEF Whole
<1>22. Oldest'
    BY <1>6, <1>7, <1>18 DEF Oldest
<1> QED BY <1>13, <1>19, <1>20, <1>21, <1>22 DEF Reading

\* What the next watermark passes has been read, and is stored now.
LEMMA FinishPasses ==
    ASSUME Shape, PollInv, Finish, poll.at \in {"dedupe", "ingest"},
           UNCHANGED <<now, time, late, disk, stop, origin>>,
           Stored \subseteq Stored', poll.observed \subseteq Stored'
    PROVE  PollInv'
<1>1. /\ poll \in Polls(Visible) /\ Shown /\ now \in Nat /\ mem \in States /\ origin \in Int /\ Lag \in Nat
    BY Windows DEF Shape, Around, Polling, PollType
<1>2. /\ poll.start \in Int /\ poll.end \in Int /\ poll.oldest \in Nat /\ poll.observed \subseteq Visible
    BY <1>1, PollFields
<1>3. mem.mark \in Int
    BY <1>1 DEF States
<1>4. \A r \in Visible : time[r] \in Nat /\ time[r] >= 1
    BY <1>1, ShownFacts
<1>5. /\ mem'.mark = IF Reached THEN poll.end ELSE mem.mark
      /\ poll'.at = "save" /\ cut' = (cut \/ poll.left)
    BY Finishes
<1>6. Bounds /\ Contiguous /\ Whole /\ Oldest /\ Passing
    BY DEF PollInv, Reading
<1>7. Visible' = Visible
    BY DEF Visible
<1>8. ASSUME ~poll.left, Reached, NEW r \in Visible \ late, mem.mark < time[r], time[r] <= poll.end
      PROVE  r \in poll.observed
    <2>1. r \in Due
        BY <1>2, <1>3, <1>4, <1>6, <1>8 DEF Bounds, Due, Win, Window
    <2>2. CASE ~poll.truncated
        BY <1>6, <1>8, <2>1, <2>2 DEF Whole
    <2>3. CASE 0 < poll.oldest /\ poll.oldest <= mem.mark
        <3>1. PICK o \in poll.observed : time[o] = poll.oldest
            BY <1>6, <2>3, <1>2 DEF Oldest
        <3>2. Newer(r, o)
            BY <1>2, <1>3, <1>4, <1>8, <2>3, <3>1 DEF Newer
        <3> QED BY <1>6, <2>1, <3>1, <3>2 DEF Contiguous
    <2> QED BY <1>8, <2>2, <2>3 DEF Reached
<1>9. Passed(mem.mark)
    BY <1>6 DEF Passing
<1>10. Passed(mem.mark)'
    <2>1. mem'.mark <= origin \/ mem'.mark <= now - Lag
        BY <1>5, <1>6, <1>9 DEF Bounds, Passed
    <2>2. ASSUME ~cut', NEW r \in Visible \ late, origin < time[r], time[r] <= mem'.mark
          PROVE  r \in Stored'
        <3>1. ~cut /\ ~poll.left
            BY <1>5, <2>2
        <3>2. CASE time[r] <= mem.mark
            BY <1>9, <2>2, <3>1, <3>2 DEF Passed
        <3>3. CASE mem.mark < time[r]
            <4>1. Reached /\ time[r] <= poll.end
                BY <1>3, <1>4, <1>5, <2>2, <3>3
            <4> QED BY <1>8, <2>2, <3>1, <3>3, <4>1
        <3> QED BY <1>3, <1>4, <3>2, <3>3
    <2> QED BY <1>7, <2>1, <2>2 DEF Passed
<1>11. disk' # None => Passed(disk.mark)'
    <2>1. disk # None => Passed(disk.mark)
        BY <1>6 DEF Passing
    <2>2. cut' \/ (~cut /\ ~cut')
        BY <1>5
    <2> QED BY <1>7, <2>1, <2>2 DEF Passed
<1>12. Reading'
    BY <1>5 DEF Reading
<1> QED BY <1>10, <1>11, <1>12 DEF PollInv, Passing

\* Steps that move no watermark and lose nothing stored.
LEMMA PassingStays ==
    ASSUME Passing, Shape, UNCHANGED <<time, late, disk, mem, origin, cut>>,
           Stored \subseteq Stored', now' \in Nat, now <= now'
    PROVE  Passing'
<1>1. now \in Nat /\ mem.mark \in Int /\ (disk # None => disk.mark \in Int) /\ Lag \in Nat
    BY Windows DEF Shape, Around, States
<1>2. Visible' = Visible
    BY DEF Visible
<1>3. Passed(mem.mark) => Passed(mem.mark)'
    BY <1>1, <1>2 DEF Passed
<1>4. disk # None => (Passed(disk.mark) => Passed(disk.mark)')
    BY <1>1, <1>2 DEF Passed
<1> QED BY <1>3, <1>4 DEF Passing

LEMMA PublishKeeps ==
    ASSUME Shape, PollInv, NEW t \in 1..now, Publish(t)
    PROVE  PollInv'
<1> DEFINE n == Cardinality(Visible) + 1
<1>1. /\ poll \in Polls(Visible) /\ Shown /\ now \in Nat /\ mem \in States /\ disk \in States \cup {None}
      /\ origin \in Int /\ Lag \in Nat /\ late \subseteq Visible
    BY Windows DEF Shape, Around, Polling, PollType
<1>2. /\ poll.observed \subseteq Visible /\ poll.page \in 1..MaxPages + 1
    BY <1>1, PollFields
<1>3. /\ Visible' = Visible \cup {n} /\ n \notin Visible
      /\ \A s \in Visible : time'[s] = time[s]
      /\ time'[n] = t /\ late' = IF t + Lag <= now THEN late \cup {n} ELSE late
    BY <1>1, Publishes
<1> HIDE DEF n
<1>4. UNCHANGED <<now, store, disk, mem, poll, stop, origin, cut>>
    BY DEF Publish
<1>5. ASSUME NEW m \in Int, Passed(m)
      PROVE  /\ m <= origin \/ m <= now - Lag
             /\ ~cut => \A r \in Visible' \ late' : origin < time'[r] /\ time'[r] <= m => r \in Stored
    <2>1. ASSUME ~cut, NEW r \in Visible' \ late', origin < time'[r], time'[r] <= m
          PROVE  r \in Stored
        <3>1. r # n
            BY <1>1, <1>3, <1>5, <2>1 DEF Passed
        <3>2. r \in Visible \ late /\ time'[r] = time[r]
            BY <1>3, <2>1, <3>1
        <3> QED BY <1>5, <2>1, <3>2 DEF Passed
    <2> QED BY <1>5, <2>1 DEF Passed
<1>6. Passing'
    <2>1. mem.mark \in Int /\ (disk # None => disk.mark \in Int)
        BY <1>1 DEF States
    <2>2. Stored' = Stored
        BY <1>4 DEF Stored
    <2>3. Passed(mem.mark)'
        BY <1>4, <1>5, <2>1, <2>2 DEF PollInv, Passing, Passed
    <2>4. disk # None => Passed(disk.mark)'
        BY <1>4, <1>5, <2>1, <2>2 DEF PollInv, Passing, Passed
    <2> QED BY <1>4, <2>3, <2>4 DEF Passing
<1>7. ASSUME poll.at \in {"page", "dedupe", "ingest"} PROVE Reading'
    <2>1. Bounds /\ Contiguous /\ Ranked /\ Whole /\ Oldest
        BY <1>7 DEF PollInv, Reading
    <2>2. /\ Due' = Due /\ \A r \in Win : r \in Win' /\ Rank(Win, r) \in Nat /\ Rank(Win, r)' \in Nat
          /\ \A r \in Win : Rank(Win, r) <= Rank(Win, r)'
          /\ \A r, s \in Visible : Newer(r, s)' <=> Newer(r, s)
        BY <2>1, PublishKeepsWindow
    <2>3. Bounds' /\ Whole'
        BY <1>4, <2>1, <2>2 DEF Bounds, Whole
    <2>4. Due \subseteq Win /\ Due \subseteq Visible
        BY DEF Due, Win, Window
    <2>5. Contiguous'
        BY <1>2, <1>4, <2>1, <2>2, <2>4 DEF Contiguous
    <2>6. (poll.page - 1) * PageSize \in Nat
        <3>1. poll.page \in Nat \ {0}
            BY <1>2, Windows
        <3>2. \A k \in Nat \ {0} : (k - 1) * PageSize \in Nat
            BY Pages
        <3> QED BY <3>1, <3>2
    <2>7. Ranked'
        <3> DEFINE lo == (poll.page - 1) * PageSize
        <3>1. lo' = lo /\ lo \in Nat
            BY <1>4, <2>6
        <3>2. poll.at = "page" => poll.count <= lo /\ \A r \in Due : Rank(Win, r) < lo => r \in poll.observed
            BY <2>1 DEF Ranked
        <3>3. \A r \in Due : Rank(Win, r)' < lo => Rank(Win, r) < lo
            <4> HIDE DEF lo
            <4> QED BY <2>2, <2>4, <3>1
        <3>4. poll'.at = "page" => poll'.count <= lo' /\ \A r \in Due' : Rank(Win, r)' < lo' => r \in poll'.observed
            <4> HIDE DEF lo
            <4> QED BY <1>4, <2>2, <3>1, <3>2, <3>3
        <3> QED BY <3>4 DEF Ranked
    <2>8. Oldest'
        BY <1>2, <1>3, <1>4, <2>1 DEF Oldest
    <2> QED BY <2>3, <2>5, <2>7, <2>8 DEF Reading
<1>8. ASSUME poll.at \notin {"page", "dedupe", "ingest"} PROVE Reading'
    BY <1>4, <1>8 DEF Reading
<1> QED BY <1>6, <1>7, <1>8 DEF PollInv

\* A step of the poll that keeps its window and what it has read.
LEMMA ReadingStays ==
    ASSUME Shape, Reading, UNCHANGED <<time, late, mem>>, now' \in Nat, now <= now',
           poll.at \in {"page", "dedupe", "ingest"} \/ poll'.at \notin {"page", "dedupe", "ingest"},
           poll'.at = "page" => poll.at = "page",
           poll.at = "page" /\ poll'.at # "page" => poll'.truncated \/ poll'.left,
           poll.truncated => poll'.truncated, poll.left => poll'.left,
           UNCHANGED <<poll.start, poll.end, poll.page, poll.count, poll.observed, poll.oldest>>
    PROVE  Reading'
<1>1. CASE poll'.at \notin {"page", "dedupe", "ingest"}
    BY <1>1 DEF Reading
<1>2. CASE poll'.at \in {"page", "dedupe", "ingest"}
    <2>1. Bounds /\ Contiguous /\ Ranked /\ Whole /\ Oldest
        BY <1>2 DEF Reading
    <2>2. /\ Win' = Win /\ Due' = Due
          /\ \A r : Rank(Win, r)' = Rank(Win, r)
          /\ \A r, s : Newer(r, s)' <=> Newer(r, s)
        BY SameWindow
    <2>3. poll \in Polls(Visible) /\ now \in Nat /\ Lag \in Nat
        BY Windows DEF Shape, Around, Polling, PollType
    <2>4. poll.end \in Int /\ poll.truncated \in BOOLEAN /\ poll.left \in BOOLEAN
        BY <2>3, PollFields
    <2>5. Bounds'
        BY <2>1, <2>3, <2>4 DEF Bounds
    <2>6. Contiguous' /\ Oldest'
        BY <2>1, <2>2 DEF Contiguous, Oldest
    <2>7. Ranked'
        BY <2>1, <2>2 DEF Ranked
    <2>8. Whole'
        BY <2>1, <2>2, <2>4 DEF Whole
    <2> QED BY <2>5, <2>6, <2>7, <2>8 DEF Reading
<1> QED BY <1>1, <1>2

LEMMA PollInvInit == Init => PollInv
<1> SUFFICES ASSUME Init PROVE PollInv
    OBVIOUS
<1>1. mem.mark = 1 /\ origin = 1 /\ disk = None /\ poll.at = "idle"
    BY DEF Init, Idle
<1>2. \A r \in Visible : time[r] \in Nat
    BY ShapeInit, ShownFacts DEF Shape, Around
<1> QED BY <1>1, <1>2 DEF PollInv, Passing, Passed, Reading

LEMMA PollInvStep == Shape /\ Seen /\ PollInv /\ [Next]_vars => PollInv'
<1> SUFFICES ASSUME Shape, Seen, PollInv, [Next]_vars PROVE PollInv'
    OBVIOUS
<1> USE DEF outside
<1>a. /\ now \in Nat /\ Shown /\ mem \in States /\ disk \in States \cup {None} /\ Lag \in Nat
      /\ poll \in Polls(Visible) /\ poll.observed \subseteq poll.events \cup Stored
    BY Windows DEF Shape, Around, Polling, PollType, Seen
<1>b. Reading /\ Passing
    BY DEF PollInv
<1>c. Idle.at = "idle"
    BY DEF Idle
<1>1. CASE Tick
    <2>1. UNCHANGED <<time, late, store, disk, mem, poll, stop, origin, cut>> /\ now' = now + 1
        BY <1>1 DEF Tick
    <2>2. Stored' = Stored /\ now' \in Nat /\ now <= now'
        BY <1>a, <2>1 DEF Stored
    <2>3. Reading'
        BY <1>b, <2>1, <2>2, ReadingStays
    <2>4. Passing'
        BY <1>b, <2>1, <2>2, PassingStays
    <2> QED BY <2>3, <2>4 DEF PollInv
<1>2. ASSUME NEW t \in 1..now, Publish(t) PROVE PollInv'
    BY <1>2, PublishKeeps
<1>3. ASSUME UNCHANGED <<now, time, late, disk, mem, origin, cut>>, store \subseteq store' PROVE Passing'
    <2>1. Stored \subseteq Stored' /\ now' \in Nat /\ now <= now'
        BY <1>a, <1>3 DEF Stored
    <2> QED BY <1>b, <1>3, <2>1, PassingStays
<1>4. CASE BeginPoll
    <2> DEFINE from == Larger(mem.mark - mem.replay, 0)
    <2>1. /\ poll' = [Idle EXCEPT !.at = "page", !.start = from, !.end = End]
          /\ UNCHANGED <<now, time, late, store, disk, mem, stop, origin, cut>>
        BY <1>4 DEF BeginPoll
    <2>2. mem.mark \in Int /\ mem.replay \in Nat /\ mem.forward \in Int
        BY <1>a, Windows DEF States
    <2>3. from <= 0 \/ from <= mem.mark
        BY <2>2, LargerFacts
    <2>4. End <= now - Lag
        <3>1. Smaller(Forward, mem.forward) \in Int
            BY <2>2, Windows, SmallerFacts
        <3> QED BY <1>a, <2>2, <3>1, SmallerFacts DEF End
    <2> HIDE DEF from
    <2>5. /\ poll'.at = "page" /\ poll'.start = from /\ poll'.end = End /\ poll'.observed = {}
          /\ poll'.page = 1 /\ poll'.count = 0 /\ poll'.oldest = 0
        BY <2>1 DEF Idle
    <2>6. Bounds'
        BY <2>1, <2>3, <2>4, <2>5 DEF Bounds
    <2>7. Ranked'
        <3>1. (poll'.page - 1) * PageSize = 0
            <4>1. (1 - 1) * PageSize = 0
                BY Windows
            <4> QED BY <2>5, <4>1
        <3>2. Visible' = Visible /\ Win' \subseteq Visible' /\ IsFiniteSet(Visible)
            BY <1>a, <2>1, ShownFacts DEF Visible, Win, Window
        <3>3. ASSUME NEW r PROVE IsFiniteSet({s \in Win' : Newer(s, r)'})
            BY <3>2, FS_Subset
        <3>4. \A r \in Win' : Rank(Win, r)' \in Nat
            BY <3>3, FS_CardinalityType DEF Rank
        <3>5. \A r \in Due' : ~ (Rank(Win, r)' < 0)
            BY <3>4 DEF Due
        <3> QED BY <2>5, <3>1, <3>5 DEF Ranked
    <2>8. Contiguous' /\ Whole' /\ Oldest'
        BY <2>5 DEF Contiguous, Whole, Oldest
    <2> QED BY <1>3, <2>1, <2>6, <2>7, <2>8 DEF PollInv, Reading
<1>5. CASE NothingNew \/ PageCap \/ LeaveLoop
    <2>1. UNCHANGED <<now, time, late, store, disk, mem, stop, origin, cut>>
        BY <1>5 DEF NothingNew, PageCap, LeaveLoop
    <2>2. \/ poll.at = "idle" /\ poll' = [poll EXCEPT !.at = "save"]
          \/ poll.at = "page" /\ poll' = [poll EXCEPT !.at = "dedupe", !.truncated = TRUE]
          \/ poll.at = "page" /\ poll' = [poll EXCEPT !.at = "dedupe", !.left = TRUE]
        BY <1>5 DEF NothingNew, PageCap, LeaveLoop
    <2>3. UNCHANGED <<poll.start, poll.end, poll.page, poll.count, poll.observed, poll.oldest>>
        BY <1>a, <2>2 DEF Polls
    <2>4. \/ poll.at = "idle" /\ poll'.at = "save" /\ poll'.truncated = poll.truncated /\ poll'.left = poll.left
          \/ poll.at = "page" /\ poll'.at = "dedupe" /\ poll'.truncated = TRUE /\ poll'.left = poll.left
          \/ poll.at = "page" /\ poll'.at = "dedupe" /\ poll'.truncated = poll.truncated /\ poll'.left = TRUE
        BY <1>a, <2>2 DEF Polls
    <2>5. now' \in Nat /\ now <= now'
        BY <1>a, <2>1
    <2>6. Reading'
        BY <1>b, <2>1, <2>3, <2>4, <2>5, ReadingStays
    <2> QED BY <1>3, <2>1, <2>6 DEF PollInv
<1>6. CASE ReadPage
    <2>1. Reading'
        BY <1>b, <1>6, ReadPageKeeps
    <2>2. UNCHANGED <<now, time, late, store, disk, mem, stop, origin, cut>>
        BY <1>6 DEF ReadPage
    <2> QED BY <1>3, <2>1, <2>2 DEF PollInv
<1>7. CASE Dedupe
    <2>1. PICK known \in {UNION built : built \in SUBSET store} :
              IF poll.events \subseteq known THEN Finish
              ELSE /\ poll' = [poll EXCEPT !.at = "ingest", !.events = @ \ known]
                   /\ UNCHANGED <<mem, cut>>
        BY <1>7 DEF Dedupe
    <2>2. UNCHANGED <<now, time, late, store, disk, stop, origin>> /\ poll.at = "dedupe"
        BY <1>7 DEF Dedupe
    <2>3. known \subseteq Stored /\ Stored' = Stored
        BY <2>1, <2>2 DEF Stored
    <2>4. CASE poll.events \subseteq known
        <3>1. Finish /\ poll.observed \subseteq Stored'
            BY <1>a, <2>1, <2>3, <2>4
        <3> QED BY <2>2, <2>3, <3>1, FinishPasses
    <2>5. CASE ~ (poll.events \subseteq known)
        <3> DEFINE e == poll.events \ known
        <3>1. poll' = [poll EXCEPT !.at = "ingest", !.events = e] /\ UNCHANGED <<mem, cut>>
            BY <2>1, <2>5
        <3> HIDE DEF e
        <3>2. /\ poll'.at = "ingest" /\ poll'.truncated = poll.truncated /\ poll'.left = poll.left
              /\ UNCHANGED <<poll.start, poll.end, poll.page, poll.count, poll.observed, poll.oldest>>
            BY <1>a, <3>1 DEF Polls
        <3>3. now' \in Nat /\ now <= now'
            BY <1>a, <2>2
        <3>4. Reading'
            BY <1>b, <2>2, <3>1, <3>2, <3>3, ReadingStays
        <3> QED BY <1>3, <2>2, <3>1, <3>4 DEF PollInv
    <2> QED BY <2>4, <2>5
<1>8. CASE Ingest
    <2>1. /\ UNCHANGED <<now, time, late, disk, stop, origin>> /\ store' = store \cup {poll.events}
          /\ Finish /\ poll.at = "ingest"
        BY <1>8 DEF Ingest, Batch
    <2>2. Stored' = Stored \cup poll.events
        BY <2>1 DEF Stored
    <2>3. Stored \subseteq Stored' /\ poll.observed \subseteq Stored'
        BY <1>a, <2>2
    <2> QED BY <2>1, <2>3, FinishPasses
<1>9. CASE Save
    <2>1. UNCHANGED <<now, time, late, store, mem, stop, origin, cut>> /\ poll' = Idle /\ disk' = mem
        BY <1>9 DEF Save
    <2>2. Visible' = Visible /\ Stored' = Stored
        BY <2>1 DEF Visible, Stored
    <2>3. Passing'
        BY <1>b, <2>1, <2>2 DEF Passing, Passed
    <2>4. Reading'
        BY <1>c, <2>1 DEF Reading
    <2> QED BY <2>3, <2>4 DEF PollInv
<1>10. CASE PollFails
    <2>1. UNCHANGED <<now, time, late, disk, mem, stop, origin, cut>> /\ poll' = Idle
        BY <1>10 DEF PollFails
    <2>2. store \subseteq store'
        BY <1>10 DEF PollFails, Batch
    <2>3. Reading'
        BY <1>c, <2>1 DEF Reading
    <2> QED BY <1>3, <2>1, <2>2, <2>3 DEF PollInv
<1>11. CASE Shutdown
    <2>1. UNCHANGED <<now, time, late, store, disk, mem, poll, origin, cut>>
        BY <1>11 DEF Shutdown
    <2>2. now' \in Nat /\ now <= now'
        BY <1>a, <2>1
    <2>3. Reading'
        BY <1>b, <2>1, <2>2, ReadingStays
    <2> QED BY <1>3, <2>1, <2>3 DEF PollInv
<1>12. CASE Restart
    <2>1. UNCHANGED <<now, time, late, store, disk, cut>> /\ poll' = Idle
          /\ mem' = Loaded(now) /\ origin' = IF disk = None THEN Loaded(now).mark ELSE origin
        BY <1>12 DEF Restart
    <2>2. Visible' = Visible /\ Stored' = Stored
        BY <2>1 DEF Visible, Stored
    <2>3. CASE disk = None
        <3>1. mem'.mark = origin' /\ mem'.mark \in Int
            BY <1>a, <2>1, <2>3, Windows DEF Loaded
        <3>2. \A r \in Visible : time[r] \in Int
            BY <1>a, ShownFacts
        <3> QED BY <1>c, <2>1, <2>2, <2>3, <3>1, <3>2 DEF PollInv, Passing, Passed, Reading
    <2>4. CASE disk # None
        <3>1. mem' = disk /\ origin' = origin
            BY <2>1, <2>4 DEF Loaded
        <3> QED BY <1>b, <1>c, <2>1, <2>2, <2>4, <3>1 DEF PollInv, Passing, Passed, Reading
    <2> QED BY <2>3, <2>4
<1>13. CASE UNCHANGED vars
    <2>1. UNCHANGED <<now, time, late, store, disk, mem, poll, stop, origin, cut>>
        BY <1>13 DEF vars
    <2>2. now' \in Nat /\ now <= now'
        BY <1>a, <2>1
    <2>3. Reading'
        BY <1>b, <2>1, <2>2, ReadingStays
    <2> QED BY <1>3, <2>1, <2>3 DEF PollInv
<1> QED BY <1>1, <1>2, <1>4, <1>5, <1>6, <1>7, <1>8, <1>9, <1>10, <1>11, <1>12, <1>13 DEF Next, Poll

\* The watermark passes no record that was shown in time (PassedIsStored): whatever
\* appears, fails, is cut short or restarts, unless a shutdown left a window half read.
THEOREM PassedRecordsAreStored == Spec => []PassedIsStored
<1>1. PollInv => PassedIsStored
    BY DEF PollInv, Passing, Passed, PassedIsStored
<1>2. Spec => []PollInv
    BY ShapeInvariant, PollInvInit, PollInvStep, PTL DEF Spec
<1> QED BY <1>1, <1>2, PTL
=============================================================================
