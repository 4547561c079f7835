--------------------------- MODULE SlowLogIndexProofs ---------------------------
(***************************************************************************)
(* Proofs about SlowLogIndex, for any number of parts and statements, any   *)
(* page and batch sizes and any budgets.  The argument has two halves: who  *)
(* may touch a part (locks, and what is left of a removed part), and what a *)
(* transaction of the index does to rows, elections and counters.           *)
(***************************************************************************)
EXTENDS SlowLogIndex, Integers, FiniteSetTheorems, WellFoundedInduction, TLAPS

-----------------------------------------------------------------------------
(***************************************************************************)
(* The least and the greatest of a set of paths.                            *)
(***************************************************************************)
\* A finite set of paths has a least one, wherever it lies: of its initial
\* segments, one has no other inside it.
LEMMA LeastOf ==
    ASSUME NEW S, S \subseteq Paths, S # {}
    PROVE  Least(S) \in S /\ \A q \in S : Least(S) <= q
<1> DEFINE Upto(p) == {q \in S : q <= p}
           T == {Upto(p) : p \in S}
<1>1. IsFiniteSet(S) /\ S \subseteq Nat
    BY PathsAssumption, FS_Subset
<1>2. T \subseteq FiniteSubsetsOf(S) /\ T # {}
    <2>1. T \subseteq SUBSET S /\ T # {}
        OBVIOUS
    <2> HIDE DEF T
    <2> QED BY <2>1, <1>1, FS_FiniteSubsetsOfFinite
<1>3. PICK x \in T : \A y \in T : ~ (<<y, x>> \in StrictSubsetOrdering(S))
    <2> HIDE DEF T
    <2> QED BY <1>2, FS_StrictSubsetOrderingWellFounded, WFMin
<1>4. PICK p \in S : x = Upto(p)
    BY <1>3
<1>5. \A q \in S : p <= q
    <2> SUFFICES ASSUME NEW q \in S, q < p PROVE FALSE
        BY <1>1
    <2>0. p \in Nat /\ q \in Nat
        BY <1>1
    <2>1. Upto(q) \subseteq x
        <3> SUFFICES ASSUME NEW r \in S, r <= q PROVE r <= p
            BY <1>4
        <3> r \in Nat
            BY <1>1
        <3> QED BY <2>0
    <2>3. p \in x /\ p \notin Upto(q)
        BY <1>4, <2>0
    <2>2. <<Upto(q), x>> \in StrictSubsetOrdering(S)
        BY <2>1, <2>3, <1>4 DEF StrictSubsetOrdering
    <2> QED BY <2>2, <1>3
<1> QED BY <1>5 DEF Least

LEMMA GreatestOf ==
    ASSUME NEW S, S \subseteq Paths, S # {}
    PROVE  Greatest(S) \in S
<1> DEFINE From(p) == {q \in S : p <= q}
           T == {From(p) : p \in S}
<1>1. IsFiniteSet(S) /\ S \subseteq Nat
    BY PathsAssumption, FS_Subset
<1>2. T \subseteq FiniteSubsetsOf(S) /\ T # {}
    <2>1. T \subseteq SUBSET S /\ T # {}
        OBVIOUS
    <2> HIDE DEF T
    <2> QED BY <2>1, <1>1, FS_FiniteSubsetsOfFinite
<1>3. PICK x \in T : \A y \in T : ~ (<<y, x>> \in StrictSubsetOrdering(S))
    <2> HIDE DEF T
    <2> QED BY <1>2, FS_StrictSubsetOrderingWellFounded, WFMin
<1>4. PICK p \in S : x = From(p)
    BY <1>3
<1>5. \A q \in S : q <= p
    <2> SUFFICES ASSUME NEW q \in S, p < q PROVE FALSE
        BY <1>1
    <2>0. p \in Nat /\ q \in Nat
        BY <1>1
    <2>1. From(q) \subseteq x
        <3> SUFFICES ASSUME NEW r \in S, q <= r PROVE p <= r
            BY <1>4
        <3> r \in Nat
            BY <1>1
        <3> QED BY <2>0
    <2>3. p \in x /\ p \notin From(q)
        BY <1>4, <2>0
    <2>2. <<From(q), x>> \in StrictSubsetOrdering(S)
        BY <2>1, <2>3, <1>4 DEF StrictSubsetOrdering
    <2> QED BY <2>2, <1>3
<1> QED BY <1>5 DEF Greatest

\* What is least in a set is least in every part of it that has it.
LEMMA LeastOfPart ==
    ASSUME NEW S, S \subseteq Paths, NEW T, T \subseteq S, Least(S) \in T
    PROVE  Least(T) = Least(S)
<1>1. S # {} /\ T # {} /\ T \subseteq Paths
    OBVIOUS
<1>2. Least(S) \in S /\ \A q \in S : Least(S) <= q
    BY <1>1, LeastOf
<1>3. Least(T) \in T /\ \A q \in T : Least(T) <= q
    BY <1>1, LeastOf
<1>4. Least(T) <= Least(S) /\ Least(S) <= Least(T)
    BY <1>2, <1>3
<1>5. Least(S) \in Nat /\ Least(T) \in Nat
    BY <1>1, <1>2, <1>3, PathsAssumption
<1> QED BY <1>4, <1>5

-----------------------------------------------------------------------------
(***************************************************************************)
(* Elections.                                                               *)
(***************************************************************************)
\* Every statement of R is answered from the least of its paths.
Election(R) == {<<Least(PathsOf(R, e)), e>> : e \in EventsOf(R)}

LEMMA LeastHolder ==
    ASSUME NEW R, R \subseteq Paths \X Events, NEW e \in EventsOf(R)
    PROVE  /\ PathsOf(R, e) \subseteq Paths /\ PathsOf(R, e) # {}
           /\ <<Least(PathsOf(R, e)), e>> \in R
<1>1. PathsOf(R, e) \subseteq Paths /\ PathsOf(R, e) # {}
    BY DEF PathsOf, EventsOf
<1>2. Least(PathsOf(R, e)) \in PathsOf(R, e)
    BY <1>1, LeastOf
<1> QED BY <1>1, <1>2 DEF PathsOf

LEMMA ElectionOfRows ==
    ASSUME NEW R, R \subseteq Paths \X Events
    PROVE  Election(R) \subseteq R
BY LeastHolder DEF Election

\* When rows are deleted, the occurrences that remain keep their place and those
\* that lost it are replaced by the least.
LEMMA PromotedElects ==
    ASSUME NEW R, R \subseteq Paths \X Events, NEW gone
    PROVE  Promoted(R, Election(R), gone) = Election(R \ gone)
<1> DEFINE K == R \ gone
           C == Election(R)
<1>1. K \subseteq Paths \X Events /\ \A e : PathsOf(K, e) \subseteq PathsOf(R, e)
    BY DEF PathsOf
<1>2. ASSUME NEW e \in EventsOf(R), <<Least(PathsOf(R, e)), e>> \notin gone
      PROVE  e \in EventsOf(K) /\ Least(PathsOf(K, e)) = Least(PathsOf(R, e))
    <2>1. <<Least(PathsOf(R, e)), e>> \in K
        BY <1>2, LeastHolder
    <2>2. e \in EventsOf(K) /\ Least(PathsOf(R, e)) \in PathsOf(K, e)
        <3>1. \A l : <<l, e>> \in K => e \in EventsOf(K) /\ l \in PathsOf(K, e)
            BY <1>1 DEF EventsOf, PathsOf
        <3> QED BY <2>1, <3>1
    <2> QED BY <2>2, <1>1, LeastOfPart, LeastHolder
<1>3. ASSUME NEW c \in Promoted(R, C, gone) PROVE c \in Election(K)
    <2>1. CASE c \in C \ gone
        <3>1. PICK e \in EventsOf(R) : c = <<Least(PathsOf(R, e)), e>>
            BY <2>1 DEF Election
        <3> QED BY <3>1, <2>1, <1>2 DEF Election
    <2>2. CASE c \notin C \ gone
        <3>1. PICK e \in EventsOf(K) : c = <<Least(PathsOf(K, e)), e>>
            BY <2>2, <1>3 DEF Promoted
        <3> QED BY <3>1 DEF Election
    <2> QED BY <2>1, <2>2
<1>4. ASSUME NEW e \in EventsOf(K) PROVE <<Least(PathsOf(K, e)), e>> \in Promoted(R, C, gone)
    <2>1. e \in EventsOf(R)
        BY DEF EventsOf
    <2> DEFINE c == <<Least(PathsOf(R, e)), e>>
    <2>2. c \in C
        BY <2>1 DEF Election
    <2>3. CASE c \in gone
        <3>1. e \in EventsOf(C \cap gone)
            BY <2>2, <2>3 DEF EventsOf
        <3> QED BY <3>1 DEF Promoted
    <2>4. CASE c \notin gone
        BY <2>1, <2>2, <2>4, <1>2 DEF Promoted
    <2> QED BY <2>3, <2>4
<1>5. Election(K) = {<<Least(PathsOf(K, e)), e>> : e \in EventsOf(K)}
    BY DEF Election
<1> QED BY <1>3, <1>4, <1>5

\* When the rows of a part are added, its statements are elected again and the
\* others are not concerned.
LEMMA ElectedElects ==
    ASSUME NEW R, R \subseteq Paths \X Events, NEW p \in Paths
    PROVE  LET N == R \cup ({p} \X Holds[p]) IN Elected(N, Election(R), p) = Election(N)
<1> DEFINE N == R \cup ({p} \X Holds[p])
<1>1. Holds[p] \subseteq Events /\ N \subseteq Paths \X Events
    BY HoldsAssumption
<1>2. EventsOf(N) = EventsOf(R) \cup Holds[p]
    <2>1. ASSUME NEW e \in Holds[p] PROVE e \in EventsOf(N)
        <3>1. <<p, e>> \in N /\ <<p, e>>[2] = e
            OBVIOUS
        <3> QED BY <3>1 DEF EventsOf
    <2>2. EventsOf(N) \subseteq EventsOf(R) \cup Holds[p] /\ EventsOf(R) \subseteq EventsOf(N)
        BY DEF EventsOf
    <2> QED BY <2>1, <2>2
<1>3. ASSUME NEW e, e \notin Holds[p] PROVE PathsOf(N, e) = PathsOf(R, e)
    BY <1>3 DEF PathsOf
<1>4. ASSUME NEW c \in Elected(N, Election(R), p) PROVE c \in Election(N)
    <2>1. CASE \E e \in Holds[p] : c = <<Least(PathsOf(N, e)), e>>
        BY <2>1, <1>2 DEF Election
    <2>2. CASE c \in Election(R) /\ c[2] \notin Holds[p]
        <3>1. PICK e \in EventsOf(R) : c = <<Least(PathsOf(R, e)), e>>
            BY <2>2 DEF Election
        <3>2. e \notin Holds[p] /\ e \in EventsOf(N)
            BY <3>1, <2>2, <1>2
        <3> QED BY <3>1, <3>2, <1>3 DEF Election
    <2> QED BY <1>4, <2>1, <2>2 DEF Elected
<1>5. ASSUME NEW e \in EventsOf(N) PROVE <<Least(PathsOf(N, e)), e>> \in Elected(N, Election(R), p)
    <2>1. CASE e \in Holds[p]
        BY <2>1 DEF Elected
    <2>2. CASE e \notin Holds[p]
        <3>1. <<Least(PathsOf(R, e)), e>> \in Election(R)
            BY <2>2, <1>2 DEF Election
        <3> QED BY <3>1, <2>2, <1>3 DEF Elected
    <2> QED BY <2>1, <2>2
<1>6. Election(N) = {<<Least(PathsOf(N, e)), e>> : e \in EventsOf(N)}
    BY DEF Election
<1> QED BY <1>4, <1>5, <1>6

-----------------------------------------------------------------------------
(***************************************************************************)
(* Transactions: rows, elections and counters belong together.              *)
(***************************************************************************)
IndexInv ==
    /\ built \subseteq Paths
    /\ OneCanonical
    /\ CountersExact

LEMMA IndexFacts ==
    ASSUME IndexInv
    PROVE  /\ rows \subseteq Paths \X Events /\ canon = Election(rows)
           /\ \A p \in Paths : RowsOf(p) = IF p \in built THEN {p} \X Holds[p] ELSE {}
           /\ IsFiniteSet(rows) /\ IsFiniteSet(built) /\ IsFiniteSet(EventsOf(rows))
           /\ EventsOf(rows) \subseteq Events
<1>1. \A p \in Paths : Holds[p] \subseteq Events
    BY HoldsAssumption
<1>2. rows \subseteq Paths \X Events /\ canon = Election(rows)
    BY <1>1 DEF IndexInv, OneCanonical, CountersExact, Election
<1>3. \A p \in Paths : RowsOf(p) = IF p \in built THEN {p} \X Holds[p] ELSE {}
    BY <1>1 DEF IndexInv, CountersExact, RowsOf
<1>4. EventsOf(rows) \subseteq Events
    BY <1>2 DEF EventsOf
<1>5. IsFiniteSet(Paths \X Events)
    BY PathsAssumption, HoldsAssumption, FS_Product
<1>6. IsFiniteSet(rows) /\ IsFiniteSet(built) /\ IsFiniteSet(EventsOf(rows))
    BY <1>2, <1>4, <1>5, PathsAssumption, HoldsAssumption, FS_Subset DEF IndexInv
<1> QED BY <1>2, <1>3, <1>4, <1>6

\* The statements that go with some rows are those that only these rows have.
LEMMA DeletedCount ==
    ASSUME NEW R, IsFiniteSet(EventsOf(R)), NEW gone, gone \subseteq R
    PROVE  Cardinality(EventsOf(R \ gone)) = Cardinality(EventsOf(R)) - Deleted(R, gone)
<1>1. EventsOf(R \ gone) \subseteq EventsOf(R)
    BY DEF EventsOf
<1>2. EventsOf(gone) \ EventsOf(R \ gone) = EventsOf(R) \ EventsOf(R \ gone)
    BY DEF EventsOf
<1>3. IsFiniteSet(EventsOf(R \ gone))
    BY <1>1, FS_Subset
<1> DEFINE E == EventsOf(R)
           K == EventsOf(R \ gone)
<1>4. K \subseteq E /\ IsFiniteSet(K) /\ IsFiniteSet(E) /\ E \cap K = K
    BY <1>1, <1>3
<1> HIDE DEF E, K
<1>5. Cardinality(E \ K) = Cardinality(E) - Cardinality(K)
    BY <1>4, FS_Difference
<1>6. Cardinality(E) \in Nat /\ Cardinality(K) \in Nat
    BY <1>4, FS_CardinalityType
<1>7. Deleted(R, gone) = Cardinality(E \ K)
    BY <1>2 DEF Deleted, E, K
<1>8. Cardinality(K) = Cardinality(E) - Deleted(R, gone)
    BY <1>5, <1>6, <1>7
<1> QED BY <1>8 DEF E, K

LEMMA RemoveKeepsIndex ==
    ASSUME IndexInv, NEW p \in Paths, RemovePath(p)
    PROVE  IndexInv'
<1> DEFINE G == RowsOf(p)
           K == rows \ G
<1>1. G \subseteq rows /\ G = IF p \in built THEN {p} \X Holds[p] ELSE {}
    BY IndexFacts DEF RowsOf
<1>2. rows' = K /\ built' = built \ {p} /\ canon' = Promoted(rows, canon, G)
      /\ count' = [parts |-> count.parts - Cardinality(built \cap {p}),
                   rows |-> count.rows - Cardinality(IF p \in built THEN G ELSE {}),
                   events |-> count.events - Deleted(rows, G)]
    BY DEF RemovePath
<1>3. rows' = UNION {{q} \X Holds[q] : q \in built'}
    BY <1>2 DEF RowsOf, IndexInv, CountersExact
<1>4. canon' = Election(rows')
    BY <1>2, IndexFacts, PromotedElects
<1>5. Cardinality(rows') = Cardinality(rows) - Cardinality(G)
    <2>1. rows \cap G = G
        BY <1>1
    <2>2. Cardinality(rows \ G) = Cardinality(rows) - Cardinality(rows \cap G)
        <3> HIDE DEF G
        <3> QED BY IndexFacts, FS_Difference
    <2> QED BY <1>2, <2>1, <2>2
<1>6. Cardinality(built') = Cardinality(built) - Cardinality(built \cap {p})
    BY <1>2, IndexFacts, FS_Difference
<1>7. Cardinality(EventsOf(rows')) = Cardinality(EventsOf(rows)) - Deleted(rows, G)
    BY <1>1, <1>2, IndexFacts, DeletedCount
<1>8. G = IF p \in built THEN G ELSE {}
    BY <1>1
<1>9. count.parts = Cardinality(built) /\ count.rows = Cardinality(rows)
      /\ count.events = Cardinality(EventsOf(rows))
    BY DEF IndexInv, CountersExact
<1>10. count' = [parts |-> Cardinality(built'), rows |-> Cardinality(rows'),
                 events |-> Cardinality(EventsOf(rows'))]
    BY <1>2, <1>5, <1>6, <1>7, <1>8, <1>9
<1> HIDE DEF G, K
<1> QED BY <1>2, <1>3, <1>4, <1>10 DEF IndexInv, OneCanonical, CountersExact, Election

LEMMA BuildKeepsIndex ==
    ASSUME IndexInv, NEW p \in Paths, p \notin built, BuildPart(p)
    PROVE  IndexInv'
<1> DEFINE W == {p} \X Holds[p]
           N == rows \cup W
<1>1. RowsOf(p) = {} /\ rows \ RowsOf(p) = rows
    BY IndexFacts
<1>2. rows' = N /\ built' = built \cup {p}
    BY <1>1 DEF BuildPart
<1>3. rows' = UNION {{q} \X Holds[q] : q \in built'}
    BY <1>2 DEF IndexInv, CountersExact
<1>4. canon' = Election(rows')
    <2>1. Promoted(rows, canon, {}) = Election(rows)
        <3>1. rows \ {} = rows
            OBVIOUS
        <3> QED BY <3>1, IndexFacts, PromotedElects
    <2>2. canon' = Elected(N, Election(rows), p)
        BY <1>1, <2>1 DEF BuildPart
    <2> QED BY <2>2, <1>2, IndexFacts, ElectedElects
<1>5. Holds[p] \subseteq Events /\ IsFiniteSet(Holds[p]) /\ IsFiniteSet(Events)
    BY HoldsAssumption, FS_Subset
<1>6. Cardinality(rows') = Cardinality(rows) + Cardinality(Holds[p])
    <2>1. IsFiniteSet(W) /\ Cardinality(W) = Cardinality(Holds[p])
        <3>1. Cardinality(W) = 1 * Cardinality(Holds[p]) /\ IsFiniteSet(W)
            <4>1. IsFiniteSet({p}) /\ Cardinality({p}) = 1
                BY FS_Singleton
            <4> DEFINE H == Holds[p]
            <4>2. IsFiniteSet(H)
                BY <1>5
            <4> HIDE DEF H
            <4>3. IsFiniteSet({p} \X H) /\ Cardinality({p} \X H) = Cardinality({p}) * Cardinality(H)
                BY <4>1, <4>2, FS_Product
            <4> QED BY <4>1, <4>3 DEF H
        <3> QED BY <3>1, <1>5, FS_CardinalityType
    <2>2. rows \cap W = {}
        BY <1>1 DEF RowsOf
    <2> HIDE DEF W
    <2>3. Cardinality(rows \cup W) = Cardinality(rows) + Cardinality(W) - 0
        BY <2>1, <2>2, IndexFacts, FS_Union, FS_EmptySet
    <2>4. Cardinality(rows) \in Nat /\ Cardinality(W) \in Nat
        BY <2>1, IndexFacts, FS_CardinalityType
    <2> QED BY <1>2, <2>1, <2>3, <2>4
<1>7. Cardinality(built') = Cardinality(built) + Cardinality({p} \ built)
    <2>1. {p} \ built = {p} /\ Cardinality({p}) = 1
        BY FS_Singleton
    <2> QED BY <1>2, <2>1, IndexFacts, FS_AddElement
<1>8. Cardinality(EventsOf(rows')) = Cardinality(EventsOf(rows)) + Inserted(rows, p)
    <2> DEFINE E == EventsOf(rows)
               A == {e \in Holds[p] : PathsOf(rows, e) \subseteq {p}}
    <2>1. A \cap E = {}
        BY <1>1, IndexFacts DEF RowsOf, PathsOf, EventsOf
    <2>2. EventsOf(rows') = E \cup A
        <3>1. ASSUME NEW e \in Holds[p] PROVE e \in EventsOf(N)
            <4>1. <<p, e>> \in N /\ <<p, e>>[2] = e
                OBVIOUS
            <4> QED BY <4>1 DEF EventsOf
        <3>2. E \subseteq EventsOf(N) /\ EventsOf(N) \subseteq E \cup Holds[p]
            BY DEF EventsOf
        <3>3. ASSUME NEW e \in Holds[p], e \notin A PROVE e \in E
            <4>1. PICK q \in Paths : <<q, e>> \in rows
                BY <3>3 DEF PathsOf
            <4> QED BY <4>1 DEF EventsOf
        <3> QED BY <1>2, <3>1, <3>2, <3>3
    <2>3. IsFiniteSet(A) /\ IsFiniteSet(E)
        BY <1>5, IndexFacts, FS_Subset
    <2>4. Inserted(rows, p) = Cardinality(A)
        BY DEF Inserted
    <2> HIDE DEF A, E
    <2>5. Cardinality(E \cup A) = Cardinality(E) + Cardinality(A) - 0
        BY <2>1, <2>3, FS_Union, FS_EmptySet
    <2>6. Cardinality(E) \in Nat /\ Cardinality(A) \in Nat
        BY <2>3, FS_CardinalityType
    <2>7. Cardinality(EventsOf(rows')) = Cardinality(E) + Inserted(rows, p)
        BY <2>2, <2>4, <2>5, <2>6
    <2> QED BY <2>7 DEF E
<1>9. Deleted(rows, {}) = 0
    <2>1. EventsOf({}) = {}
        BY DEF EventsOf
    <2> QED BY <2>1, FS_EmptySet DEF Deleted
<1>10. count.parts = Cardinality(built) /\ count.rows = Cardinality(rows)
       /\ count.events = Cardinality(EventsOf(rows))
       /\ Cardinality(rows) \in Nat /\ Cardinality(EventsOf(rows)) \in Nat
       /\ Cardinality(Holds[p]) \in Nat
    BY <1>5, IndexFacts, FS_CardinalityType DEF IndexInv, CountersExact
<1>11. count' = [parts |-> Cardinality(built'), rows |-> Cardinality(rows'),
                 events |-> Cardinality(EventsOf(rows'))]
    <2>1. count' = [parts |-> count.parts + Cardinality({p} \ built),
                    rows |-> count.rows + Cardinality(Holds[p]) - Cardinality({}),
                    events |-> count.events - Deleted(rows, {}) + Inserted(rows, p)]
        BY <1>1 DEF BuildPart
    <2>2. Cardinality({}) = 0
        BY FS_EmptySet
    <2> QED BY <2>1, <2>2, <1>6, <1>7, <1>8, <1>9, <1>10
<1> HIDE DEF W, N
<1>12. built' \subseteq Paths
    BY <1>2 DEF IndexInv
<1> QED BY <1>3, <1>4, <1>11, <1>12 DEF IndexInv, OneCanonical, CountersExact, Election

-----------------------------------------------------------------------------
(***************************************************************************)
(* Who may touch a part.                                                    *)
(***************************************************************************)
\* The part of the type invariant that the counters and elections do not concern.
Shape ==
    /\ part \in [Paths -> {"new", "listed", "aged", "gone"}]
    /\ fresh \subseteq Listed \cup {p \in Paths : part[p] = "gone"} /\ repair \subseteq Paths
    /\ queue \in [Paths -> {"none", "first", "again", "later"}]
    /\ built \subseteq Paths
    /\ sweep \in [after : Paths \cup {0}, complete : BOOLEAN]
    /\ worker.at \in {"top", "sweep", "advance", "ready", "check", "build"} /\ worker.page \subseteq Paths
    /\ job \in [Paths -> {"none", "wait", "read"}]
    /\ body \in [Paths -> {"free", "worker", "sweeper", "removed"}]
    /\ \A p \in Paths : (job[p] = "read") = (body[p] = "worker")

\* Builds run only while their batch is awaited, under the body lock and for a part
\* that was looked up under it; retention holds the lock from before it removes a
\* part from the index until it is gone from the catalog.
Locks == \A p \in Paths :
    /\ job[p] = "read" => worker.at = "build" /\ part[p] \in {"listed", "aged"}
    /\ body[p] \in {"sweeper", "removed"} => part[p] = "aged"
    /\ body[p] = "removed" => p \notin built
    /\ part[p] = "gone" => p \notin built

LEMMA LocksInit == Init => Shape /\ Locks
BY PathsAssumption DEF Init, Shape, Locks, Listed

LEMMA LocksStep == Shape /\ Locks /\ [Next]_vars => Shape' /\ Locks'
<1> SUFFICES ASSUME Shape, Locks, [Next]_vars PROVE Shape' /\ Locks'
    OBVIOUS
<1> USE DEF Shape, Locks, Listed, index
<1>1. CASE QueueSweep \/ QueueMissing
    BY <1>1 DEF QueueSweep, QueueMissing, Enqueued, At
<1>2. CASE AdvanceSweep
    <2>1. worker.page # {} => Greatest(worker.page) \in Paths
        BY GreatestOf
    <2> QED BY <1>2, <2>1 DEF AdvanceSweep, At
<1>3. CASE TakeBatch
    BY <1>3 DEF TakeBatch, At, Due
<1>4. CASE StartBuilds
    BY <1>4 DEF StartBuilds, At
<1>5. CASE EndBatch
    BY <1>5 DEF EndBatch, At
<1>6. ASSUME NEW p \in Paths, CheckPath(p) PROVE Shape' /\ Locks'
    BY <1>6 DEF CheckPath, RemovePath, At
<1>7. CASE BeginSweep \/ ReadSweep \/ SkipSweep
    <2>2. CASE BeginSweep
        BY <2>2 DEF BeginSweep
    <2>3. CASE ReadSweep
        <3>1. worker'.at = "sweep" /\ worker'.page \subseteq Paths
            BY <2>3 DEF ReadSweep, First, At
        <3> QED BY <2>3, <3>1 DEF ReadSweep
    <2>4. CASE SkipSweep
        BY <2>4 DEF SkipSweep, At
    <2> QED BY <1>7, <2>2, <2>3, <2>4
<1>8. CASE FindMissing
    BY <1>8 DEF FindMissing, Missing
<1>9. CASE CrashWorker \/ CrashService
    <2>1. CASE CrashWorker
        BY <2>1 DEF CrashWorker, Freed
    <2>2. CASE CrashService
        BY <2>2 DEF CrashService, Freed
    <2> QED BY <1>9, <2>1, <2>2
<1>10. ASSUME NEW p \in Paths, Publish(p) \/ QueueFresh(p) \/ LoseFresh(p) \/ RetryDue(p) \/ Age(p)
       PROVE Shape' /\ Locks'
    BY <1>10 DEF Publish, QueueFresh, LoseFresh, RetryDue, Age, Enqueued
<1>11. ASSUME NEW p \in Paths, LockPart(p) PROVE Shape' /\ Locks'
    BY <1>11 DEF LockPart, Current
<1>12. ASSUME NEW p \in Paths, Build(p) PROVE Shape' /\ Locks'
    BY <1>12 DEF Build, EndJob, BuildPart
<1>13. ASSUME NEW p \in Paths, FailBuild(p) PROVE Shape' /\ Locks'
    BY <1>13 DEF FailBuild, EndJob, Enqueued
<1>14. ASSUME NEW p \in Paths, Retention(p) PROVE Shape' /\ Locks'
    BY <1>14 DEF Retention, LockAged, RemoveAged, DropAged, RemovePath
<1>15. CASE UNCHANGED vars
    BY <1>15 DEF vars
<1> QED BY <1>1, <1>2, <1>3, <1>4, <1>5, <1>6, <1>7, <1>8, <1>9, <1>10, <1>11, <1>12, <1>13, <1>14, <1>15
        DEF Next, Round

-----------------------------------------------------------------------------
(***************************************************************************)
(* The theorems.                                                            *)
(***************************************************************************)
LEMMA IndexInit == Init => IndexInv
<1> SUFFICES ASSUME Init PROVE IndexInv
    OBVIOUS
<1>1. EventsOf({}) = {} /\ Cardinality({}) = 0
    BY FS_EmptySet DEF EventsOf
<1> QED BY <1>1 DEF Init, IndexInv, OneCanonical, CountersExact

\* A step leaves the index alone, removes a part or builds one that is not built.
LEMMA IndexStep == IndexInv /\ [Next]_vars => IndexInv'
<1> SUFFICES ASSUME IndexInv, [Next]_vars PROVE IndexInv'
    OBVIOUS
<1>1. CASE UNCHANGED index
    BY <1>1 DEF index, IndexInv, OneCanonical, CountersExact
<1>2. CASE \E p \in Paths : RemovePath(p)
    BY <1>2, RemoveKeepsIndex
<1>3. CASE \E p \in Paths : p \notin built /\ BuildPart(p)
    BY <1>3, BuildKeepsIndex
<1>4. UNCHANGED index \/ (\E p \in Paths : RemovePath(p)) \/ (\E p \in Paths : p \notin built /\ BuildPart(p))
    BY DEF Next, Round, QueueSweep, QueueMissing, AdvanceSweep, TakeBatch, StartBuilds, EndBatch, CheckPath,
        BeginSweep, ReadSweep, SkipSweep, FindMissing, CrashWorker, CrashService, Publish, QueueFresh,
        LoseFresh, RetryDue, Age, LockPart, Build, FailBuild, Retention, LockAged, RemoveAged, DropAged,
        vars, index
<1> QED BY <1>1, <1>2, <1>3, <1>4

LEMMA IndexInvariant == Spec => [](Shape /\ Locks /\ IndexInv)
<1>1. Init => Shape /\ Locks /\ IndexInv
    BY LocksInit, IndexInit
<1>2. Shape /\ Locks /\ IndexInv /\ [Next]_vars => Shape' /\ Locks' /\ IndexInv'
    BY LocksStep, IndexStep
<1> QED BY <1>1, <1>2, PTL DEF Spec

\* Every statement is answered once, from the first of the parts that hold it,
\* whatever the order in which parts are built, removed, lost and built again.
THEOREM StatementsAreElected == Spec => []OneCanonical
<1>1. IndexInv => OneCanonical
    BY DEF IndexInv
<1> QED BY <1>1, IndexInvariant, PTL

\* The counters the triggers keep are the sizes of what they count, and a part is
\* in the index as a whole or not at all.
THEOREM CountersAreExact == Spec => []CountersExact
<1>1. IndexInv => CountersExact
    BY DEF IndexInv
<1> QED BY <1>1, IndexInvariant, PTL

\* Nothing is built for a part that retention has removed (RemovedStaysRemoved).
THEOREM RemovedPartsStayRemoved == Spec => []RemovedStaysRemoved
<1>1. Locks => RemovedStaysRemoved
    BY DEF Locks, RemovedStaysRemoved
<1> QED BY <1>1, IndexInvariant, PTL

\* The type invariant, with the counters that never fall below zero.
THEOREM IndexTypeCorrect == Spec => []TypeOK
<1>1. ASSUME Shape, IndexInv PROVE TypeOK
    <2>1. canon \subseteq rows
        BY <1>1, IndexFacts, ElectionOfRows
    <2>2. count \in [parts : Nat, rows : Nat, events : Nat]
        BY <1>1, IndexFacts, FS_CardinalityType DEF IndexInv, CountersExact
    <2> QED BY <1>1, <2>1, <2>2 DEF Shape, TypeOK
<1> QED BY <1>1, IndexInvariant, PTL
=============================================================================
