------------------------- MODULE ServingManifestProofs -------------------------
(***************************************************************************)
(* Proofs about ServingManifest, for any parts, identities and budgets.     *)
(*                                                                          *)
(* The change queue is empty for a part only when the manifest has taken    *)
(* over what the catalog shows of it: a page read from the queue or from    *)
(* the catalog stays true for a part until the part changes again, and then *)
(* the queue has a newer entry (IInv).                                      *)
(*                                                                          *)
(* The gate is exact as long as nothing ready is being deleted: the states  *)
(* of the manifest then say what the two tables hold (RowsFollow).          *)
(*                                                                          *)
(* Nothing ready is being deleted as long as no file is hidden: a delete is *)
(* always of an identity or of a revision that is past (PInv).              *)
(***************************************************************************)
EXTENDS ServingManifest, TLAPS

Serving == {"ready"} \cup LoadStates
Gone == {"absent", "retired"} \cup DeleteStates

\* The manifest serves or loads what the catalog shows of p, and nothing else of it.
Right(p) == \A g \in Ids : status[<<p, g>>] \in IF g \in Expected(p) THEN Serving ELSE Gone

PageSteps == {"page", "missing", "ack"}
LoadSteps == {"load", "look", "stream", "insert", "verify", "replace", "replaced", "stale", "dropped"}

Statuses == {"absent", "ready", "retired"} \cup Unready

Parts == {NoPart} \cup [id : Ids, rev : Nat, archived : BOOLEAN]

QueueRow == [version : Nat, visible : BOOLEAN, id : Ids \cup {0}, archived : BOOLEAN]
AllPages == (UNION {[ps -> QueueRow] : ps \in SUBSET Paths}) \cup (UNION {[ps -> [id : Ids]] : ps \in SUBSET Paths})
WorkType(Ats) ==
    [at : Ats, tracked : BOOLEAN, full : BOOLEAN, all : BOOLEAN, page : AllPages, key : Keys \cup {<<>>}, rev : Nat]
Steps == PageSteps \cup LoadSteps \cup {"idle", "scan", "scanned", "mark", "delete", "deleted"}

Types ==
    /\ part \in [Paths -> Parts]
    /\ shown \in [Paths -> BOOLEAN] /\ pending \in [Paths -> Nat] /\ stamp \in Nat
    /\ status \in [Keys -> Statuses] /\ tracked \in BOOLEAN /\ aged \subseteq Paths
    /\ work \in WorkType(Steps)

\* A page of the change queue describes the path until the path changes again.
PageIsFresh ==
    work.at \in PageSteps => \A p \in Pages : pending[p] = work.page[p].version =>
        /\ work.page[p].visible <=> Visible(p)
        /\ Visible(p) => work.page[p].id = part[p].id /\ (work.page[p].archived <=> part[p].archived)

\* What is going to be acknowledged has been handed over.
PageIsHanded ==
    /\ work.at = "missing" => \A p \in Eligible : pending[p] = work.page[p].version => Right(p)
    /\ work.at = "ack" => \A p \in Eligible \cup Removed : pending[p] = work.page[p].version => Right(p)

\* A page of the catalog describes every path that is not in the queue.
ScanIsFresh ==
    work.at = "scanned" => \A p \in Paths : pending[p] = 0 =>
        /\ p \in Pages => Visible(p) /\ part[p].archived /\ work.page[p].id = part[p].id
        /\ work.full /\ p \notin aged /\ Visible(p) /\ (work.all \/ part[p].archived) => p \in Pages

QueueIsRight ==
    tracked \/ work.at = "mark" => \A p \in Paths \ aged : pending[p] = 0 =>
        Right(p) /\ (Visible(p) => part[p].archived)

JobIsHeld ==
    /\ work.at \in LoadSteps => work.key \in Keys /\ status[work.key] = "loading"
    /\ work.at \in {"delete", "deleted"} => work.key \in Keys /\ status[work.key] = "deleting"

\* A part that was loaded and whose identity has gone comes back only by the queue.
StaleIsGone ==
    work.at \in {"stale", "dropped"} =>
        (pending[work.key[1]] = 0 => work.key[2] \notin Expected(work.key[1]))

Versions ==
    /\ \A p \in Paths : pending[p] <= stamp
    /\ work.at \in PageSteps => \A p \in Pages : work.page[p].version \in 1..pending[p]

IInv ==
    /\ Types /\ Versions
    /\ PageIsFresh /\ PageIsHanded /\ ScanIsFresh /\ QueueIsRight /\ JobIsHeld /\ StaleIsGone

-----------------------------------------------------------------------------
(***************************************************************************)
(* The worker's record, and the two kinds of manifest states.               *)
(***************************************************************************)
LEMMA WorkFields ==
    ASSUME NEW A, NEW w \in WorkType(A)
    PROVE  /\ w.at \in A /\ w.tracked \in BOOLEAN /\ w.full \in BOOLEAN /\ w.all \in BOOLEAN
           /\ w.page \in AllPages /\ w.key \in Keys \cup {<<>>} /\ w.rev \in Nat
BY DEF WorkType

LEMMA WorkAt ==
    ASSUME NEW A, NEW w \in WorkType(A), NEW a \in A
    PROVE  /\ [w EXCEPT !.at = a] \in WorkType(A) /\ [w EXCEPT !.at = a].at = a
           /\ [w EXCEPT !.at = a].page = w.page /\ [w EXCEPT !.at = a].key = w.key
           /\ [w EXCEPT !.at = a].full = w.full /\ [w EXCEPT !.at = a].all = w.all
BY DEF WorkType

LEMMA PagesAreFunctions ==
    ASSUME NEW f \in AllPages
    PROVE  DOMAIN f \subseteq Paths
<1>1. CASE f \in UNION {[ps -> QueueRow] : ps \in SUBSET Paths}
    BY <1>1
<1>2. CASE f \in UNION {[ps -> [id : Ids]] : ps \in SUBSET Paths}
    BY <1>2
<1> QED BY <1>1, <1>2 DEF AllPages

LEMMA IdleFacts ==
    /\ IdleWork \in WorkType(Steps) /\ IdleWork.at = "idle"
<1>1. [p \in {} |-> NoPart] \in [{} -> QueueRow]
    OBVIOUS
<1>2. [p \in {} |-> NoPart] \in AllPages
    BY <1>1 DEF AllPages
<1> QED BY <1>2 DEF IdleWork, WorkType, Steps

LEMMA PartFields ==
    ASSUME NEW r \in Parts
    PROVE  /\ r.id \in Ids \cup {0} /\ r.rev \in Nat /\ r.archived \in BOOLEAN
           /\ r # NoPart => r.id \in Ids
<1>1. CASE r = NoPart
    BY <1>1 DEF NoPart
<1>2. CASE r \in [id : Ids, rev : Nat, archived : BOOLEAN]
    BY <1>2
<1> QED BY <1>1, <1>2 DEF Parts

LEMMA Kinds ==
    /\ Serving \cap Gone = {} /\ Serving \subseteq Statuses /\ Gone \subseteq Statuses
    /\ \A s \in Statuses : Wanted(s) \in Serving /\ Doomed(s) \in Gone
BY DEF Serving, Gone, Statuses, Wanted, Doomed, Unready, LoadStates, DeleteStates

\* Right is about kinds of states only.
LEMMA RightKept ==
    ASSUME NEW p \in Paths, Right(p),
           \A g \in Ids : (status[<<p, g>>] \in Serving => status'[<<p, g>>] \in Serving)
                       /\ (status[<<p, g>>] \in Gone => status'[<<p, g>>] \in Gone),
           Expected(p)' = Expected(p)
    PROVE  Right(p)'
BY DEF Right

-----------------------------------------------------------------------------
LEMMA InitInv == Init => IInv
<1> SUFFICES ASSUME Init PROVE IInv
    OBVIOUS
<1>1. work.at = "idle" /\ work \in WorkType(Steps)
    BY IdleFacts DEF Init
<1>2. part \in [Paths -> Parts]
    <2>1. [id : Before, rev : {1}, archived : BOOLEAN] \subseteq [id : Ids, rev : Nat, archived : BOOLEAN]
        <3>1. Before \subseteq Ids
            BY IdsAssumption
        <3> SUFFICES ASSUME NEW r \in [id : Before, rev : {1}, archived : BOOLEAN]
                     PROVE  r \in [id : Ids, rev : Nat, archived : BOOLEAN]
            OBVIOUS
        <3>2. r = [id |-> r.id, rev |-> r.rev, archived |-> r.archived]
              /\ r.id \in Ids /\ r.rev \in Nat /\ r.archived \in BOOLEAN
            BY <3>1
        <3> QED BY <3>2
    <2> QED BY <2>1 DEF Init, Parts
<1>3. Types
    BY <1>1, <1>2 DEF Init, Types, Statuses
<1>4. Versions
    BY <1>1 DEF Init, Versions, PageSteps
<1>5. PageIsFresh /\ PageIsHanded /\ ScanIsFresh /\ QueueIsRight /\ JobIsHeld /\ StaleIsGone
    BY <1>1 DEF Init, PageIsFresh, PageIsHanded, ScanIsFresh, QueueIsRight, JobIsHeld, StaleIsGone,
                PageSteps, LoadSteps
<1> QED BY <1>3, <1>4, <1>5 DEF IInv

-----------------------------------------------------------------------------
(***************************************************************************)
(* The catalog: whatever of a visible part changes gets a newer entry.      *)
(***************************************************************************)
Unmoved(p) ==
    /\ pending'[p] = pending[p] /\ (Visible(p)' <=> Visible(p)) /\ (Visible(p) => part'[p] = part[p])

LEMMA SourceFrame ==
    ASSUME Types, Versions, Source
    PROVE  /\ part' \in [Paths -> Parts]
           /\ shown' \in [Paths -> BOOLEAN] /\ pending' \in [Paths -> Nat] /\ stamp' \in Nat
           /\ stamp <= stamp' /\ \A p \in Paths : pending'[p] <= stamp'
           /\ \A p \in Paths : Unmoved(p) \/ pending'[p] = stamp + 1
           /\ UNCHANGED <<tracked, status, work, aged>>
<1> DEFINE Good == /\ part' \in [Paths -> Parts]
                   /\ shown' \in [Paths -> BOOLEAN] /\ pending' \in [Paths -> Nat] /\ stamp' \in Nat
                   /\ stamp <= stamp' /\ \A p \in Paths : pending'[p] <= stamp'
                   /\ \A p \in Paths : Unmoved(p) \/ pending'[p] = stamp + 1
                   /\ UNCHANGED <<tracked, status, work, aged>>
<1>0. /\ part \in [Paths -> Parts] /\ shown \in [Paths -> BOOLEAN]
      /\ pending \in [Paths -> Nat] /\ stamp \in Nat /\ \A p \in Paths : pending[p] <= stamp
      /\ \A p \in Paths : pending[p] \in Nat
    BY DEF Types, Versions
<1>1. ASSUME NEW q \in Paths, NEW new \in Parts, Change(q, new), shown' = shown,
             UNCHANGED <<tracked, status, work, aged>>
      PROVE  Good
    <2>1. part' = [part EXCEPT ![q] = new] /\ stamp' = stamp + 1
        BY <1>1 DEF Change, Enqueue
    <2>2. CASE shown[q]
        <3>1. pending' = [pending EXCEPT ![q] = stamp + 1]
            BY <1>1, <2>2 DEF Change, Enqueue
        <3> QED BY <1>0, <1>1, <2>1, <3>1 DEF Unmoved, Visible
    <2>3. CASE ~shown[q]
        <3>1. pending' = pending
            BY <1>1, <2>3 DEF Change
        <3> QED BY <1>0, <1>1, <2>1, <2>3, <3>1 DEF Unmoved, Visible
    <2> QED BY <2>2, <2>3
<1>2. ASSUME NEW q \in Paths, NEW g \in Ids, Publish(q, g) PROVE Good
    <2>1. [id |-> g, rev |-> stamp + 1, archived |-> FALSE] \in Parts
        BY <1>0 DEF Parts
    <2> QED BY <1>1, <1>2, <2>1 DEF Publish, gateVars, tableVars
<1>3. ASSUME NEW q \in Paths, Rewrite(q) PROVE Good
    <2>0. part[q] \in [id : Ids, rev : Nat, archived : BOOLEAN] /\ stamp + 1 \in Nat
        BY <1>0, <1>3 DEF Rewrite, Parts
    <2>1. [part[q] EXCEPT !.rev = stamp + 1, !.archived = FALSE] \in [id : Ids, rev : Nat, archived : BOOLEAN]
        BY <2>0
    <2>2. [part[q] EXCEPT !.rev = stamp + 1, !.archived = FALSE] \in Parts
        BY <2>1 DEF Parts
    <2> QED BY <1>1, <1>3, <2>2 DEF Rewrite, gateVars, tableVars
<1>4. ASSUME NEW q \in Paths, Archive(q) PROVE Good
    <2>0. part[q] \in [id : Ids, rev : Nat, archived : BOOLEAN]
        BY <1>0, <1>4 DEF Archive, Parts
    <2>2. [part[q] EXCEPT !.archived = TRUE] \in Parts
        BY <2>0 DEF Parts
    <2>1. part' \in [Paths -> Parts] /\ \A p \in Paths \ {q} : part'[p] = part[p]
        BY <1>0, <1>4, <2>2 DEF Archive
    <2>3. UNCHANGED <<tracked, status, work, aged, shown>>
        BY <1>4 DEF Archive, gateVars
    <2>4. CASE shown[q]
        <3>1. pending' = [pending EXCEPT ![q] = stamp + 1] /\ stamp' = stamp + 1
            BY <1>4, <2>4 DEF Archive, Enqueue
        <3> QED BY <1>0, <2>1, <2>3, <3>1 DEF Unmoved, Visible
    <2>5. CASE ~shown[q]
        <3>1. pending' = pending /\ stamp' = stamp
            BY <1>4, <2>5 DEF Archive
        <3> QED BY <1>0, <2>1, <2>3, <2>5, <3>1 DEF Unmoved, Visible
    <2> QED BY <2>4, <2>5
<1>5. ASSUME NEW q \in Paths, Remove(q) PROVE Good
    <2>1. NoPart \in Parts
        BY DEF Parts
    <2>2. /\ part' = [part EXCEPT ![q] = NoPart] /\ pending' = [pending EXCEPT ![q] = stamp + 1]
          /\ stamp' = stamp + 1 /\ UNCHANGED <<tracked, status, work, aged, shown>>
        BY <1>5 DEF Remove, Enqueue, gateVars
    <2> QED BY <1>0, <2>1, <2>2 DEF Unmoved, Visible
<1>6. ASSUME NEW q \in Paths, Flip(q) PROVE Good
    <2>1. shown' = [shown EXCEPT ![q] = ~shown[q]] /\ UNCHANGED <<tracked, status, work, aged, part>>
        BY <1>6 DEF Flip, gateVars
    <2>2. CASE part[q] # NoPart
        <3>1. pending' = [pending EXCEPT ![q] = stamp + 1] /\ stamp' = stamp + 1
            BY <1>6, <2>2 DEF Flip, Enqueue
        <3> QED BY <1>0, <2>1, <3>1 DEF Unmoved, Visible
    <2>3. CASE part[q] = NoPart
        <3>1. pending' = pending /\ stamp' = stamp
            BY <1>6, <2>3 DEF Flip
        <3> QED BY <1>0, <2>1, <2>3, <3>1 DEF Unmoved, Visible
    <2> QED BY <2>2, <2>3
<1>7. Good
    BY <1>2, <1>3, <1>4, <1>5, <1>6 DEF Source
<1> QED BY <1>7

\* Changes of the catalog.
LEMMA SourceKeeps ==
    ASSUME IInv, Source
    PROVE  IInv'
<1>0. Types /\ Versions
    BY DEF IInv
<1>1. /\ part' \in [Paths -> Parts]
      /\ shown' \in [Paths -> BOOLEAN] /\ pending' \in [Paths -> Nat] /\ stamp' \in Nat
      /\ stamp \in Nat /\ stamp <= stamp' /\ \A p \in Paths : pending'[p] <= stamp'
      /\ \A p \in Paths : Unmoved(p) \/ pending'[p] = stamp + 1
      /\ tracked' = tracked /\ status' = status /\ work' = work /\ aged' = aged
    BY <1>0, SourceFrame DEF Types
<1>2. Types'
    BY <1>0, <1>1 DEF Types
<1>3. work.at \in PageSteps => \A p \in Pages : p \in Paths /\ work.page[p].version \in 1..pending[p] /\ work.page[p].version <= stamp
    <2>1. Pages \subseteq Paths
        BY <1>0, WorkFields, PagesAreFunctions DEF Types, Pages
    <2> QED BY <1>0, <2>1 DEF Versions, Types
<1>4. Versions'
    <2> SUFFICES ASSUME work.at \in PageSteps, NEW p \in Pages
                 PROVE  work.page[p].version \in 1..pending'[p]
        BY <1>1 DEF Versions, Pages
    <2> QED BY <1>1, <1>3 DEF Unmoved
\* A path with an empty entry has not moved; nor has one whose version is on the page.
<1>5. ASSUME NEW p \in Paths, pending'[p] = 0 PROVE Unmoved(p)
    BY <1>1, <1>5
<1>6. ASSUME NEW p \in Pages, work.at \in PageSteps, pending'[p] = work.page[p].version PROVE p \in Paths /\ Unmoved(p)
    BY <1>1, <1>3, <1>6
<1>7. ASSUME NEW p \in Paths, Unmoved(p) PROVE Expected(p)' = Expected(p) /\ (Right(p) => Right(p)')
    <2>1. Expected(p)' = Expected(p)
        BY <1>7 DEF Unmoved, Expected
    <2> QED BY <1>1, <2>1 DEF Right
<1>8. Pages' = Pages /\ Eligible' = Eligible /\ Removed' = Removed
    BY <1>1 DEF Pages, Eligible, Removed
<1>9. PageIsFresh'
    <2> SUFFICES ASSUME work.at \in PageSteps, NEW p \in Pages, pending'[p] = work.page[p].version
                 PROVE  /\ work.page[p].visible <=> Visible(p)'
                        /\ Visible(p)' => work.page[p].id = part'[p].id /\ (work.page[p].archived <=> part'[p].archived)
        BY <1>1, <1>8 DEF PageIsFresh
    <2>1. Unmoved(p) /\ p \in Paths
        BY <1>6
    <2> QED BY <2>1 DEF Unmoved, IInv, PageIsFresh
<1>10. PageIsHanded'
    <2>1. ASSUME work.at \in {"missing", "ack"}, NEW p \in Pages, pending'[p] = work.page[p].version, 
                 pending[p] = work.page[p].version => Right(p)
          PROVE  Right(p)'
        <3>1. Unmoved(p) /\ p \in Paths
            BY <1>6, <2>1 DEF PageSteps
        <3> QED BY <2>1, <3>1, <1>7 DEF Unmoved
    <2>2. Eligible \subseteq Pages /\ Removed \subseteq Pages
        BY DEF Eligible, Removed
    <2> QED BY <1>1, <1>8, <2>1, <2>2 DEF IInv, PageIsHanded
<1>11. ScanIsFresh'
    <2> SUFFICES ASSUME work.at = "scanned", NEW p \in Paths, pending'[p] = 0
                 PROVE  /\ p \in Pages => Visible(p)' /\ part'[p].archived /\ work.page[p].id = part'[p].id
                        /\ work.full /\ p \notin aged /\ Visible(p)' /\ (work.all \/ part'[p].archived) => p \in Pages
        BY <1>1, <1>8 DEF ScanIsFresh
    <2>1. Unmoved(p)
        BY <1>5
    <2> QED BY <2>1 DEF Unmoved, IInv, ScanIsFresh
<1>12. QueueIsRight'
    <2> SUFFICES ASSUME tracked \/ work.at = "mark", NEW p \in Paths \ aged, pending'[p] = 0
                 PROVE  Right(p)' /\ (Visible(p)' => part'[p].archived)
        BY <1>1 DEF QueueIsRight
    <2>1. Unmoved(p)
        BY <1>5
    <2> QED BY <2>1, <1>7 DEF Unmoved, IInv, QueueIsRight
<1>13. JobIsHeld'
    BY <1>1 DEF IInv, JobIsHeld
<1>14. StaleIsGone'
    <2> SUFFICES ASSUME work.at \in {"stale", "dropped"},
                        pending'[work.key[1]] = 0
                 PROVE  work.key[2] \notin Expected(work.key[1])'
        BY <1>1 DEF StaleIsGone
    <2>1. work.key[1] \in Paths
        BY DEF IInv, JobIsHeld, LoadSteps, Keys
    <2>2. PICK q \in Paths : q = work.key[1]
        BY <2>1
    <2>3. Unmoved(q) /\ Expected(q)' = Expected(q)
        BY <2>2, <1>5, <1>7
    <2>4. pending[q] = 0 /\ work.key[2] \notin Expected(q)
        BY <2>2, <2>3 DEF Unmoved, IInv, StaleIsGone
    <2>5. work.key[2] \notin Expected(q)'
        BY <2>3, <2>4
    <2> QED BY <1>1, <2>2, <2>5
<1> QED BY <1>2, <1>4, <1>9, <1>10, <1>11, <1>12, <1>13, <1>14 DEF IInv

\* Steps of queries and of ClickHouse, and time.
LEMMA OthersKeep ==
    ASSUME IInv, UNCHANGED <<part, shown, pending, stamp, tracked, status, work>>,
           aged \subseteq aged', aged' \subseteq Paths
    PROVE  IInv'
<1>1. \A p \in Paths : Expected(p)' = Expected(p) /\ (Visible(p)' <=> Visible(p)) /\ (Right(p)' <=> Right(p))
    BY DEF Expected, Visible, Right
<1>2. Pages' = Pages /\ Eligible' = Eligible /\ Removed' = Removed /\ Pages \subseteq Paths
    BY WorkFields, PagesAreFunctions DEF IInv, Types, Pages, Eligible, Removed
<1>3. Types' /\ Versions' /\ JobIsHeld'
    BY <1>2 DEF IInv, Types, Versions, JobIsHeld
<1>4. PageIsFresh'
    BY <1>1, <1>2 DEF IInv, PageIsFresh
<1>5. PageIsHanded'
    <2>1. Eligible \subseteq Paths /\ Removed \subseteq Paths
        BY <1>2 DEF Eligible, Removed
    <2> QED BY <1>1, <1>2, <2>1 DEF IInv, PageIsHanded
<1>6. ScanIsFresh'
    BY <1>1, <1>2 DEF IInv, ScanIsFresh
<1>7. QueueIsRight'
    BY <1>1 DEF IInv, QueueIsRight
<1>8. StaleIsGone'
    <2>1. work.at \in {"stale", "dropped"} => work.key[1] \in Paths
        BY DEF IInv, JobIsHeld, LoadSteps, Keys
    <2> QED BY <1>1, <2>1 DEF IInv, StaleIsGone
<1> QED BY <1>3, <1>4, <1>5, <1>6, <1>7, <1>8 DEF IInv

-----------------------------------------------------------------------------
(***************************************************************************)
(* Jobs.                                                                    *)
(***************************************************************************)
JobFrame == UNCHANGED <<part, shown, pending, stamp, tracked, aged>>

\* A step of a job is safe when no path that is not in the queue loses its kind of state.
LEMMA JobStepKeeps ==
    ASSUME IInv, JobFrame, work' \in WorkType(Steps), work'.at \notin PageSteps \cup {"scanned", "mark"},
           status' \in [Keys -> Statuses],
           \A p \in Paths \ aged : pending[p] = 0 /\ tracked /\ Right(p) => Right(p)',
           JobIsHeld', StaleIsGone'
    PROVE  IInv'
<1>1. Types'
    BY DEF JobFrame, IInv, Types
<1>2. Versions'
    BY DEF JobFrame, IInv, Versions
<1>3. PageIsFresh' /\ PageIsHanded' /\ ScanIsFresh'
    BY DEF PageIsFresh, PageIsHanded, ScanIsFresh, PageSteps
<1>4. QueueIsRight'
    <2> SUFFICES ASSUME tracked, NEW p \in Paths \ aged, pending[p] = 0
                 PROVE  Right(p)' /\ (Visible(p)' => part'[p].archived)
        BY DEF QueueIsRight, JobFrame
    <2>1. Right(p) /\ (Visible(p) => part[p].archived)
        BY DEF IInv, QueueIsRight
    <2>2. Visible(p)' <=> Visible(p)
        BY DEF Visible, JobFrame
    <2> QED BY <2>1, <2>2 DEF JobFrame
<1> QED BY <1>1, <1>2, <1>3, <1>4 DEF IInv

LEMMA StatusKinds ==
    ASSUME IInv, JobFrame, NEW k \in Keys, NEW s \in Statuses, status' = [status EXCEPT ![k] = s],
           \/ status[k] \in Serving /\ s \in Serving
           \/ status[k] \in Gone /\ s \in Gone
           \/ status[k] \in Serving /\ (pending[k[1]] = 0 => k[2] \notin Expected(k[1]))
    PROVE  /\ status' \in [Keys -> Statuses]
           /\ \A p \in Paths : pending[p] = 0 /\ Right(p) => Right(p)'
<1>1. status \in [Keys -> Statuses] /\ k[1] \in Paths /\ k[2] \in Ids /\ k = <<k[1], k[2]>>
    BY DEF IInv, Types, Keys
<1>2. status' \in [Keys -> Statuses]
    BY <1>1
<1>3. ASSUME NEW p \in Paths, pending[p] = 0, Right(p) PROVE Right(p)'
    <2>1. Expected(p)' = Expected(p)
        BY DEF JobFrame, Expected, Visible
    <2>2. ~(status[k] \in Serving /\ p = k[1] /\ (pending[k[1]] = 0 => k[2] \notin Expected(k[1])))
        BY <1>1, <1>3, Kinds DEF Right
    <2>3. ASSUME NEW g \in Ids
          PROVE  /\ status[<<p, g>>] \in Serving => status'[<<p, g>>] \in Serving
                 /\ status[<<p, g>>] \in Gone => status'[<<p, g>>] \in Gone
        <3>1. <<p, g>> \in Keys
            BY DEF Keys
        <3>2. CASE <<p, g>> # k
            BY <1>1, <3>1, <3>2
        <3>3. CASE <<p, g>> = k
            <4>1. p = k[1] /\ status'[<<p, g>>] = s
                BY <1>1, <3>1, <3>3
            <4> QED BY <2>2, <3>3, <4>1, Kinds
        <3> QED BY <3>2, <3>3
    <2> QED BY <1>3, <2>1, <2>3, RightKept
<1> QED BY <1>2, <1>3

LEMMA EndJobKeeps ==
    ASSUME IInv, NEW s \in Statuses, EndJob(s), work.key \in Keys,
           \/ status[work.key] \in Serving /\ s \in Serving
           \/ status[work.key] \in Gone /\ s \in Gone
           \/ status[work.key] \in Serving /\ (pending[work.key[1]] = 0 => work.key[2] \notin Expected(work.key[1]))
    PROVE  IInv'
<1>1. JobFrame /\ work' = IdleWork /\ status' = [status EXCEPT ![work.key] = s]
    BY DEF EndJob, JobFrame, sourceVars
<1>2. status' \in [Keys -> Statuses] /\ \A p \in Paths \ aged : pending[p] = 0 /\ tracked /\ Right(p) => Right(p)'
    BY <1>1, StatusKinds
<1>3. work' \in WorkType(Steps) /\ work'.at = "idle"
    BY <1>1, IdleFacts
<1>4. JobIsHeld' /\ StaleIsGone'
    BY <1>3 DEF JobIsHeld, StaleIsGone, LoadSteps
<1>5. work'.at \notin PageSteps \cup {"scanned", "mark"}
    BY <1>3 DEF PageSteps
<1> QED BY <1>1, <1>2, <1>3, <1>4, <1>5, JobStepKeeps

\* The step of a job that goes on: the status stays.
LEMMA GoOnKeeps ==
    ASSUME IInv, JobFrame, status' = status, work.at \in LoadSteps \cup {"delete"},
           work' \in WorkType(Steps), work'.key = work.key,
           \/ work.at \in LoadSteps /\ work'.at \in LoadSteps \ {"stale", "dropped"}
           \/ work.at \in LoadSteps /\ work'.at = "stale" /\ part[work.key[1]].id # work.key[2]
           \/ work.at = "stale" /\ work'.at = "dropped"
           \/ work.at = "delete" /\ work'.at = "deleted"
    PROVE  IInv'
<1>1. work.key \in Keys /\ work.key[1] \in Paths
    BY DEF IInv, JobIsHeld, Keys
<1>2. \A p \in Paths : Expected(p)' = Expected(p) /\ (Right(p) => Right(p)')
    BY DEF JobFrame, Expected, Visible, Right
<1>3. JobIsHeld'
    BY DEF IInv, JobIsHeld, LoadSteps
<1>4. StaleIsGone'
    <2>1. CASE work'.at \in LoadSteps \ {"stale", "dropped"}
        BY <2>1 DEF StaleIsGone, LoadSteps
    <2>2. CASE work'.at = "stale" /\ part[work.key[1]].id # work.key[2]
        BY <1>1, <1>2, <2>2 DEF StaleIsGone, Expected
    <2>3. CASE work.at = "stale" /\ work'.at = "dropped"
        BY <1>1, <1>2, <2>3 DEF IInv, StaleIsGone, JobFrame
    <2>4. CASE work.at = "delete" /\ work'.at = "deleted"
        BY <2>4 DEF StaleIsGone
    <2> QED BY <2>1, <2>2, <2>3, <2>4
<1>5. status' \in [Keys -> Statuses] /\ work'.at \notin PageSteps \cup {"scanned", "mark"}
    BY DEF IInv, Types, LoadSteps, PageSteps
<1> QED BY <1>2, <1>3, <1>4, <1>5, JobStepKeeps

LEMMA JobKeeps ==
    ASSUME IInv, Job
    PROVE  IInv'
<1>1. work \in WorkType(Steps) /\ JobIsHeld /\ StaleIsGone
    BY DEF IInv, Types
<1>2. ASSUME NEW a \in Steps, Step(a)
      PROVE  work' \in WorkType(Steps) /\ work'.at = a /\ work'.key = work.key
    BY <1>1, <1>2, WorkAt DEF Step
<1>3. InJob => JobFrame /\ status' = status
    BY DEF InJob, JobFrame, sourceVars, gateVars
<1>4. /\ "loading" \in Serving /\ "ready" \in Serving /\ "load_failed" \in Serving /\ "pending" \in Serving
      /\ "deleting" \in Gone /\ "retired" \in Gone /\ "delete_pending" \in Gone /\ "delete_failed" \in Gone
    BY DEF Serving, Gone, LoadStates, DeleteStates
<1>5. LoadSteps \subseteq Steps /\ "deleted" \in Steps /\ Serving \subseteq Statuses /\ Gone \subseteq Statuses
    BY Kinds DEF Steps
<1>6. work.at \in LoadSteps => work.key \in Keys /\ status[work.key] \in Serving
    BY <1>1, <1>4 DEF JobIsHeld
<1>7. work.at \in {"delete", "deleted"} => work.key \in Keys
    BY <1>1 DEF JobIsHeld
<1>8. CASE LoadRead
    <2>1. work.at \in LoadSteps
        BY <1>8 DEF LoadRead, LoadSteps
    <2>2. CASE part[work.key[1]].id # work.key[2] /\ Step("stale") /\ InJob
        BY <1>2, <1>3, <1>5, <2>1, <2>2, GoOnKeeps DEF LoadSteps
    <2>3. CASE EndJob("load_failed")
        BY <1>4, <1>5, <1>6, <2>1, <2>3, EndJobKeeps
    <2>4. CASE work' = [work EXCEPT !.at = "look", !.rev = part[work.key[1]].rev] /\ InJob
        <3>1. work.key[1] \in Paths
            BY <1>6, <2>1 DEF Keys
        <3>2. part[work.key[1]].rev \in Nat
            BY <3>1, PartFields DEF IInv, Types
        <3>3. "look" \in Steps
            BY DEF Steps, LoadSteps
        <3>4. work' \in WorkType(Steps) /\ work'.at = "look" /\ work'.key = work.key
            BY <1>1, <2>4, <3>2, <3>3 DEF WorkType
        <3> QED BY <1>3, <2>1, <2>4, <3>4, GoOnKeeps DEF LoadSteps
    <2> QED BY <1>8, <2>2, <2>3, <2>4 DEF LoadRead
<1>9. CASE Look
    <2>1. work.at \in LoadSteps
        BY <1>9 DEF Look, LoadSteps
    <2>2. CASE EndJob("ready")
        BY <1>4, <1>5, <1>6, <2>1, <2>2, EndJobKeeps
    <2>3. ASSUME NEW a \in {"stream", "replace"}, Step(a), InJob PROVE IInv'
        BY <1>2, <1>3, <1>5, <2>1, <2>3, GoOnKeeps DEF LoadSteps
    <2> QED BY <1>9, <2>2, <2>3 DEF Look
<1>10. CASE DeleteRows
    <2>1. InJob /\ work.at \in {"delete", "stale", "replace"}
        BY <1>10 DEF DeleteRows, Deletes
    <2>2. CASE work.at = "replace" /\ Step("replaced")
        BY <1>2, <1>3, <1>5, <2>1, <2>2, GoOnKeeps DEF LoadSteps
    <2>3. CASE work.at = "stale" /\ Step("dropped")
        BY <1>2, <1>3, <1>5, <2>1, <2>3, GoOnKeeps DEF LoadSteps
    <2>4. CASE work.at = "delete" /\ Step("deleted")
        BY <1>2, <1>3, <1>5, <2>1, <2>4, GoOnKeeps DEF LoadSteps
    <2> QED BY <1>10, <2>1, <2>2, <2>3, <2>4 DEF DeleteRows
<1>11. CASE CheckDeleted
    <2>1. CASE work.at = "deleted" /\ EndJob("retired")
        <3>1. work.key \in Keys /\ status[work.key] \in Gone
            BY <1>1, <1>4, <2>1 DEF JobIsHeld
        <3> QED BY <1>4, <1>5, <2>1, <3>1, EndJobKeeps
    <2>2. CASE work.at = "dropped" /\ EndJob("retired")
        <3>1. work.key \in Keys /\ status[work.key] \in Serving
            BY <1>6, <2>2 DEF LoadSteps
        <3> QED BY <1>1, <1>4, <1>5, <2>2, <3>1, EndJobKeeps DEF StaleIsGone
    <2>3. CASE work.at = "replaced" /\ Step("stream") /\ InJob
        BY <1>2, <1>3, <1>5, <2>3, GoOnKeeps DEF LoadSteps
    <2>4. CASE work.at \in {"deleted", "dropped", "replaced"} /\ EndJob(Released)
        <3>1. work.key \in Keys /\ status[work.key] \in {"loading", "deleting"}
            BY <1>1, <2>4 DEF JobIsHeld, LoadSteps
        <3>2. Released = IF status[work.key] = "deleting" THEN "delete_pending" ELSE "pending"
            BY <3>1 DEF Released, DeleteStates
        <3> QED BY <1>4, <1>5, <2>4, <3>1, <3>2, EndJobKeeps
    <2> QED BY <1>11, <2>1, <2>2, <2>3, <2>4 DEF CheckDeleted
<1>12. CASE Stream
    <2>1. work.at \in LoadSteps
        BY <1>12 DEF Stream, LoadSteps
    <2>2. CASE part[work.key[1]].id # work.key[2] /\ EndJob("retired")
        <3>1. work.key[2] \notin Expected(work.key[1])
            BY <2>2 DEF Expected
        <3> QED BY <1>4, <1>5, <1>6, <2>1, <2>2, <3>1, EndJobKeeps
    <2>3. CASE Step("insert") /\ InJob
        BY <1>2, <1>3, <1>5, <2>1, <2>3, GoOnKeeps DEF LoadSteps
    <2> QED BY <1>12, <2>2, <2>3 DEF Stream
<1>13. CASE Insert
    <2>1. work.at \in LoadSteps /\ Step("verify") /\ InJob
        BY <1>13 DEF Insert, LoadSteps
    <2> QED BY <1>2, <1>3, <1>5, <2>1, GoOnKeeps DEF LoadSteps
<1>14. CASE Verify
    <2>1. work.at \in LoadSteps /\ (EndJob("ready") \/ EndJob("load_failed"))
        BY <1>14 DEF Verify, LoadSteps
    <2> QED BY <1>4, <1>5, <1>6, <2>1, EndJobKeeps
<1>15. CASE JobFails
    <2>1. EndJob(Failed) \/ EndJob(Released)
        BY <1>15 DEF JobFails
    <2>2. work.key \in Keys /\ status[work.key] \in {"loading", "deleting"}
        BY <1>1, <1>15 DEF JobFails, JobIsHeld, LoadSteps, Deletes
    <2>3. /\ Released = IF status[work.key] = "deleting" THEN "delete_pending" ELSE "pending"
          /\ Failed = IF status[work.key] = "deleting" THEN "delete_failed" ELSE "load_failed"
        BY <2>2 DEF Released, Failed, DeleteStates
    <2> QED BY <1>4, <1>5, <2>1, <2>2, <2>3, EndJobKeeps
<1> QED BY <1>8, <1>9, <1>10, <1>11, <1>12, <1>13, <1>14, <1>15 DEF Job

-----------------------------------------------------------------------------
(***************************************************************************)
(* Reconcile: first the change queue.                                       *)
(***************************************************************************)
LEMMA ReadPageKeeps ==
    ASSUME IInv, ReadPage
    PROVE  IInv'
<1> DEFINE row(p) == [version |-> pending[p], visible |-> Visible(p), id |-> part[p].id, archived |-> part[p].archived]
           queued == {q \in Paths : pending[q] > 0}
           page == [p \in queued |-> row(p)]
<1>1. work' = [IdleWork EXCEPT !.at = "page", !.tracked = tracked, !.page = page]
      /\ JobFrame /\ status' = status
    BY DEF ReadPage, JobFrame, sourceVars, gateVars
<1>2. ASSUME NEW p \in queued PROVE row(p) \in QueueRow /\ pending[p] \in 1..pending[p]
    <2>1. Visible(p) \in BOOLEAN
        BY DEF IInv, Types, Visible
    <2>2. part[p].id \in Ids \cup {0} /\ part[p].archived \in BOOLEAN
        BY PartFields DEF IInv, Types
    <2> QED BY <2>1, <2>2 DEF IInv, Types, Versions, QueueRow
<1>3. page \in [queued -> QueueRow] /\ queued \in SUBSET Paths
    BY <1>2
<1>4. page \in AllPages
    BY <1>3 DEF AllPages
<1>5. work' \in WorkType(Steps) /\ work'.at = "page" /\ work'.page = page
    <2> HIDE DEF page
    <2> QED BY <1>1, <1>4, IdleFacts DEF IdleWork, WorkType, Steps, PageSteps, IInv, Types
<1>6. Types'
    BY <1>1, <1>5 DEF IInv, Types, JobFrame
<1>7. Versions'
    BY <1>1, <1>2, <1>5 DEF IInv, Versions, JobFrame, Pages
<1>8. \A p \in Paths : (Visible(p)' <=> Visible(p)) /\ (Right(p)' <=> Right(p))
    BY <1>1 DEF JobFrame, Visible, Right, Expected
<1>9. PageIsFresh'
    <2> SUFFICES ASSUME NEW p \in queued
                 PROVE  /\ page[p].visible <=> Visible(p)'
                        /\ page[p].id = part'[p].id /\ (page[p].archived <=> part'[p].archived)
        BY <1>5 DEF PageIsFresh, Pages
    <2> QED BY <1>1, <1>8 DEF JobFrame
<1>10. PageIsHanded' /\ ScanIsFresh' /\ JobIsHeld' /\ StaleIsGone'
    BY <1>5 DEF PageIsHanded, ScanIsFresh, JobIsHeld, StaleIsGone, LoadSteps
<1>11. QueueIsRight'
    BY <1>1, <1>5, <1>8 DEF IInv, QueueIsRight, JobFrame
<1> QED BY <1>6, <1>7, <1>9, <1>10, <1>11 DEF IInv

\* A step within a page, or its end: the worker's next step is not a job's.
LEMMA PageStepKeeps ==
    ASSUME IInv, JobFrame, work.at \in PageSteps, status' \in [Keys -> Statuses],
           NEW a \in {"missing", "ack"}, Step(a),
           \A p \in Paths : pending[p] = 0 /\ Right(p) => Right(p)',
           a = "missing" => \A p \in Eligible : pending[p] = work.page[p].version => Right(p)',
           a = "ack" => \A p \in Eligible \cup Removed : pending[p] = work.page[p].version => Right(p)'
    PROVE  IInv'
<1>0. a \in Steps /\ work \in WorkType(Steps) /\ work' = [work EXCEPT !.at = a]
    BY DEF IInv, Types, Step, Steps, PageSteps
<1>1. work' \in WorkType(Steps) /\ work'.at = a /\ work'.page = work.page
    BY <1>0, WorkAt
<1>2. Pages' = Pages /\ Eligible' = Eligible /\ Removed' = Removed /\ Pages \subseteq Paths
    BY <1>1, WorkFields, PagesAreFunctions DEF IInv, Types, Pages, Eligible, Removed
<1>3. \A p \in Paths : Visible(p)' <=> Visible(p)
    BY DEF JobFrame, Visible
<1>4. Types' /\ Versions'
    BY <1>1, <1>2 DEF IInv, Types, Versions, JobFrame, PageSteps
<1>5. PageIsFresh'
    BY <1>1, <1>2, <1>3 DEF IInv, PageIsFresh, JobFrame, PageSteps
<1>6. PageIsHanded'
    BY <1>1, <1>2 DEF PageIsHanded, JobFrame
<1>7. ScanIsFresh' /\ JobIsHeld' /\ StaleIsGone'
    BY <1>1 DEF ScanIsFresh, JobIsHeld, StaleIsGone, LoadSteps
<1>8. QueueIsRight'
    BY <1>1, <1>3 DEF IInv, QueueIsRight, JobFrame, PageSteps
<1> QED BY <1>4, <1>5, <1>6, <1>7, <1>8 DEF IInv

\* What reconcile does with the paths it is given.
LEMMA ReconciledFacts ==
    ASSUME status \in [Keys -> Statuses], NEW ids, DOMAIN ids \subseteq Paths
    PROVE  /\ Reconciled(ids) \in [Keys -> Statuses]
           /\ \A p \in DOMAIN ids : \A g \in Ids :
                Reconciled(ids)[<<p, g>>] \in IF g = ids[p] THEN Serving ELSE Gone
           /\ \A p \in Paths \ DOMAIN ids : \A g \in Ids : Reconciled(ids)[<<p, g>>] = status[<<p, g>>]
<1>1. \A k \in Keys : status[k] \in Statuses /\ Wanted(status[k]) \in Serving /\ Doomed(status[k]) \in Gone
    BY Kinds
<1>2. \A p \in Paths : \A g \in Ids : <<p, g>> \in Keys
    BY DEF Keys
<1>3. Reconciled(ids) \in [Keys -> Statuses]
    BY <1>1, Kinds DEF Reconciled
<1>4. ASSUME NEW p \in DOMAIN ids, NEW g \in Ids
      PROVE  Reconciled(ids)[<<p, g>>] \in IF g = ids[p] THEN Serving ELSE Gone
    BY <1>1, <1>2 DEF Reconciled
<1>5. ASSUME NEW p \in Paths \ DOMAIN ids, NEW g \in Ids
      PROVE  Reconciled(ids)[<<p, g>>] = status[<<p, g>>]
    BY <1>2 DEF Reconciled
<1> QED BY <1>3, <1>4, <1>5

\* ... makes them right where it is given what the catalog shows.
LEMMA ReconciledRight ==
    ASSUME IInv, JobFrame, NEW ids, DOMAIN ids \subseteq Paths, status' = Reconciled(ids)
    PROVE  /\ status' \in [Keys -> Statuses]
           /\ \A p \in DOMAIN ids : Visible(p) /\ ids[p] = part[p].id => Right(p)'
           /\ \A p \in Paths \ DOMAIN ids : Right(p) => Right(p)'
<1>1. \A p \in Paths : Expected(p)' = Expected(p)
    BY DEF JobFrame, Expected, Visible
<1>2. status \in [Keys -> Statuses]
    BY DEF IInv, Types
<1>3. ASSUME NEW p \in DOMAIN ids, Visible(p), ids[p] = part[p].id PROVE Right(p)'
    <2>1. \A g \in Ids : g \in Expected(p)' <=> g = ids[p]
        BY <1>1, <1>3 DEF Expected
    <2>2. \A g \in Ids : status'[<<p, g>>] \in IF g = ids[p] THEN Serving ELSE Gone
        BY <1>2, ReconciledFacts
    <2> QED BY <2>1, <2>2 DEF Right
<1>4. ASSUME NEW p \in Paths \ DOMAIN ids, Right(p) PROVE Right(p)'
    <2>1. \A g \in Ids : status'[<<p, g>>] = status[<<p, g>>]
        BY <1>2, ReconciledFacts
    <2> QED BY <1>1, <1>4, <2>1, RightKept
<1> QED BY <1>2, <1>3, <1>4, ReconciledFacts

LEMMA CommitPageKeeps ==
    ASSUME IInv, CommitPage
    PROVE  IInv'
<1> DEFINE ids == [p \in Eligible |-> work.page[p].id]
<1>1. work.at = "page" /\ JobFrame /\ Step("missing") /\ status' = Reconciled(ids)
    BY DEF CommitPage, JobFrame, sourceVars
<1>2. Eligible \subseteq Paths /\ Eligible \subseteq Pages /\ DOMAIN ids = Eligible
    BY WorkFields, PagesAreFunctions DEF IInv, Types, Pages, Eligible
<1>3. /\ status' \in [Keys -> Statuses]
      /\ \A p \in DOMAIN ids : Visible(p) /\ ids[p] = part[p].id => Right(p)'
      /\ \A p \in Paths \ DOMAIN ids : Right(p) => Right(p)'
    <2> HIDE DEF ids
    <2> QED BY <1>1, <1>2, ReconciledRight
<1>4. ASSUME NEW p \in Eligible, pending[p] = work.page[p].version PROVE Right(p)'
    <2>1. Visible(p) /\ work.page[p].id = part[p].id
        BY <1>1, <1>2, <1>4 DEF IInv, PageIsFresh, Eligible, PageSteps
    <2> QED BY <1>2, <1>3, <2>1
<1>5. ASSUME NEW p \in Paths, pending[p] = 0, Right(p) PROVE Right(p)'
    <2>1. p \notin Pages
        BY <1>1, <1>5 DEF IInv, Versions, PageSteps
    <2> QED BY <1>2, <1>3, <1>5, <2>1
<1> QED BY <1>1, <1>3, <1>4, <1>5, PageStepKeeps DEF PageSteps

LEMMA QueueMissingKeeps ==
    ASSUME IInv, QueueMissing
    PROVE  IInv'
<1>1. /\ work.at = "missing" /\ JobFrame /\ Step("ack")
      /\ status' = [k \in Keys |-> IF k[1] \in Removed THEN Doomed(status[k]) ELSE status[k]]
    BY DEF QueueMissing, JobFrame, sourceVars
<1>2. Removed \subseteq Paths /\ Removed \subseteq Pages /\ Eligible \subseteq Paths /\ Eligible \subseteq Pages
    BY WorkFields, PagesAreFunctions DEF IInv, Types, Pages, Eligible, Removed
<1>3. \A k \in Keys : status[k] \in Statuses /\ Doomed(status[k]) \in Gone
    BY Kinds DEF IInv, Types
<1>4. status' \in [Keys -> Statuses]
    BY <1>1, <1>3, Kinds
<1>5. \A p \in Paths : Expected(p)' = Expected(p)
    BY <1>1 DEF JobFrame, Expected, Visible
<1>6. \A p \in Paths : \A g \in Ids : <<p, g>> \in Keys
    BY DEF Keys
<1>7. ASSUME NEW p \in Paths \ Removed, Right(p) PROVE Right(p)'
    <2>1. \A g \in Ids : status'[<<p, g>>] = status[<<p, g>>]
        BY <1>1, <1>6
    <2> QED BY <1>5, <1>7, <2>1, RightKept
<1>8. ASSUME NEW p \in Removed, pending[p] = work.page[p].version PROVE Right(p)'
    <2>1. ~Visible(p)
        BY <1>1, <1>2, <1>8 DEF IInv, PageIsFresh, Removed, PageSteps
    <2>2. Expected(p)' = {}
        BY <1>2, <1>5, <2>1 DEF Expected
    <2>3. \A g \in Ids : status'[<<p, g>>] \in Gone
        BY <1>1, <1>2, <1>3, <1>6
    <2> QED BY <2>2, <2>3 DEF Right
<1>9. ASSUME NEW p \in Eligible, pending[p] = work.page[p].version PROVE Right(p)'
    <2>1. p \notin Removed /\ Right(p)
        BY <1>1, <1>9 DEF IInv, PageIsHanded, Eligible, Removed
    <2> QED BY <1>2, <1>7, <2>1
<1>10. ASSUME NEW p \in Paths, pending[p] = 0, Right(p) PROVE Right(p)'
    <2>1. p \notin Pages
        BY <1>1, <1>10 DEF IInv, Versions, PageSteps
    <2> QED BY <1>2, <1>7, <1>10, <2>1
<1> QED BY <1>1, <1>4, <1>8, <1>9, <1>10, PageStepKeeps DEF PageSteps

\* Only what has not changed since it was read is taken out of the queue.
LEMMA AckKeeps ==
    ASSUME IInv, Ack
    PROVE  IInv'
<1>1. /\ work.at = "ack" /\ Step("scan") /\ UNCHANGED <<part, shown, stamp, tracked, status, aged>>
      /\ pending' = [p \in Paths |-> IF p \in Eligible \cup Removed /\ pending[p] = work.page[p].version THEN 0
                                     ELSE pending[p]]
    BY DEF Ack, sourceVars, gateVars
<1>0. "scan" \in Steps /\ work \in WorkType(Steps) /\ work' = [work EXCEPT !.at = "scan"]
    BY <1>1 DEF IInv, Types, Step, Steps
<1>2. work' \in WorkType(Steps) /\ work'.at = "scan"
    BY <1>0, WorkAt
<1>3. Types'
    BY <1>1, <1>2 DEF IInv, Types
<1>4. Versions'
    BY <1>1, <1>2 DEF IInv, Versions, Types, PageSteps
<1>5. PageIsFresh' /\ PageIsHanded' /\ ScanIsFresh' /\ JobIsHeld' /\ StaleIsGone'
    BY <1>2 DEF PageIsFresh, PageIsHanded, ScanIsFresh, JobIsHeld, StaleIsGone, LoadSteps, PageSteps
<1>6. QueueIsRight'
    <2> SUFFICES ASSUME tracked, NEW p \in Paths \ aged, pending'[p] = 0
                 PROVE  Right(p)' /\ (Visible(p)' => part'[p].archived)
        BY <1>1, <1>2 DEF QueueIsRight
    <2>1. (Visible(p)' <=> Visible(p)) /\ (Right(p)' <=> Right(p))
        BY <1>1 DEF Visible, Right, Expected
    <2>2. CASE pending[p] = 0
        BY <1>1, <2>1, <2>2 DEF IInv, QueueIsRight
    <2>3. CASE p \in Eligible \cup Removed /\ pending[p] = work.page[p].version
        <3>1. Right(p)
            BY <1>1, <2>3 DEF IInv, PageIsHanded
        <3>2. p \in Pages
            BY <2>3 DEF Eligible, Removed
        <3>3. Visible(p) => part[p].archived
            BY <1>1, <2>3, <3>2 DEF IInv, PageIsFresh, PageSteps, Eligible, Removed
        <3> QED BY <1>1, <2>1, <3>1, <3>3
    <2> QED BY <1>1, <2>2, <2>3
<1> QED BY <1>3, <1>4, <1>5, <1>6 DEF IInv

-----------------------------------------------------------------------------
(***************************************************************************)
(* ... then the catalog.                                                    *)
(***************************************************************************)
LEMMA ScanReadKeeps ==
    ASSUME IInv, NEW full \in BOOLEAN, NEW scope \in SUBSET (Paths \ aged), ScanRead(full, scope)
    PROVE  IInv'
<1> DEFINE seen == {p \in scope : Visible(p)}
           eligible == {q \in seen : part[q].archived}
           page == [p \in eligible |-> [id |-> part[p].id]]
           complete == \A p \in seen : part[p].archived
<1>1. /\ work' = [work EXCEPT !.at = "scanned", !.full = full, !.all = complete, !.page = page]
      /\ full => scope = Paths \ aged
      /\ JobFrame /\ status' = status
    BY DEF ScanRead, JobFrame, sourceVars, gateVars
<1>2. ASSUME NEW p \in eligible PROVE [id |-> part[p].id] \in [id : Ids]
    <2>1. part[p] \in Parts /\ part[p] # NoPart
        BY DEF IInv, Types, Visible
    <2> QED BY <2>1, PartFields
<1>3. page \in [eligible -> [id : Ids]] /\ eligible \in SUBSET Paths
    BY <1>2
<1>4. page \in AllPages /\ DOMAIN page = eligible
    BY <1>3 DEF AllPages
<1>5. /\ work' \in WorkType(Steps) /\ work'.at = "scanned" /\ work'.page = page
      /\ work'.full = full /\ (work'.all <=> complete)
    <2>1. complete \in BOOLEAN /\ work \in WorkType(Steps) /\ "scanned" \in Steps
        BY DEF IInv, Types, Steps
    <2> HIDE DEF page, complete
    <2> QED BY <1>1, <1>4, <2>1 DEF WorkType
<1>6. Types' /\ Versions'
    BY <1>1, <1>5 DEF IInv, Types, Versions, JobFrame, PageSteps
<1>7. \A p \in Paths : (Visible(p)' <=> Visible(p)) /\ (Right(p)' <=> Right(p))
    BY <1>1 DEF JobFrame, Visible, Right, Expected
<1>8. PageIsFresh' /\ PageIsHanded' /\ JobIsHeld' /\ StaleIsGone'
    BY <1>5 DEF PageIsFresh, PageIsHanded, JobIsHeld, StaleIsGone, LoadSteps, PageSteps
<1>9. ScanIsFresh'
    <2> SUFFICES ASSUME NEW p \in Paths
                 PROVE  /\ p \in eligible => Visible(p) /\ part[p].archived /\ page[p].id = part[p].id
                        /\ full /\ p \notin aged /\ Visible(p) /\ (complete \/ part[p].archived) => p \in eligible
        <3>1. Pages' = eligible
            BY <1>4, <1>5 DEF Pages
        <3> HIDE DEF eligible, page, complete
        <3> QED BY <1>1, <1>5, <1>7, <3>1 DEF ScanIsFresh, JobFrame
    <2> QED BY <1>1
<1>10. QueueIsRight'
    BY <1>1, <1>5, <1>7 DEF IInv, QueueIsRight, JobFrame
<1> QED BY <1>6, <1>8, <1>9, <1>10 DEF IInv

LEMMA ScanCommitKeeps ==
    ASSUME IInv, ScanCommit
    PROVE  IInv'
<1> DEFINE ids == [p \in Pages |-> work.page[p].id]
           st == Reconciled(ids)
<1>1. /\ work.at = "scanned" /\ JobFrame
      /\ status' = IF work.full THEN Swept(st) ELSE st
      /\ work' = IF work.full /\ work.all THEN [work EXCEPT !.at = "mark"] ELSE IdleWork
    BY DEF ScanCommit, JobFrame, sourceVars
<1>2. Pages \subseteq Paths /\ DOMAIN ids = Pages /\ status \in [Keys -> Statuses] /\ work \in WorkType(Steps)
    BY WorkFields, PagesAreFunctions DEF IInv, Types, Pages
<1>3. /\ st \in [Keys -> Statuses]
      /\ \A p \in Pages : \A g \in Ids : st[<<p, g>>] \in IF g = ids[p] THEN Serving ELSE Gone
      /\ \A p \in Paths \ Pages : \A g \in Ids : st[<<p, g>>] = status[<<p, g>>]
    <2> HIDE DEF ids
    <2> QED BY <1>2, ReconciledFacts
<1>4. \A p \in Paths : \A g \in Ids : <<p, g>> \in Keys
    BY DEF Keys
<1>5. /\ Swept(st) \in [Keys -> Statuses]
      /\ \A p \in Pages : \A g \in Ids : Swept(st)[<<p, g>>] = st[<<p, g>>]
      /\ \A p \in Paths \ (Pages \cup aged) : \A g \in Ids : Swept(st)[<<p, g>>] \in Gone
    <2> HIDE DEF st
    <2>1. \A k \in Keys : st[k] \in Statuses /\ Doomed(st[k]) \in Gone /\ "retired" \in Gone /\ "absent" \in Gone
        BY <1>3, Kinds DEF Gone
    <2>2. Swept(st) \in [Keys -> Statuses]
        <3>1. Gone \subseteq Statuses
            BY Kinds
        <3> QED BY <2>1, <3>1 DEF Swept
    <2>3. ASSUME NEW p \in Pages, NEW g \in Ids PROVE Swept(st)[<<p, g>>] = st[<<p, g>>]
        BY <1>2, <1>4, <2>3 DEF Swept
    <2>4. ASSUME NEW p \in Paths \ (Pages \cup aged), NEW g \in Ids PROVE Swept(st)[<<p, g>>] \in Gone
        BY <1>4, <2>1, <2>4 DEF Swept
    <2> QED BY <2>2, <2>3, <2>4
<1>6. status' \in [Keys -> Statuses]
    BY <1>1, <1>3, <1>5
<1>7. \A p \in Paths : Expected(p)' = Expected(p) /\ (Visible(p)' <=> Visible(p))
    BY <1>1 DEF JobFrame, Expected, Visible
<1>8. /\ work' \in WorkType(Steps) /\ work'.at \in {"mark", "idle"}
      /\ work'.at = "mark" => work.full /\ work.all
    <2>1. "mark" \in Steps
        BY DEF Steps
    <2> QED BY <1>1, <1>2, <2>1, WorkAt, IdleFacts
<1>9. Types' /\ Versions'
    BY <1>1, <1>6, <1>8 DEF IInv, Types, Versions, JobFrame, PageSteps
<1>10. PageIsFresh' /\ PageIsHanded' /\ ScanIsFresh' /\ JobIsHeld' /\ StaleIsGone'
    BY <1>8 DEF PageIsFresh, PageIsHanded, ScanIsFresh, JobIsHeld, StaleIsGone, LoadSteps, PageSteps
<1>11. QueueIsRight'
    <2> SUFFICES ASSUME tracked \/ (work.full /\ work.all), NEW p \in Paths \ aged, pending[p] = 0
                 PROVE  Right(p)' /\ (Visible(p) => part[p].archived)
        BY <1>1, <1>7, <1>8 DEF QueueIsRight, JobFrame
    <2>1. /\ p \in Pages => Visible(p) /\ part[p].archived /\ work.page[p].id = part[p].id
          /\ work.full /\ Visible(p) /\ (work.all \/ part[p].archived) => p \in Pages
        BY <1>1 DEF IInv, ScanIsFresh
    <2>2. tracked => Right(p) /\ (Visible(p) => part[p].archived)
        BY DEF IInv, QueueIsRight
    <2>3. Visible(p) => part[p].archived
        BY <2>1, <2>2
    <2>4. CASE p \in Pages
        <3>1. \A g \in Ids : status'[<<p, g>>] \in IF g = part[p].id THEN Serving ELSE Gone
            BY <1>1, <1>3, <1>5, <2>1, <2>4
        <3>2. \A g \in Ids : g \in Expected(p)' <=> g = part[p].id
            BY <1>7, <2>1, <2>4 DEF Expected
        <3> QED BY <2>3, <3>1, <3>2 DEF Right
    <2>5. CASE p \notin Pages /\ work.full
        <3>1. ~Visible(p)
            BY <2>1, <2>3, <2>5
        <3>2. Expected(p)' = {}
            BY <1>7, <3>1 DEF Expected
        <3>3. \A g \in Ids : status'[<<p, g>>] \in Gone
            BY <1>1, <1>5, <2>5
        <3> QED BY <2>3, <3>2, <3>3 DEF Right
    <2>6. CASE p \notin Pages /\ ~work.full
        <3>1. \A g \in Ids : status'[<<p, g>>] = status[<<p, g>>]
            BY <1>1, <1>3, <2>6
        <3> QED BY <1>7, <2>2, <2>3, <2>6, <3>1, RightKept
    <2> QED BY <2>4, <2>5, <2>6
<1> QED BY <1>9, <1>10, <1>11 DEF IInv

\* The other steps of the worker: its state is nobody's afterwards.
LEMMA IdleKeeps ==
    ASSUME IInv, UNCHANGED <<part, shown, pending, stamp, aged>>, work' = IdleWork,
           status' \in [Keys -> Statuses], \A p \in Paths : Right(p) => Right(p)',
           tracked' \in BOOLEAN, tracked' => tracked \/ work.at = "mark"
    PROVE  IInv'
<1>1. work' \in WorkType(Steps) /\ work'.at = "idle"
    BY IdleFacts
<1>2. Types' /\ Versions'
    BY <1>1 DEF IInv, Types, Versions, PageSteps
<1>3. PageIsFresh' /\ PageIsHanded' /\ ScanIsFresh' /\ JobIsHeld' /\ StaleIsGone'
    BY <1>1 DEF PageIsFresh, PageIsHanded, ScanIsFresh, JobIsHeld, StaleIsGone, LoadSteps, PageSteps
<1>4. \A p \in Paths : Visible(p)' <=> Visible(p)
    BY DEF Visible
<1>5. QueueIsRight'
    BY <1>1, <1>4 DEF IInv, QueueIsRight
<1> QED BY <1>2, <1>3, <1>5 DEF IInv

LEMMA MarkTrackedKeeps ==
    ASSUME IInv, MarkTracked
    PROVE  IInv'
<1>1. /\ work.at = "mark" /\ UNCHANGED <<part, shown, pending, stamp, aged, status>>
      /\ work' = IdleWork /\ tracked' = TRUE
    BY DEF MarkTracked, sourceVars, gateVars
<1>2. \A p \in Paths : Right(p) => Right(p)'
    BY <1>1 DEF Right, Expected, Visible
<1> QED BY <1>1, <1>2, IdleKeeps DEF IInv, Types

LEMMA ReconcileFailsKeeps ==
    ASSUME IInv, ReconcileFails
    PROVE  IInv'
<1>1. UNCHANGED <<part, shown, pending, stamp, aged, status, tracked>> /\ work' = IdleWork
    BY DEF ReconcileFails, sourceVars
<1>2. \A p \in Paths : Right(p) => Right(p)'
    BY <1>1 DEF Right, Expected, Visible
<1> QED BY <1>1, <1>2, IdleKeeps DEF IInv, Types

LEMMA CrashKeeps ==
    ASSUME IInv, Crash
    PROVE  IInv'
<1>1. /\ UNCHANGED <<part, shown, pending, stamp, aged, tracked>> /\ work' = IdleWork
      /\ status' = [k \in Keys |-> Recovered(status[k])]
    BY DEF Crash, sourceVars
<1>2. \A s \in Statuses : /\ Recovered(s) \in Statuses
                          /\ s \in Serving => Recovered(s) \in Serving
                          /\ s \in Gone => Recovered(s) \in Gone
    BY DEF Statuses, Recovered, Serving, Gone, Unready, LoadStates, DeleteStates
<1>3. \A k \in Keys : status[k] \in Statuses
    BY DEF IInv, Types
<1>4. status' \in [Keys -> Statuses]
    BY <1>1, <1>2, <1>3
<1>5. ASSUME NEW p \in Paths, Right(p) PROVE Right(p)'
    <2>1. Expected(p)' = Expected(p)
        BY <1>1 DEF Expected, Visible
    <2>2. ASSUME NEW g \in Ids
          PROVE  /\ status[<<p, g>>] \in Serving => status'[<<p, g>>] \in Serving
                 /\ status[<<p, g>>] \in Gone => status'[<<p, g>>] \in Gone
        <3>1. <<p, g>> \in Keys
            BY DEF Keys
        <3> QED BY <1>1, <1>2, <1>3, <3>1
    <2> QED BY <1>5, <2>1, <2>2, RightKept
<1> QED BY <1>1, <1>4, <1>5, IdleKeeps DEF IInv, Types

\* A claim makes a waiting state a running one of the same kind.
LEMMA ClaimKeeps ==
    ASSUME IInv, NEW k \in Keys, Claim(k)
    PROVE  IInv'
<1> DEFINE s == IF status[k] \in LoadStates THEN "loading" ELSE "deleting"
           a == IF status[k] \in LoadStates THEN "load" ELSE "delete"
<1>1. /\ status' = [status EXCEPT ![k] = s] /\ work' = [IdleWork EXCEPT !.at = a, !.key = k] /\ JobFrame
      /\ status[k] \in {"pending", "load_failed", "delete_pending", "delete_failed"}
    BY DEF Claim, Claimable, JobFrame, sourceVars
<1>2. /\ s \in Statuses
      /\ (status[k] \in Serving /\ s \in Serving) \/ (status[k] \in Gone /\ s \in Gone)
    <2>1. CASE status[k] \in {"pending", "load_failed"}
        BY <2>1 DEF Statuses, Serving, Unready, LoadStates
    <2>2. CASE status[k] \in {"delete_pending", "delete_failed"}
        BY <2>2 DEF Statuses, Gone, Unready, LoadStates, DeleteStates
    <2> QED BY <1>1, <2>1, <2>2
<1>3. /\ status' \in [Keys -> Statuses]
      /\ \A p \in Paths \ aged : pending[p] = 0 /\ tracked /\ Right(p) => Right(p)'
    <2> HIDE DEF s
    <2> QED BY <1>1, <1>2, StatusKinds
<1>4. work' \in WorkType(Steps) /\ work'.at = a /\ work'.key = k
    <2>1. a \in Steps
        BY DEF Steps, LoadSteps
    <2> HIDE DEF a
    <2> QED BY <1>1, <2>1, IdleFacts DEF IdleWork, WorkType
<1>5. status'[k] = s
    BY <1>1, <1>3 DEF IInv, Types
<1>6. JobIsHeld' /\ StaleIsGone'
    BY <1>4, <1>5 DEF JobIsHeld, StaleIsGone, LoadSteps
<1>7. work'.at \notin PageSteps \cup {"scanned", "mark"}
    BY <1>4 DEF PageSteps
<1> QED BY <1>1, <1>3, <1>4, <1>6, <1>7, JobStepKeeps

-----------------------------------------------------------------------------
LEMMA NextInv == IInv /\ [Next]_vars => IInv'
<1> SUFFICES ASSUME IInv, [Next]_vars PROVE IInv'
    OBVIOUS
<1> DEFINE Quiet == UNCHANGED <<part, shown, pending, stamp, tracked, status, work, aged>>
<1>1. aged \subseteq Paths
    BY DEF IInv, Types
<1>2. CASE Source
    BY <1>2, SourceKeeps
<1>3. CASE ReadPage
    BY <1>3, ReadPageKeeps
<1>4. CASE Reconcile
    BY <1>4, CommitPageKeeps, QueueMissingKeeps, AckKeeps, ScanReadKeeps, ScanCommitKeeps, MarkTrackedKeeps,
       ReconcileFailsKeeps DEF Reconcile
<1>5. CASE Job
    BY <1>5, JobKeeps
<1>6. CASE Crash
    BY <1>6, CrashKeeps
<1>7. CASE AskSource \/ AskManifest \/ Answer
    <2>1. Quiet
        BY <1>7 DEF AskSource, AskManifest, Answer, sourceVars, gateVars
    <2> QED BY <1>1, <2>1, OthersKeep
<1>8. ASSUME NEW k \in Keys, Claim(k) PROVE IInv'
    BY <1>8, ClaimKeeps
<1>9. ASSUME NEW t \in Sorts, NEW k \in Keys, Mutate(t, k) PROVE IInv'
    <2>1. Quiet
        BY <1>9 DEF Mutate, sourceVars, gateVars
    <2> QED BY <1>1, <2>1, OthersKeep
<1>10. ASSUME NEW p \in Paths, Age(p) PROVE IInv'
    <2>1. UNCHANGED <<part, shown, pending, stamp, tracked, status, work>> /\ aged' = aged \cup {p}
        BY <1>10 DEF Age, sourceVars, gateVars
    <2> QED BY <1>1, <2>1, OthersKeep
<1>11. CASE UNCHANGED vars
    <2>1. Quiet
        BY <1>11 DEF vars
    <2> QED BY <1>1, <2>1, OthersKeep
<1> QED BY <1>2, <1>3, <1>4, <1>5, <1>6, <1>7, <1>8, <1>9, <1>10, <1>11 DEF Next

LEMMA InvHolds == Spec => []IInv
<1>1. Init => IInv
    BY InitInv
<1>2. IInv /\ [Next]_vars => IInv'
    BY NextInv
<1> QED BY <1>1, <1>2, PTL DEF Spec

\* Where the change queue has no entry for a part, the manifest serves or loads the
\* identity the catalog shows and no other ("a user query can never observe a clean
\* source gate before the manifest has the corresponding load/delete state",
\* reconcile_pending_source_changes).
THEOREM QueueIsHandedOver == Spec => []HandedOver
<1>1. IInv => HandedOver
    BY DEF IInv, QueueIsRight, HandedOver, Right, Serving, Gone
<1> QED BY <1>1, InvHolds, PTL

-----------------------------------------------------------------------------
(***************************************************************************)
(* The tables of ClickHouse, the verdicts of the gates and the query.       *)
(***************************************************************************)
Amounts == [rev : Nat, whole : BOOLEAN]
RowTables == [Sorts -> [Keys -> Amounts]]
Mutations == [Sorts -> [Keys -> {"none", "running", "spent"}]]
Queries == [at : {"idle", "asked", "open"}, touched : SUBSET Paths]

Tables ==
    /\ scanned \in BOOLEAN /\ failed \in BOOLEAN
    /\ rows \in RowTables /\ mutation \in Mutations
    /\ query \in Queries

\* What a delete of the job leaves of the key of the job and of any other.
LEMMA DeleteFacts ==
    ASSUME Tables, NEW ts \in SUBSET Sorts, NEW late, Delete(ts, late), work.key \in Keys
    PROVE  /\ rows' \in RowTables /\ mutation' \in Mutations
           /\ \A t \in Sorts : \A k \in Keys :
                /\ \/ rows'[t][k] = rows[t][k]
                   \/ rows'[t][k] = NoRows /\ mutation[t][k] = "none" /\ k = work.key
                /\ mutation'[t][k] = "running" =>
                     \/ mutation[t][k] = "running"
                     \/ k = work.key /\ rows[t][k] # NoRows /\ rows'[t][k] = rows[t][k]
<1> DEFINE key == work.key
           gone == Deletable(ts) \ late
<1>0. /\ rows \in [Sorts -> [Keys -> Amounts]] /\ mutation \in [Sorts -> [Keys -> {"none", "running", "spent"}]]
      /\ NoRows \in Amounts /\ key \in Keys
    BY DEF Tables, RowTables, Mutations, NoRows, Amounts
<1>1. /\ rows' = [t \in Sorts |-> IF t \in gone THEN [rows[t] EXCEPT ![key] = NoRows] ELSE rows[t]]
      /\ mutation' = [t \in Sorts |-> IF t \in late THEN [mutation[t] EXCEPT ![key] = "running"] ELSE mutation[t]]
      /\ \A t \in gone : mutation[t][key] = "none"
      /\ \A t \in late : rows[t][key] # NoRows /\ t \notin gone
    BY DEF Delete, Deletable
<1> HIDE DEF gone, key
<1>2. rows' \in [Sorts -> [Keys -> Amounts]]
    <2>1. \A t \in Sorts : rows[t] \in [Keys -> Amounts] /\ [rows[t] EXCEPT ![key] = NoRows] \in [Keys -> Amounts]
        BY <1>0
    <2> QED BY <1>1, <2>1
<1>3. mutation' \in [Sorts -> [Keys -> {"none", "running", "spent"}]]
    <2>1. \A t \in Sorts : mutation[t] \in [Keys -> {"none", "running", "spent"}]
        BY <1>0
    <2>2. \A t \in Sorts : [mutation[t] EXCEPT ![key] = "running"] \in [Keys -> {"none", "running", "spent"}]
        BY <2>1
    <2> QED BY <1>1, <2>1, <2>2
<1>4. ASSUME NEW t \in Sorts, NEW k \in Keys
      PROVE  /\ rows'[t][k] = IF t \in gone /\ k = key THEN NoRows ELSE rows[t][k]
             /\ mutation'[t][k] = IF t \in late /\ k = key THEN "running" ELSE mutation[t][k]
    <2>1. rows[t] \in [Keys -> Amounts] /\ mutation[t] \in [Keys -> {"none", "running", "spent"}]
        BY <1>0
    <2> QED BY <1>0, <1>1, <2>1
<1>5. ASSUME NEW t \in Sorts, NEW k \in Keys
      PROVE  /\ \/ rows'[t][k] = rows[t][k]
                \/ rows'[t][k] = NoRows /\ mutation[t][k] = "none" /\ k = key
             /\ mutation'[t][k] = "running" =>
                  \/ mutation[t][k] = "running"
                  \/ k = key /\ rows[t][k] # NoRows /\ rows'[t][k] = rows[t][k]
    BY <1>1, <1>4
<1> QED BY <1>2, <1>3, <1>5 DEF RowTables, Mutations, key

\* What an insert of the job, or of a part of it, leaves.
LEMMA InsertFacts ==
    ASSUME Tables, NEW amount, Inserted(amount), work.key \in Keys, work.rev \in Nat,
           \A t \in Sorts : amount[t] \in {NoRows, Half, Loaded}
    PROVE  /\ rows' \in RowTables /\ mutation' = mutation
           /\ \A t \in Sorts : \A k \in Keys : rows'[t][k] = IF k = work.key THEN amount[t] ELSE rows[t][k]
<1>0. rows \in [Sorts -> [Keys -> Amounts]] /\ \A t \in Sorts : amount[t] \in Amounts
    <2>1. NoRows \in Amounts /\ Half \in Amounts /\ Loaded \in Amounts
        BY DEF NoRows, Half, Loaded, Amounts
    <2> QED BY <2>1 DEF Tables, RowTables
<1>1. rows' = [t \in Sorts |-> [rows[t] EXCEPT ![work.key] = amount[t]]] /\ mutation' = mutation
    BY DEF Inserted
<1>2. \A t \in Sorts : rows[t] \in [Keys -> Amounts] /\ [rows[t] EXCEPT ![work.key] = amount[t]] \in [Keys -> Amounts]
    BY <1>0
<1>3. rows' \in [Sorts -> [Keys -> Amounts]]
    BY <1>1, <1>2
<1>4. \A t \in Sorts : \A k \in Keys : rows'[t][k] = IF k = work.key THEN amount[t] ELSE rows[t][k]
    BY <1>1, <1>2
<1> QED BY <1>1, <1>3, <1>4 DEF RowTables

\* How the rows of a key in a table come and go, and how a delete of them starts.
RowsGo(t, k) ==
    \/ rows'[t][k] = rows[t][k]
    \/ rows'[t][k] = NoRows /\ mutation[t][k] = "running" /\ mutation'[t][k] # "running"
    \/ rows'[t][k] = NoRows /\ mutation[t][k] = "none" /\ k = work.key /\ work.at \in Deletes
    \/ /\ rows'[t][k] = NoRows \/ rows'[t][k].rev = work.rev
       /\ k = work.key /\ work.at = "insert" /\ work'.at \in {"verify", "idle"} /\ mutation' = mutation

DyingGoes(t, k) ==
    mutation'[t][k] = "running" =>
        \/ mutation[t][k] = "running"
        \/ k = work.key /\ work.at \in Deletes /\ rows[t][k] # NoRows /\ rows'[t][k] = rows[t][k]

TablesGo == \A t \in Sorts : \A k \in Keys : RowsGo(t, k) /\ DyingGoes(t, k)

\* A call that breaks: its job is over.
LEMMA BrokenFacts ==
    ASSUME Tables, NEW bill, Broken(bill), work.rev \in Nat, work'.at = "idle",
           work.at \in Deletes \cup {"insert"} => work.key \in Keys
    PROVE  rows' \in RowTables /\ mutation' \in Mutations /\ TablesGo
<1>1. CASE UNCHANGED tableVars
    BY <1>1 DEF Tables, tableVars, TablesGo, RowsGo, DyingGoes
<1>2. CASE work.at = "insert" /\ \E amount \in [Sorts -> {NoRows, Half, Loaded}] : Inserted(amount)
    <2>1. PICK amount \in [Sorts -> {NoRows, Half, Loaded}] : Inserted(amount)
        BY <1>2
    <2>2. /\ rows' \in RowTables /\ mutation' = mutation
          /\ \A t \in Sorts : \A k \in Keys : rows'[t][k] = IF k = work.key THEN amount[t] ELSE rows[t][k]
        BY <1>2, <2>1, InsertFacts
    <2>3. \A t \in Sorts : amount[t] = NoRows \/ amount[t].rev = work.rev
        BY DEF Half, Loaded
    <2>4. TablesGo
        BY <1>2, <2>2, <2>3 DEF TablesGo, RowsGo, DyingGoes
    <2> QED BY <2>2, <2>4 DEF Tables
<1>3. CASE work.at \in Deletes /\ \E late \in SUBSET {"name"} : Delete({"name"}, late)
    <2>1. PICK late \in SUBSET {"name"} : Delete({"name"}, late)
        BY <1>3
    <2>2. {"name"} \in SUBSET Sorts /\ work.key \in Keys
        BY <1>3 DEF Sorts
    <2> QED BY <1>3, <2>1, <2>2, DeleteFacts DEF TablesGo, RowsGo, DyingGoes
<1> QED BY <1>1, <1>2, <1>3 DEF Broken

LEMMA TablesNext ==
    ASSUME IInv, Tables, [Next]_vars
    PROVE  Tables' /\ TablesGo
<1>0. /\ work.rev \in Nat /\ work \in WorkType(Steps)
      /\ work.at \in Deletes \cup {"insert"} => work.key \in Keys
      /\ IdleQuery \in Queries /\ NoRows \in Amounts
    BY WorkFields DEF IInv, Types, NoRows, IdleQuery, Queries, Amounts, JobIsHeld, LoadSteps, Deletes
<1>1. UNCHANGED tableVars /\ scanned' \in BOOLEAN /\ failed' \in BOOLEAN /\ query' \in Queries => Tables' /\ TablesGo
    BY DEF Tables, tableVars, TablesGo, RowsGo, DyingGoes
<1>2. scanned \in BOOLEAN /\ failed \in BOOLEAN /\ query \in Queries
    BY DEF Tables
<1>3. CASE Source
    <2>1. ASSUME NEW p \in Paths, Touch(p) PROVE query' \in Queries
        BY <1>2, <2>1 DEF Queries, Touch
    <2>2. \E p \in Paths : Touch(p)
        BY <1>3 DEF Source, Publish, Rewrite, Archive, Remove, Flip, Change
    <2>3. UNCHANGED <<scanned, failed, tableVars>>
        BY <1>3 DEF Source, Publish, Rewrite, Archive, Remove, Flip, gateVars
    <2> QED BY <1>1, <1>2, <2>1, <2>2, <2>3
<1>4. CASE ReadPage
    BY <1>1, <1>2, <1>4 DEF ReadPage, gateVars
<1>5. CASE \E full \in BOOLEAN, scope \in SUBSET (Paths \ aged) : ScanRead(full, scope)
    BY <1>1, <1>2, <1>5 DEF ScanRead, gateVars
<1>6. CASE CommitPage \/ QueueMissing \/ Ack \/ ScanCommit \/ MarkTracked \/ ReconcileFails
    <2>1. UNCHANGED <<tableVars, query>> /\ scanned' \in BOOLEAN /\ failed' \in BOOLEAN
        BY <1>2, <1>6 DEF CommitPage, QueueMissing, Ack, ScanCommit, MarkTracked, ReconcileFails, gateVars
    <2> QED BY <1>1, <1>2, <2>1
<1>7. ASSUME EndJob(Failed) \/ EndJob(Released) \/ InJob
      PROVE  UNCHANGED <<scanned, failed, query>>
    BY <1>7 DEF EndJob, InJob, gateVars
<1>8. CASE LoadRead \/ Look \/ CheckDeleted \/ Stream \/ Verify
    BY <1>1, <1>2, <1>8 DEF LoadRead, Look, CheckDeleted, Stream, Verify, EndJob, InJob, gateVars
<1>9. CASE DeleteRows
    <2>1. PICK late : Delete(Sorts, late)
        BY <1>9 DEF DeleteRows
    <2>2. work.at \in Deletes /\ UNCHANGED <<scanned, failed, query>>
        BY <1>7, <1>9 DEF DeleteRows
    <2>3. rows' \in RowTables /\ mutation' \in Mutations /\ TablesGo
        BY <1>0, <2>1, <2>2, DeleteFacts DEF TablesGo, RowsGo, DyingGoes
    <2> QED BY <2>2, <2>3 DEF Tables
<1>10. CASE Insert
    <2>1. work.at = "insert" /\ Inserted([t \in Sorts |-> Loaded]) /\ UNCHANGED <<scanned, failed, query>>
        BY <1>7, <1>10 DEF Insert
    <2>2. work'.at = "verify"
        <3>1. Step("verify") /\ "verify" \in Steps
            BY <1>10 DEF Insert, Steps, LoadSteps
        <3> QED BY <1>0, <3>1, WorkAt DEF Step
    <2>3. /\ rows' \in RowTables /\ mutation' = mutation
          /\ \A t \in Sorts : \A k \in Keys :
                rows'[t][k] = IF k = work.key THEN [t2 \in Sorts |-> Loaded][t] ELSE rows[t][k]
        BY <1>0, <2>1, InsertFacts
    <2>4. Loaded.rev = work.rev
        BY DEF Loaded
    <2>5. TablesGo
        BY <2>1, <2>2, <2>3, <2>4 DEF TablesGo, RowsGo, DyingGoes
    <2> QED BY <2>1, <2>3, <2>5 DEF Tables
<1>11. CASE JobFails \/ Crash
    <2>1. work'.at = "idle" /\ UNCHANGED <<scanned, failed, query>>
        BY <1>11, IdleFacts DEF JobFails, Crash, EndJob
    <2>2. Broken({"fault"}) \/ Broken({"crash"})
        BY <1>11 DEF JobFails, Crash
    <2>3. rows' \in RowTables /\ mutation' \in Mutations /\ TablesGo
        BY <1>0, <2>1, <2>2, BrokenFacts
    <2> QED BY <2>1, <2>3 DEF Tables
<1>12. CASE AskSource \/ AskManifest \/ Answer
    <2>1. query' \in Queries
        BY <1>0, <1>2, <1>12 DEF AskSource, AskManifest, Answer, Queries
    <2> QED BY <1>1, <1>2, <1>12, <2>1 DEF AskSource, AskManifest, Answer, gateVars
<1>13. ASSUME NEW k \in Keys, Claim(k) PROVE Tables' /\ TablesGo
    BY <1>1, <1>2, <1>13 DEF Claim
<1>14. ASSUME NEW u \in Sorts, NEW q \in Keys, Mutate(u, q) PROVE Tables' /\ TablesGo
    <2>1. UNCHANGED <<scanned, failed, query>>
        BY <1>14 DEF Mutate, gateVars
    <2>2. rows \in [Sorts -> [Keys -> Amounts]] /\ mutation \in [Sorts -> [Keys -> {"none", "running", "spent"}]]
        BY DEF Tables, RowTables, Mutations
    <2>3. \A t \in Sorts : rows[t] \in [Keys -> Amounts] /\ mutation[t] \in [Keys -> {"none", "running", "spent"}]
        BY <2>2
    <2>4. CASE mutation[u][q] = "running" /\ mutation' = [mutation EXCEPT ![u][q] = "spent"] /\ rows' = [rows EXCEPT ![u][q] = NoRows]
        <3>1. rows' \in [Sorts -> [Keys -> Amounts]] /\ mutation' \in [Sorts -> [Keys -> {"none", "running", "spent"}]]
            BY <1>0, <2>2, <2>3, <2>4
        <3>2. \A t \in Sorts : \A k \in Keys :
                 /\ rows'[t][k] = IF t = u /\ k = q THEN NoRows ELSE rows[t][k]
                 /\ mutation'[t][k] = IF t = u /\ k = q THEN "spent" ELSE mutation[t][k]
            BY <2>2, <2>3, <2>4
        <3>3. TablesGo
            BY <2>4, <3>2 DEF TablesGo, RowsGo, DyingGoes
        <3> QED BY <1>2, <2>1, <3>1, <3>3 DEF Tables, RowTables, Mutations
    <2>5. CASE mutation[u][q] = "spent" /\ mutation' = [mutation EXCEPT ![u][q] = "none"] /\ rows' = rows
        <3>1. mutation' \in [Sorts -> [Keys -> {"none", "running", "spent"}]]
            BY <2>2, <2>3, <2>5
        <3>2. \A t \in Sorts : \A k \in Keys : mutation'[t][k] = IF t = u /\ k = q THEN "none" ELSE mutation[t][k]
            BY <2>2, <2>3, <2>5
        <3>3. TablesGo
            BY <2>5, <3>2 DEF TablesGo, RowsGo, DyingGoes
        <3> QED BY <1>2, <2>1, <2>2, <2>5, <3>1, <3>3 DEF Tables, RowTables, Mutations
    <2> QED BY <1>14, <2>4, <2>5 DEF Mutate
<1>15. ASSUME NEW p \in Paths, Age(p) PROVE Tables' /\ TablesGo
    BY <1>1, <1>2, <1>15 DEF Age, gateVars
<1>16. CASE UNCHANGED vars
    BY <1>1, <1>2, <1>16 DEF vars, gateVars, tableVars
<1> QED BY <1>3, <1>4, <1>5, <1>6, <1>8, <1>9, <1>10, <1>11, <1>12, <1>13, <1>14, <1>15, <1>16
        DEF Next, Reconcile, Job

LEMMA InitTables == Init => Tables
<1> SUFFICES ASSUME Init PROVE Tables
    OBVIOUS
<1>1. NoRows \in Amounts /\ IdleQuery \in Queries
    BY DEF NoRows, IdleQuery, Amounts, Queries
<1>2. /\ rows = [t \in Sorts |-> [k \in Keys |-> NoRows]]
      /\ mutation = [t \in Sorts |-> [k \in Keys |-> "none"]]
      /\ query = IdleQuery /\ scanned = FALSE /\ failed = FALSE
    BY DEF Init
<1>3. rows \in RowTables
    BY <1>1, <1>2 DEF RowTables
<1>4. mutation \in Mutations
    BY <1>2 DEF Mutations
<1> QED BY <1>1, <1>2, <1>3, <1>4 DEF Tables

LEMMA TablesHold == Spec => []Tables
<1>1. IInv /\ Tables /\ [Next]_vars => Tables'
    BY TablesNext
<1> QED BY <1>1, InitTables, InvHolds, PTL DEF Spec

\* Type correctness of the catalog, the queue, the manifest and the tables.
THEOREM ServingTypeCorrect == Spec => []TypeOK
<1>1. IInv /\ Tables => TypeOK
    BY DEF IInv, Types, Tables, TypeOK, Parts, Statuses, RowTables, Mutations, Amounts, Queries
<1> QED BY <1>1, InvHolds, TablesHold, PTL

-----------------------------------------------------------------------------
(***************************************************************************)
(* What the gate opens on.  The states of the manifest say what the tables  *)
(* hold: this needs that nothing ready is being deleted.                    *)
(***************************************************************************)
\* Both tables hold all rows of k, of one revision.
Whole(k) == rows["time"][k].whole /\ rows["name"][k] = rows["time"][k]

JobIsApart == work.at \in {"stream", "insert"} => Found(NoRows)

RowsFollow ==
    /\ \A k \in Keys : status[k] = "ready" => Whole(k)
    /\ \A k \in Keys : status[k] \in {"absent", "retired"} => rows["time"][k] = NoRows \/ k[1] \in aged
    /\ JobIsApart

\* What a query has seen of the queue holds of every part that has not changed since.
QueryIsFresh ==
    query.at = "asked" => tracked /\ \A p \in Paths \ query.touched : pending[p] = 0

-----------------------------------------------------------------------------
(***************************************************************************)
(* What is deleted is past.  Revisions only grow: rows of an older revision *)
(* than the part has, or of an identity it does not have, never count as    *)
(* loaded again.                                                            *)
(***************************************************************************)
Past(r, k) == part[k[1]].id = k[2] => r < part[k[1]].rev

\* A revision that was read from the archived part k.
WasRead(r, k) ==
    /\ r <= stamp
    /\ part[k[1]].id = k[2] => r <= part[k[1]].rev /\ (~part[k[1]].archived => r < part[k[1]].rev)

\* Rows that no state of the manifest may count on: one table lacks some, or they
\* are of what the part is no longer.
Expendable(k) == Whole(k) => Past(rows["time"][k].rev, k)

Revisions ==
    /\ \A p \in Paths : part[p].rev <= stamp /\ (part[p] # NoPart => part[p].rev > 0)
    /\ \A t \in Sorts : \A k \in Keys : WasRead(rows[t][k].rev, k)
    /\ work.at \in {"look", "stream", "insert", "verify", "replace", "replaced"} => WasRead(work.rev, work.key)

DeletesArePast ==
    /\ \A t \in Sorts : \A k \in Keys : mutation[t][k] = "running" =>
         rows[t][k] # NoRows /\ Expendable(k) /\ status[k] # "ready"
    /\ \A k \in Keys : status[k] \in DeleteStates => Expendable(k)

\* What the page in the worker's hands gives up.
GivenUp ==
    CASE work.at = "page" -> {k \in Keys : k[1] \in Removed \/ (k[1] \in Eligible /\ k[2] # work.page[k[1]].id)}
      [] work.at = "missing" -> {k \in Keys : k[1] \in Removed}
      [] work.at = "scanned" -> {k \in Keys : IF k[1] \in Pages THEN k[2] # work.page[k[1]].id
                                              ELSE work.full /\ k[1] \notin aged}
      [] work.at \in {"stale", "replace"} -> {work.key}
      [] OTHER -> {}

PageIsPast == \A k \in GivenUp : Expendable(k)

LoadIsApart ==
    /\ work.at = "look" =>
         /\ \A t \in Sorts : rows[t][work.key].rev <= work.rev
         /\ \A t \in Sorts : mutation[t][work.key] = "running" /\ Whole(work.key) => rows["time"][work.key].rev < work.rev
    /\ JobIsApart
    /\ work.at = "verify" => \A t \in Sorts : mutation[t][work.key] # "running"

PInv == Revisions /\ DeletesArePast /\ PageIsPast /\ LoadIsApart

LEMMA Marks ==
    ASSUME NEW s \in Statuses
    PROVE  /\ Wanted(s) = "ready" => s = "ready"
           /\ Wanted(s) \notin {"absent", "retired"} \cup DeleteStates
           /\ Doomed(s) # "ready"
           /\ Doomed(s) \in {"absent", "retired"} => s \in {"absent", "retired"}
           /\ Recovered(s) = "ready" => s = "ready"
           /\ Recovered(s) \in {"absent", "retired"} => s \in {"absent", "retired"}
           /\ Recovered(s) \in DeleteStates => s \in DeleteStates
           /\ {"ready", "absent", "retired"} \cap DeleteStates = {}
           /\ LoadStates \cap DeleteStates = {} /\ LoadStates \cap {"ready", "absent", "retired"} = {}
BY DEF Statuses, Wanted, Doomed, Recovered, Unready, LoadStates, DeleteStates

\* How a row of the manifest gets ready, at rest, or to be deleted.
StatusGoes(k) ==
    /\ status'[k] = "ready" =>
         \/ status[k] = "ready"
         \/ k = work.key /\ work.at \in {"look", "verify"} /\ Found(Loaded) /\ UNCHANGED tableVars
    /\ status'[k] \in {"absent", "retired"} =>
         \/ status[k] \in {"absent", "retired"}
         \/ k[1] \in aged
         \/ rows["time"][k] = NoRows /\ UNCHANGED rows
    /\ status'[k] \in DeleteStates => status[k] \in DeleteStates \/ k \in GivenUp

LEMMA StatusEnds ==
    ASSUME IInv, NEW s \in Statuses, EndJob(s), work.key \in Keys, NEW k \in Keys
    PROVE  status'[k] = IF k = work.key THEN s ELSE status[k]
BY DEF EndJob, IInv, Types

LEMMA StatusNext ==
    ASSUME IInv, JobIsApart, [Next]_vars, NEW k \in Keys
    PROVE  StatusGoes(k)
<1>0. /\ status[k] \in Statuses /\ k[1] \in Paths /\ k[2] \in Ids
      /\ Types /\ Versions /\ JobIsHeld
    BY DEF IInv, Types, Keys
<1>1. status' = status => StatusGoes(k)
    BY DEF StatusGoes
<1>2. CASE Source
    BY <1>0, <1>1, <1>2, SourceFrame
<1>3. CASE ReadPage
    BY <1>1, <1>3 DEF ReadPage, gateVars
<1>4. CASE CommitPage
    <2>1. status'[k] = IF k[1] \notin Eligible THEN status[k]
                       ELSE IF work.page[k[1]].id = k[2] THEN Wanted(status[k]) ELSE Doomed(status[k])
        BY <1>4 DEF CommitPage, Reconciled
    <2>2. k[1] \in Eligible /\ work.page[k[1]].id # k[2] => k \in GivenUp
        BY <1>4 DEF CommitPage, GivenUp
    <2> QED BY <1>0, <2>1, <2>2, Marks DEF StatusGoes
<1>5. CASE QueueMissing
    <2>1. status'[k] = IF k[1] \in Removed THEN Doomed(status[k]) ELSE status[k]
        BY <1>5 DEF QueueMissing
    <2>2. k[1] \in Removed => k \in GivenUp
        BY <1>5 DEF QueueMissing, GivenUp
    <2> QED BY <1>0, <2>1, <2>2, Marks DEF StatusGoes
<1>6. CASE Ack \/ MarkTracked \/ ReconcileFails
    BY <1>1, <1>6 DEF Ack, MarkTracked, ReconcileFails, gateVars
<1>7. CASE \E full \in BOOLEAN, scope \in SUBSET (Paths \ aged) : ScanRead(full, scope)
    BY <1>1, <1>7 DEF ScanRead, gateVars
<1>8. CASE ScanCommit
    <2> DEFINE now == IF k[1] \notin Pages THEN status[k]
                      ELSE IF work.page[k[1]].id = k[2] THEN Wanted(status[k]) ELSE Doomed(status[k])
    <2>1. now = Reconciled([p \in Pages |-> work.page[p].id])[k]
        BY DEF Reconciled
    <2>2. status'[k] = IF ~work.full \/ k[1] \in Pages \/ now = "absent" THEN now
                       ELSE IF k[1] \in aged THEN "retired" ELSE Doomed(now)
        BY <1>8, <2>1 DEF ScanCommit, Swept
    <2>3. k[1] \in Pages /\ work.page[k[1]].id # k[2] => k \in GivenUp
        BY <1>8 DEF ScanCommit, GivenUp
    <2>4. k[1] \notin Pages /\ work.full /\ k[1] \notin aged => k \in GivenUp
        BY <1>8 DEF ScanCommit, GivenUp
    <2> QED BY <1>0, <2>2, <2>3, <2>4, Marks DEF StatusGoes
<1>9. CASE LoadRead
    <2>1. CASE EndJob("load_failed")
        <3>1. work.key \in Keys /\ "load_failed" \in LoadStates /\ "load_failed" \in Statuses
            BY <1>0, <1>9 DEF LoadRead, JobIsHeld, LoadSteps, LoadStates, Statuses, Unready
        <3> QED BY <1>0, <2>1, <3>1, StatusEnds, Marks DEF StatusGoes
    <2> QED BY <1>1, <1>9, <2>1 DEF LoadRead, InJob, gateVars
<1>10. CASE Look
    <2>1. CASE Found(Loaded) /\ EndJob("ready")
        <3>1. work.key \in Keys /\ "ready" \in Statuses /\ work.at = "look" /\ UNCHANGED tableVars
            BY <1>0, <1>10 DEF Look, JobIsHeld, LoadSteps, Statuses
        <3> QED BY <1>0, <2>1, <3>1, StatusEnds, Marks DEF StatusGoes
    <2> QED BY <1>1, <1>10, <2>1 DEF Look, InJob, gateVars
<1>11. CASE DeleteRows \/ Insert
    BY <1>1, <1>11 DEF DeleteRows, Insert, InJob, gateVars
<1>12. CASE CheckDeleted
    <2>0. /\ work.key \in Keys /\ status[work.key] \in {"loading", "deleting"} /\ UNCHANGED rows
          /\ "retired" \in Statuses /\ "pending" \in Statuses \cap LoadStates /\ "delete_pending" \in Statuses
        BY <1>0, <1>12 DEF CheckDeleted, JobIsHeld, LoadSteps, Statuses, Unready, LoadStates, DeleteStates, tableVars
    <2>1. CASE rows["time"][work.key] = NoRows /\ EndJob("retired")
        BY <1>0, <2>0, <2>1, StatusEnds, Marks DEF StatusGoes
    <2>2. CASE EndJob(Released)
        <3>1. Released = IF status[work.key] \in DeleteStates THEN "delete_pending" ELSE "pending"
            BY DEF Released
        <3> QED BY <1>0, <2>0, <2>2, <3>1, StatusEnds, Marks DEF StatusGoes, DeleteStates
    <2>3. Found(NoRows) => rows["time"][work.key] = NoRows
        BY DEF Found, Sorts
    <2> QED BY <1>1, <1>12, <2>1, <2>2, <2>3 DEF CheckDeleted, InJob, gateVars
<1>13. CASE Stream
    <2>1. CASE EndJob("retired")
        <3>1. work.key \in Keys /\ rows["time"][work.key] = NoRows /\ "retired" \in Statuses /\ UNCHANGED rows
            BY <1>0, <1>13 DEF Stream, JobIsHeld, LoadSteps, Statuses, tableVars, JobIsApart, Found, Sorts
        <3> QED BY <1>0, <2>1, <3>1, StatusEnds, Marks DEF StatusGoes
    <2> QED BY <1>1, <1>13, <2>1 DEF Stream, InJob, gateVars
<1>14. CASE Verify
    <2>0. /\ work.key \in Keys /\ work.at = "verify" /\ UNCHANGED tableVars
          /\ "ready" \in Statuses /\ "load_failed" \in Statuses \cap LoadStates
        BY <1>0, <1>14 DEF Verify, JobIsHeld, LoadSteps, Statuses, Unready, LoadStates
    <2>1. CASE Found(Loaded) /\ EndJob("ready")
        BY <1>0, <2>0, <2>1, StatusEnds, Marks DEF StatusGoes
    <2>2. CASE EndJob("load_failed")
        BY <1>0, <2>0, <2>2, StatusEnds, Marks DEF StatusGoes
    <2> QED BY <1>14, <2>1, <2>2 DEF Verify
<1>15. CASE JobFails
    <2>0. /\ work.key \in Keys
          /\ "pending" \in Statuses \cap LoadStates /\ "load_failed" \in Statuses \cap LoadStates
          /\ "delete_pending" \in Statuses \cap DeleteStates /\ "delete_failed" \in Statuses \cap DeleteStates
        BY <1>0, <1>15 DEF JobFails, JobIsHeld, LoadSteps, Statuses, Unready, LoadStates, DeleteStates, Deletes
    <2>1. /\ Released = IF status[work.key] \in DeleteStates THEN "delete_pending" ELSE "pending"
          /\ Failed = IF status[work.key] \in DeleteStates THEN "delete_failed" ELSE "load_failed"
        BY DEF Released, Failed
    <2>2. PICK s \in {Released, Failed} : EndJob(s)
        BY <1>15 DEF JobFails
    <2>3. s \in Statuses /\ s \in IF status[work.key] \in DeleteStates THEN DeleteStates ELSE LoadStates
        BY <2>0, <2>1, <2>2
    <2>4. status'[k] = IF k = work.key THEN s ELSE status[k]
        BY <2>0, <2>2, <2>3, StatusEnds
    <2> QED BY <1>0, <2>3, <2>4, Marks DEF StatusGoes
<1>16. CASE Crash
    <2>1. status'[k] = Recovered(status[k])
        BY <1>16 DEF Crash
    <2> QED BY <1>0, <2>1, Marks DEF StatusGoes
<1>17. CASE AskSource \/ AskManifest \/ Answer \/ \E q \in Keys, t \in Sorts : Mutate(t, q)
    BY <1>1, <1>17 DEF AskSource, AskManifest, Answer, Mutate, gateVars
<1>18. ASSUME NEW q \in Keys, Claim(q) PROVE StatusGoes(k)
    <2>1. status[q] \in LoadStates \/ status[q] \in DeleteStates
        BY <1>18 DEF Claim, Claimable, LoadStates, DeleteStates
    <2>2. status'[k] = IF k # q THEN status[k] ELSE IF status[q] \in LoadStates THEN "loading" ELSE "deleting"
        BY <1>18 DEF Claim, IInv, Types
    <2>3. "loading" \in LoadStates /\ "deleting" \in DeleteStates
        BY DEF LoadStates, DeleteStates
    <2> QED BY <1>0, <2>1, <2>2, <2>3, Marks DEF StatusGoes
<1>19. CASE (\E p \in Paths : Age(p)) \/ UNCHANGED vars
    BY <1>1, <1>19 DEF Age, gateVars, vars
<1> QED BY <1>2, <1>3, <1>4, <1>5, <1>6, <1>7, <1>8, <1>9, <1>10, <1>11, <1>12, <1>13, <1>14, <1>15, <1>16,
           <1>17, <1>18, <1>19 DEF Next, Reconcile, Job

\* The steps of a load that hold a revision of the part.
Reads == {"look", "stream", "insert", "verify", "replace", "replaced"}

\* How a load comes to each of its steps.
WorkGoes ==
    \/ work'.at \notin Reads
    \/ work' = work /\ work.at \in Reads
    \/ /\ work.at = "load" /\ work'.at = "look" /\ work'.key = work.key
       /\ part[work.key[1]].id = work.key[2] /\ part[work.key[1]].archived
       /\ work'.rev = part[work.key[1]].rev
       /\ UNCHANGED <<part, stamp, rows, mutation>>
    \/ /\ work'.key = work.key /\ work'.rev = work.rev
       /\ \/ work.at = "look" /\ work'.at = "stream" /\ Found(NoRows) /\ UNCHANGED rows
          \/ work.at = "look" /\ work'.at = "replace"
          \/ work.at = "replace" /\ work'.at = "replaced"
          \/ work.at = "replaced" /\ work'.at = "stream" /\ Found(NoRows) /\ UNCHANGED rows
          \/ work.at = "stream" /\ work'.at = "insert" /\ UNCHANGED rows
          \/ work.at = "insert" /\ work'.at = "verify" /\ UNCHANGED mutation

LEMMA StepTo ==
    ASSUME work \in WorkType(Steps), NEW a, Step(a)
    PROVE  work'.at = a /\ work'.key = work.key /\ work'.rev = work.rev /\ work'.page = work.page
           /\ work'.full = work.full /\ work'.all = work.all
BY DEF Step, WorkType

LEMMA WorkNext ==
    ASSUME IInv, [Next]_vars
    PROVE  WorkGoes
<1>0. work \in WorkType(Steps) /\ IdleWork.at = "idle" /\ "idle" \notin Reads
    BY IdleFacts DEF IInv, Types, Reads
<1>1. work' = work => WorkGoes
    BY DEF WorkGoes
<1>2. ASSUME NEW a, Step(a), a \notin Reads PROVE WorkGoes
    BY <1>0, <1>2, StepTo DEF WorkGoes
<1>3. work' = IdleWork => WorkGoes
    BY <1>0 DEF WorkGoes
<1>4. CASE Source
    BY <1>1, <1>4 DEF Source, Publish, Rewrite, Archive, Remove, Flip
<1>5. CASE ReadPage
    <2>1. work'.at = "page"
        BY <1>5 DEF ReadPage, IdleWork
    <2> QED BY <2>1 DEF WorkGoes, Reads
<1>6. CASE CommitPage \/ QueueMissing \/ Ack
    <2>1. PICK a \in {"missing", "ack", "scan"} : Step(a)
        BY <1>6 DEF CommitPage, QueueMissing, Ack
    <2>2. a \notin Reads
        BY DEF Reads
    <2> QED BY <1>2, <2>1, <2>2
<1>7. CASE \E full \in BOOLEAN, scope \in SUBSET (Paths \ aged) : ScanRead(full, scope)
    <2>1. work'.at = "scanned"
        BY <1>0, <1>7 DEF ScanRead, WorkType
    <2> QED BY <2>1 DEF WorkGoes, Reads
<1>8. CASE ScanCommit
    <2>1. work' = IdleWork \/ Step("mark")
        BY <1>8 DEF ScanCommit, Step
    <2>2. "mark" \notin Reads
        BY DEF Reads
    <2> QED BY <1>2, <1>3, <2>1, <2>2
<1>9. CASE MarkTracked \/ ReconcileFails
    BY <1>3, <1>9 DEF MarkTracked, ReconcileFails
<1>10. ASSUME NEW s, EndJob(s) PROVE WorkGoes
    BY <1>3, <1>10 DEF EndJob
<1>11. CASE LoadRead
    <2>1. "stale" \notin Reads
        BY DEF Reads
    <2>2. CASE /\ part[work.key[1]].id = work.key[2] /\ part[work.key[1]].archived
               /\ work' = [work EXCEPT !.at = "look", !.rev = part[work.key[1]].rev] /\ InJob
        <3>1. work'.at = "look" /\ work'.key = work.key /\ work'.rev = part[work.key[1]].rev
            BY <1>0, <2>2 DEF WorkType
        <3> QED BY <1>11, <2>2, <3>1 DEF LoadRead, WorkGoes, InJob, sourceVars, tableVars
    <2> QED BY <1>2, <1>10, <1>11, <2>1, <2>2 DEF LoadRead
<1>12. CASE Look
    <2>1. CASE Found(NoRows) /\ Step("stream")
        BY <1>0, <1>12, <2>1, StepTo DEF Look, WorkGoes, tableVars
    <2>2. CASE Step("replace")
        BY <1>0, <1>12, <2>2, StepTo DEF Look, WorkGoes
    <2> QED BY <1>10, <1>12, <2>1, <2>2 DEF Look
<1>13. CASE DeleteRows
    <2>1. CASE work.at = "replace" /\ Step("replaced")
        BY <1>0, <2>1, StepTo DEF WorkGoes
    <2>2. ASSUME NEW a \in {"deleted", "dropped"}, Step(a) PROVE WorkGoes
        BY <1>2, <2>2 DEF Reads
    <2> QED BY <1>13, <2>1, <2>2 DEF DeleteRows, Deletes
<1>14. CASE CheckDeleted
    <2>1. CASE work.at = "replaced" /\ Found(NoRows) /\ Step("stream")
        BY <1>0, <1>14, <2>1, StepTo DEF CheckDeleted, WorkGoes, tableVars
    <2> QED BY <1>10, <1>14, <2>1 DEF CheckDeleted
<1>15. CASE Stream
    <2>1. CASE Step("insert")
        BY <1>0, <1>15, <2>1, StepTo DEF Stream, WorkGoes, tableVars
    <2> QED BY <1>10, <1>15, <2>1 DEF Stream
<1>16. CASE Insert
    <2>1. Step("verify") /\ work.at = "insert" /\ UNCHANGED mutation
        BY <1>16 DEF Insert, Inserted
    <2> QED BY <1>0, <2>1, StepTo DEF WorkGoes
<1>17. CASE Verify \/ JobFails \/ Crash
    BY <1>3, <1>10, <1>17 DEF Verify, JobFails, Crash
<1>18. CASE AskSource \/ AskManifest \/ Answer \/ \E q \in Keys, t \in Sorts : Mutate(t, q)
    BY <1>1, <1>18 DEF AskSource, AskManifest, Answer, Mutate
<1>19. ASSUME NEW q \in Keys, Claim(q) PROVE WorkGoes
    <2>1. work'.at \in {"load", "delete"}
        BY <1>19 DEF Claim, IdleWork
    <2> QED BY <2>1 DEF WorkGoes, Reads
<1>20. CASE (\E p \in Paths : Age(p)) \/ UNCHANGED vars
    BY <1>1, <1>20 DEF Age, vars
<1> QED BY <1>4, <1>5, <1>6, <1>7, <1>8, <1>9, <1>11, <1>12, <1>13, <1>14, <1>15, <1>16, <1>17, <1>18, <1>19,
           <1>20 DEF Next, Reconcile, Job

-----------------------------------------------------------------------------
LEMMA AgedGrows ==
    ASSUME Types, Versions, [Next]_vars
    PROVE  aged \subseteq aged'
<1>1. CASE Source
    BY <1>1, SourceFrame
<1>2. CASE \E full \in BOOLEAN, scope \in SUBSET (Paths \ aged) : ScanRead(full, scope)
    BY <1>2 DEF ScanRead
<1>3. CASE ReadPage \/ CommitPage \/ QueueMissing \/ Ack \/ ScanCommit \/ MarkTracked \/ ReconcileFails
    BY <1>3 DEF ReadPage, CommitPage, QueueMissing, Ack, ScanCommit, MarkTracked, ReconcileFails
<1>4. CASE Job
    BY <1>4 DEF Job, LoadRead, Look, DeleteRows, CheckDeleted, Stream, Insert, Verify, JobFails, EndJob, InJob
<1>5. CASE Crash \/ AskSource \/ AskManifest \/ Answer \/ UNCHANGED vars
    BY <1>5 DEF Crash, AskSource, AskManifest, Answer, vars
<1>6. CASE \E k \in Keys : Claim(k) \/ \E t \in Sorts : Mutate(t, k)
    BY <1>6 DEF Claim, Mutate
<1>7. CASE \E p \in Paths : Age(p)
    BY <1>7 DEF Age
<1> QED BY <1>1, <1>2, <1>3, <1>4, <1>5, <1>6, <1>7 DEF Next, Reconcile

\* The gate opens in one step only.
LEMMA GateOpens ==
    ASSUME Tables, [Next]_vars, query.at = "asked", query'.at = "open"
    PROVE  ManifestClean
<1>1. CASE Source
    <2>1. PICK p \in Paths : Touch(p)
        BY <1>1 DEF Source, Publish, Rewrite, Archive, Remove, Flip, Change
    <2>2. query'.at = query.at
        BY <2>1 DEF Touch, Tables, Queries
    <2> QED BY <2>2
<1>2. CASE AskSource \/ AskManifest \/ Answer
    BY <1>2 DEF AskSource, AskManifest, Answer, IdleQuery
<1>3. query' # query
    OBVIOUS
<1>4. ~(UNCHANGED query)
    BY <1>3
<1>5. ASSUME NEW full \in BOOLEAN, NEW scope \in SUBSET (Paths \ aged), ScanRead(full, scope) PROVE FALSE
    BY <1>4, <1>5 DEF ScanRead
<1>6. ~(ReadPage \/ CommitPage \/ QueueMissing \/ Ack \/ ScanCommit \/ MarkTracked \/ ReconcileFails)
    BY <1>4 DEF ReadPage, CommitPage, QueueMissing, Ack, ScanCommit, MarkTracked, ReconcileFails
<1>7. ~Job
    BY <1>4 DEF Job, LoadRead, Look, DeleteRows, CheckDeleted, Stream, Insert, Verify, JobFails, EndJob, InJob
<1>8. ~(Crash \/ UNCHANGED vars \/ \E p \in Paths : Age(p))
    BY <1>4 DEF Crash, Age, vars
<1>9. ASSUME NEW k \in Keys, NEW t \in Sorts, Claim(k) \/ Mutate(t, k) PROVE FALSE
    BY <1>4, <1>9 DEF Claim, Mutate
<1>10. ASSUME NEW k \in Keys, Claim(k) PROVE FALSE
    BY <1>4, <1>10 DEF Claim
<1> QED BY <1>1, <1>2, <1>5, <1>6, <1>7, <1>8, <1>9, <1>10 DEF Next, Reconcile

\* What a key that no job deletes or loads and no mutation runs for keeps.
LEMMA RowsStay ==
    ASSUME TablesGo, NEW t \in Sorts, NEW k \in Keys, mutation[t][k] # "running",
           ~(k = work.key /\ work.at \in Deletes \cup {"insert"})
    PROVE  rows'[t][k] = rows[t][k]
BY DEF TablesGo, RowsGo

LEMMA ApartNext ==
    ASSUME IInv, Tables, JobIsApart, TablesGo, WorkGoes
    PROVE  JobIsApart'
<1> SUFFICES ASSUME work'.at \in {"stream", "insert"}, NEW t \in Sorts
             PROVE  rows'[t][work'.key] = NoRows
    BY DEF JobIsApart, Found
<1>1. work.at \in {"stream", "insert"} => work.key \in Keys /\ rows[t][work.key] = NoRows
    BY DEF JobIsApart, Found, IInv, JobIsHeld, LoadSteps
<1>2. CASE work' = work
    <2>1. work.key \in Keys /\ rows[t][work.key] = NoRows
        BY <1>1, <1>2
    <2>2. RowsGo(t, work.key)
        BY <2>1 DEF TablesGo
    <2> QED BY <1>2, <2>1, <2>2 DEF RowsGo
<1> QED BY <1>1, <1>2 DEF WorkGoes, Reads, Found

LEMMA FollowNext ==
    ASSUME IInv, Tables, RowsFollow, ReadyIsNotDying, [Next]_vars
    PROVE  RowsFollow'
<1>0. /\ work.at \in Deletes \cup {"insert"} =>
           work.key \in Keys /\ status[work.key] \in {"loading", "deleting"}
      /\ aged \subseteq aged' /\ Loaded.whole
      /\ JobIsApart /\ TablesGo /\ "time" \in Sorts /\ "name" \in Sorts
    <2>1. aged \subseteq aged'
        BY AgedGrows DEF IInv
    <2> QED BY <2>1, TablesNext DEF IInv, JobIsHeld, LoadSteps, Loaded, Deletes, RowsFollow, Sorts
<1>1. ASSUME NEW k \in Keys, status'[k] = "ready" PROVE Whole(k)'
    <2>1. StatusGoes(k)
        BY <1>0, StatusNext
    <2>2. CASE status[k] = "ready"
        <3>1. \A t \in Sorts : rows'[t][k] = rows[t][k]
            BY <1>0, <2>2, RowsStay DEF ReadyIsNotDying
        <3> QED BY <1>0, <2>2, <3>1 DEF RowsFollow, Whole
    <2>3. CASE k = work.key /\ Found(Loaded) /\ UNCHANGED tableVars
        BY <1>0, <2>3 DEF tableVars, Found, Whole
    <2> QED BY <1>1, <2>1, <2>2, <2>3 DEF StatusGoes
<1>2. ASSUME NEW k \in Keys, status'[k] \in {"absent", "retired"} PROVE rows'["time"][k] = NoRows \/ k[1] \in aged'
    <2>1. StatusGoes(k) /\ RowsGo("time", k)
        BY <1>0, StatusNext DEF TablesGo
    <2>2. CASE status[k] \in {"absent", "retired"}
        BY <1>0, <2>1, <2>2 DEF RowsGo, RowsFollow
    <2> QED BY <1>0, <1>2, <2>1, <2>2 DEF StatusGoes
<1>3. JobIsApart'
    BY <1>0, ApartNext, WorkNext
<1> QED BY <1>1, <1>2, <1>3 DEF RowsFollow

LEMMA QueryNext ==
    ASSUME IInv, Tables, QueryIsFresh, [Next]_vars
    PROVE  QueryIsFresh'
<1>0. query.touched \subseteq Paths
    BY DEF Tables, Queries
<1>1. CASE Source
    <2>1. PICK p \in Paths : /\ Touch(p) /\ UNCHANGED tracked
                             /\ \/ UNCHANGED pending
                                \/ pending' = [pending EXCEPT ![p] = stamp + 1]
        BY <1>1 DEF Source, Publish, Rewrite, Archive, Remove, Flip, Change, Enqueue
    <2>2. query'.at = query.at /\ query'.touched = IF query.at = "asked" THEN query.touched \cup {p} ELSE query.touched
        BY <2>1 DEF Touch, Tables, Queries
    <2>3. \A q \in Paths \ {p} : pending'[q] = pending[q]
        BY <2>1 DEF IInv, Types
    <2> QED BY <2>1, <2>2, <2>3 DEF QueryIsFresh
<1>2. CASE Ack
    <2>1. query' = query /\ tracked' = tracked /\ \A p \in Paths : pending[p] = 0 => pending'[p] = 0
        BY <1>2 DEF Ack
    <2> QED BY <2>1 DEF QueryIsFresh
<1>3. CASE AskSource
    <2>1. tracked' /\ \A p \in Paths : pending'[p] = 0
        BY <1>3 DEF AskSource, SourceClean
    <2> QED BY <2>1 DEF QueryIsFresh
<1>4. CASE AskManifest \/ Answer
    <2>1. query'.at # "asked"
        BY <1>4 DEF AskManifest, Answer, IdleQuery, Tables, Queries
    <2> QED BY <2>1 DEF QueryIsFresh
<1>5. UNCHANGED <<query, pending>> /\ (tracked => tracked') => QueryIsFresh'
    BY DEF QueryIsFresh
<1>6. CASE \E full \in BOOLEAN, scope \in SUBSET (Paths \ aged) : ScanRead(full, scope)
    BY <1>5, <1>6 DEF ScanRead
<1>7. CASE ReadPage \/ CommitPage \/ QueueMissing \/ ScanCommit \/ MarkTracked \/ ReconcileFails
    BY <1>5, <1>7 DEF ReadPage, CommitPage, QueueMissing, ScanCommit, MarkTracked, ReconcileFails
<1>8. CASE Job
    BY <1>5, <1>8 DEF Job, LoadRead, Look, DeleteRows, CheckDeleted, Stream, Insert, Verify, JobFails, EndJob, InJob
<1>9. CASE Crash \/ UNCHANGED vars
    BY <1>5, <1>9 DEF Crash, vars
<1>10. CASE \E k \in Keys : Claim(k) \/ \E t \in Sorts : Mutate(t, k)
    BY <1>5, <1>10 DEF Claim, Mutate
<1>11. CASE \E p \in Paths : Age(p)
    BY <1>5, <1>11 DEF Age
<1> QED BY <1>1, <1>2, <1>3, <1>4, <1>6, <1>7, <1>8, <1>9, <1>10, <1>11 DEF Next, Reconcile

\* What the two looks of a query say together.
Exact ==
    \A p \in Paths \ (query.touched \cup aged) :
        /\ Served(p) = Expected(p) /\ Partly(p) = {}
        /\ \A g \in Expected(p) : rows["name"][<<p, g>>] = rows["time"][<<p, g>>]

LEMMA OpenGate ==
    ASSUME IInv, Tables, RowsFollow, QueryIsFresh, query.at = "asked", ManifestClean
    PROVE  Exact
<1> SUFFICES ASSUME NEW p \in Paths \ (query.touched \cup aged)
             PROVE  /\ Served(p) = Expected(p) /\ Partly(p) = {}
                    /\ \A g \in Expected(p) : rows["name"][<<p, g>>] = rows["time"][<<p, g>>]
    BY DEF Exact
<1>1. Right(p)
    BY DEF QueryIsFresh, IInv, QueueIsRight
<1>2. ASSUME NEW g \in Ids
      PROVE  /\ g \in Expected(p) => Whole(<<p, g>>)
             /\ g \notin Expected(p) => rows["time"][<<p, g>>] = NoRows
    <2>1. <<p, g>> \in Keys /\ <<p, g>>[1] = p
        BY DEF Keys
    <2>2. status[<<p, g>>] \notin Unready
        BY <2>1 DEF ManifestClean
    <2>3. status[<<p, g>>] \in IF g \in Expected(p) THEN {"ready"} ELSE {"absent", "retired"}
        BY <1>1, <2>2 DEF Right, Serving, Gone, Unready
    <2> QED BY <2>1, <2>3 DEF RowsFollow
<1>3. Expected(p) \subseteq Ids
    BY PartFields DEF Expected, Visible, IInv, Types
<1>4. ~NoRows.whole
    BY DEF NoRows
<1> QED BY <1>2, <1>3, <1>4 DEF Served, Partly, Whole

\* When the gate opens, both tables hold for every part that has not changed since the
\* source was asked all rows of the identity the catalog shows, and the table sorted by
\* time no row of another (query_events), as long as nothing ready is being deleted: an
\* acknowledgement, a load and a delete, of which each table may be through at its own
\* time, may come at any time in between, and the worker may crash.
THEOREM TheGateIsExact == Spec /\ []ReadyIsNotDying => GateIsExact
<1>1. Init => RowsFollow /\ QueryIsFresh
    BY DEF Init, RowsFollow, JobIsApart, QueryIsFresh, IdleWork, IdleQuery, Sorts
<1>2. IInv /\ Tables /\ RowsFollow /\ QueryIsFresh /\ ReadyIsNotDying /\ [Next]_vars => (RowsFollow /\ QueryIsFresh)'
    BY FollowNext, QueryNext
<1>3. ASSUME IInv, Tables, RowsFollow, QueryIsFresh, [Next]_vars
      PROVE  [query.at = "asked" /\ query'.at = "open" => Exact]_vars
    BY <1>3, GateOpens, OpenGate
<1>4. [][query.at = "asked" /\ query'.at = "open" => Exact]_vars => GateIsExact
    BY PTL DEF GateIsExact, Exact
<1> QED BY <1>1, <1>2, <1>3, <1>4, InvHolds, TablesHold, PTL DEF Spec

-----------------------------------------------------------------------------
(***************************************************************************)
(* Nothing ready is deleted, as long as no file is hidden.                  *)
(***************************************************************************)
\* A part changes by an archive, by going away, or to a revision of its own.
LEMMA PartNext ==
    ASSUME IInv, Revisions, [Next]_vars, NEW p \in Paths
    PROVE  /\ stamp <= stamp' /\ stamp' \in Nat
           /\ \/ part'[p] = part[p]
              \/ part[p] # NoPart /\ part'[p] = [part[p] EXCEPT !.archived = TRUE]
              \/ part'[p] = NoPart
              \/ part'[p] # NoPart /\ part'[p].rev = stamp + 1 /\ stamp' = stamp + 1
<1>0. /\ part \in [Paths -> Parts] /\ stamp \in Nat
      /\ \A q \in Paths : part[q] \in Parts /\ (part[q] # NoPart => part[q] \in [id : Ids, rev : Nat, archived : BOOLEAN])
    BY DEF IInv, Types, Parts
<1> DEFINE Good == /\ stamp <= stamp' /\ stamp' \in Nat
                   /\ \/ part'[p] = part[p]
                      \/ part[p] # NoPart /\ part'[p] = [part[p] EXCEPT !.archived = TRUE]
                      \/ part'[p] = NoPart
                      \/ part'[p] # NoPart /\ part'[p].rev = stamp + 1 /\ stamp' = stamp + 1
<1>1. UNCHANGED <<part, stamp>> => Good
    BY <1>0
<1>2. ASSUME NEW q \in Paths, NEW g \in Ids, Publish(q, g) PROVE Good
    <2>1. part' = [part EXCEPT ![q] = [id |-> g, rev |-> stamp + 1, archived |-> FALSE]] /\ stamp' = stamp + 1
        BY <1>2 DEF Publish, Change, Enqueue
    <2>2. [id |-> g, rev |-> stamp + 1, archived |-> FALSE] # NoPart
        BY IdsAssumption DEF NoPart
    <2> QED BY <1>0, <2>1, <2>2
<1>3. ASSUME NEW q \in Paths, Rewrite(q) PROVE Good
    <2>1. /\ part' = [part EXCEPT ![q] = [part[q] EXCEPT !.rev = stamp + 1, !.archived = FALSE]] /\ stamp' = stamp + 1
          /\ part[q] \in [id : Ids, rev : Nat, archived : BOOLEAN]
        BY <1>0, <1>3 DEF Rewrite, Change, Enqueue
    <2>2. [part[q] EXCEPT !.rev = stamp + 1, !.archived = FALSE].rev = stamp + 1
          /\ [part[q] EXCEPT !.rev = stamp + 1, !.archived = FALSE].id \in Ids
        BY <2>1
    <2>3. [part[q] EXCEPT !.rev = stamp + 1, !.archived = FALSE] # NoPart
        BY <2>2, IdsAssumption DEF NoPart
    <2> QED BY <1>0, <2>1, <2>2, <2>3
<1>4. ASSUME NEW q \in Paths, Archive(q) PROVE Good
    <2>1. /\ part' = [part EXCEPT ![q] = [part[q] EXCEPT !.archived = TRUE]] /\ part[q] # NoPart
          /\ stamp' \in {stamp, stamp + 1}
        BY <1>4 DEF Archive, Enqueue
    <2>2. p = q => part'[p] = [part[p] EXCEPT !.archived = TRUE]
        BY <1>0, <2>1
    <2>3. p # q => part'[p] = part[p]
        BY <1>0, <2>1
    <2>4. stamp <= stamp' /\ stamp' \in Nat
        BY <1>0, <2>1
    <2> QED BY <2>1, <2>2, <2>3, <2>4
<1>5. ASSUME NEW q \in Paths, Remove(q) PROVE Good
    <2>1. part' = [part EXCEPT ![q] = NoPart] /\ stamp' = stamp + 1
        BY <1>5 DEF Remove, Enqueue
    <2> QED BY <1>0, <2>1
<1>6. ASSUME NEW q \in Paths, Flip(q) PROVE Good
    <2>1. part' = part /\ stamp' \in {stamp, stamp + 1}
        BY <1>6 DEF Flip, Enqueue
    <2> QED BY <1>0, <2>1
<1>7. CASE \E full \in BOOLEAN, scope \in SUBSET (Paths \ aged) : ScanRead(full, scope)
    BY <1>1, <1>7 DEF ScanRead, sourceVars
<1>8. CASE ReadPage \/ CommitPage \/ QueueMissing \/ Ack \/ ScanCommit \/ MarkTracked \/ ReconcileFails
    BY <1>1, <1>8 DEF ReadPage, CommitPage, QueueMissing, Ack, ScanCommit, MarkTracked, ReconcileFails, sourceVars
<1>9. CASE Job
    BY <1>1, <1>9 DEF Job, LoadRead, Look, DeleteRows, CheckDeleted, Stream, Insert, Verify, JobFails, EndJob, InJob,
                      sourceVars
<1>10. CASE Crash \/ AskSource \/ AskManifest \/ Answer \/ UNCHANGED vars
    BY <1>1, <1>10 DEF Crash, AskSource, AskManifest, Answer, vars, sourceVars
<1>11. CASE \E k \in Keys : Claim(k) \/ \E t \in Sorts : Mutate(t, k)
    BY <1>1, <1>11 DEF Claim, Mutate, sourceVars
<1>12. CASE \E q \in Paths : Age(q)
    BY <1>1, <1>12 DEF Age, sourceVars
<1>13. Good
    BY <1>2, <1>3, <1>4, <1>5, <1>6, <1>7, <1>8, <1>9, <1>10, <1>11, <1>12 DEF Next, Reconcile, Source
<1> QED BY <1>13

\* Hence what is past stays past, and what was read stays read.
LEMMA ReadStays ==
    ASSUME IInv, Revisions, [Next]_vars, NEW k \in Keys, NEW r \in Nat, r <= stamp
    PROVE  (Past(r, k) => Past(r, k)') /\ (WasRead(r, k) => WasRead(r, k)')
<1>0. k[1] \in Paths /\ k[2] \in Ids /\ k[2] # 0
    BY IdsAssumption DEF Keys
<1>1. PICK p \in Paths : p = k[1]
    BY <1>0
<1>2. /\ stamp <= stamp' /\ stamp' \in Nat
      /\ \/ part'[p] = part[p]
         \/ part[p] # NoPart /\ part'[p] = [part[p] EXCEPT !.archived = TRUE]
         \/ part'[p] = NoPart
         \/ part'[p].rev = stamp + 1 /\ stamp' = stamp + 1
    BY PartNext
<1>3. stamp \in Nat /\ part[p] \in Parts /\ part[p].rev \in Nat /\ part[p].archived \in BOOLEAN
    BY PartFields DEF IInv, Types
<1>4. CASE part'[p] = part[p]
    BY <1>1, <1>2, <1>3, <1>4 DEF Past, WasRead
<1>5. CASE part[p] # NoPart /\ part'[p] = [part[p] EXCEPT !.archived = TRUE]
    <2>1. part[p] \in [id : Ids, rev : Nat, archived : BOOLEAN]
        BY <1>3, <1>5 DEF Parts
    <2>2. part'[p].id = part[p].id /\ part'[p].rev = part[p].rev /\ part'[p].archived
        BY <1>5, <2>1
    <2> QED BY <1>1, <1>2, <1>3, <2>2 DEF Past, WasRead
<1>6. CASE part'[p] = NoPart
    <2>1. part'[p].id # k[2]
        BY <1>0, <1>6 DEF NoPart
    <2> QED BY <1>1, <1>2, <1>3, <2>1 DEF Past, WasRead
<1>7. CASE part'[p].rev = stamp + 1
    <2>1. r < part'[p].rev /\ r <= stamp'
        BY <1>2, <1>3, <1>7
    <2>2. r <= part'[p].rev
        BY <1>3, <1>7
    <2> QED BY <1>1, <2>1, <2>2 DEF Past, WasRead
<1> QED BY <1>2, <1>4, <1>5, <1>6, <1>7

LEMMA RevisionsNext ==
    ASSUME IInv, Tables, Revisions, [Next]_vars
    PROVE  Revisions'
<1>0. /\ stamp \in Nat /\ work \in WorkType(Steps) /\ work.rev \in Nat
      /\ \A p \in Paths : part[p] \in Parts /\ part[p].rev \in Nat
      /\ \A t \in Sorts : \A k \in Keys : rows[t][k].rev \in Nat
      /\ work.at \in Reads \cup {"load"} => work.key \in Keys
    BY WorkFields, PartFields DEF IInv, Types, Tables, RowTables, Amounts, JobIsHeld, Reads, LoadSteps
<1>1. ASSUME NEW p \in Paths
      PROVE  part'[p].rev <= stamp' /\ (part'[p] # NoPart => part'[p].rev > 0)
    <2>1. /\ stamp <= stamp' /\ stamp' \in Nat
          /\ \/ part'[p] = part[p]
             \/ part[p] # NoPart /\ part'[p] = [part[p] EXCEPT !.archived = TRUE]
             \/ part'[p] = NoPart
             \/ part'[p].rev = stamp + 1 /\ stamp' = stamp + 1
        BY PartNext
    <2>2. part[p].rev <= stamp /\ (part[p] # NoPart => part[p].rev > 0)
        BY DEF Revisions
    <2>3. CASE part[p] # NoPart /\ part'[p] = [part[p] EXCEPT !.archived = TRUE]
        <3>1. part[p] \in [id : Ids, rev : Nat, archived : BOOLEAN]
            BY <1>0, <2>3 DEF Parts
        <3>2. part'[p].rev = part[p].rev
            BY <2>3, <3>1
        <3> QED BY <1>0, <2>1, <2>2, <2>3, <3>2
    <2>4. CASE part'[p] = NoPart
        BY <2>1, <2>4 DEF NoPart
    <2> QED BY <1>0, <2>1, <2>2, <2>3, <2>4
<1>2. ASSUME NEW t \in Sorts, NEW k \in Keys PROVE WasRead(rows[t][k].rev, k)'
    <2>1. RowsGo(t, k)
        BY TablesNext DEF TablesGo
    <2>2. CASE rows'[t][k] = rows[t][k]
        <3>1. WasRead(rows[t][k].rev, k)
            BY DEF Revisions
        <3>2. rows[t][k].rev <= stamp
            BY <3>1 DEF WasRead
        <3>3. PICK r \in Nat : r = rows[t][k].rev /\ r <= stamp /\ WasRead(r, k)
            BY <1>0, <3>1, <3>2
        <3>4. WasRead(r, k)'
            BY <3>3, ReadStays
        <3> QED BY <2>2, <3>3, <3>4 DEF WasRead
    <2>3. CASE rows'[t][k] = NoRows
        <3>1. k[1] \in Paths /\ k[2] \in Ids /\ k[2] # 0
            BY IdsAssumption DEF Keys
        <3>2. part'[k[1]].id = k[2] => part'[k[1]].rev > 0
            BY <1>1, <3>1 DEF NoPart
        <3>3. stamp' \in Nat
            BY <3>1, PartNext
        <3>4. rows'[t][k].rev = 0
            BY <2>3 DEF NoRows
        <3>5. part'[k[1]].id = k[2] => 0 <= part'[k[1]].rev
            <4>1. IInv'
                BY NextInv
            <4>2. part'[k[1]].rev \in Nat
                BY <3>1, <4>1, PartFields DEF IInv, Types
            <4> QED BY <3>2, <4>2
        <3> QED BY <3>2, <3>3, <3>4, <3>5 DEF WasRead
    <2>4. CASE rows'[t][k].rev = work.rev /\ k = work.key /\ work.at = "insert"
        <3>1. WasRead(work.rev, work.key) /\ work.rev <= stamp
            BY <2>4 DEF Revisions, WasRead
        <3>2. PICK r \in Nat : r = work.rev /\ r <= stamp /\ WasRead(r, k)
            BY <1>0, <2>4, <3>1
        <3>3. WasRead(r, k)'
            BY <3>2, ReadStays
        <3> QED BY <2>4, <3>2, <3>3 DEF WasRead
    <2> QED BY <2>1, <2>2, <2>3, <2>4 DEF RowsGo
<1>3. ASSUME work'.at \in Reads PROVE WasRead(work.rev, work.key)'
    <2>1. WorkGoes
        BY WorkNext
    <2>2. CASE work.at \in Reads /\ work'.key = work.key /\ work'.rev = work.rev
        <3>1. WasRead(work.rev, work.key) /\ work.rev <= stamp
            BY <2>2 DEF Revisions, WasRead, Reads
        <3>2. PICK r \in Nat, k \in Keys : r = work.rev /\ k = work.key /\ r <= stamp /\ WasRead(r, k)
            BY <1>0, <2>2, <3>1
        <3>3. WasRead(r, k)'
            BY <3>2, ReadStays
        <3> QED BY <2>2, <3>2, <3>3 DEF WasRead
    <2>3. CASE /\ work.at = "load" /\ work'.key = work.key
               /\ part[work.key[1]].id = work.key[2] /\ part[work.key[1]].archived
               /\ work'.rev = part[work.key[1]].rev /\ UNCHANGED <<part, stamp>>
        <3>1. PICK p \in Paths : p = work.key[1]
            BY <1>0, <2>3 DEF Keys
        <3>2. part[p].rev <= stamp /\ part[p].rev \in Nat
            BY <1>0 DEF Revisions
        <3> QED BY <2>3, <3>1, <3>2 DEF WasRead
    <2> QED BY <1>3, <2>1, <2>2, <2>3 DEF WorkGoes, Reads
<1> QED BY <1>1, <1>2, <1>3 DEF Revisions, WasRead, Reads

\* Rows that may go stay so: new rows come only of a load, and a load is of what stays.
LEMMA ExpendableStays ==
    ASSUME IInv, Tables, Revisions, [Next]_vars, NEW k \in Keys, Expendable(k),
           ~(k = work.key /\ work.at = "insert" /\ work'.at \in {"verify", "idle"})
    PROVE  Expendable(k)'
<1>0. "time" \in Sorts /\ "name" \in Sorts /\ ~NoRows.whole
    BY DEF Sorts, NoRows
<1>1. /\ \A t \in Sorts : rows'[t][k] = rows[t][k] \/ rows'[t][k] = NoRows
      /\ rows["time"][k].rev \in Nat /\ WasRead(rows["time"][k].rev, k)
    BY <1>0, TablesNext DEF Tables, RowTables, Amounts, Revisions, TablesGo, RowsGo
<1>2. PICK r \in Nat : r = rows["time"][k].rev /\ r <= stamp
    BY <1>1 DEF WasRead
<1>3. SUFFICES ASSUME Whole(k)' PROVE Past(r, k)' /\ rows'["time"][k].rev = r
    BY DEF Expendable, Past
<1>4. rows'["time"][k] = rows["time"][k] /\ rows'["name"][k] = rows["name"][k]
    BY <1>0, <1>1, <1>3 DEF Whole
<1>5. Past(r, k)
    BY <1>2, <1>3, <1>4 DEF Expendable, Whole
<1> QED BY <1>2, <1>4, <1>5, ReadStays

LEMMA DeletesNext ==
    ASSUME IInv, Tables, PInv, [Next]_vars
    PROVE  DeletesArePast'
<1>0. /\ work.at \in Deletes \cup {"insert", "stream"} =>
           work.key \in Keys /\ status[work.key] \in {"loading", "deleting"}
      /\ work.at = "delete" => status[work.key] = "deleting"
      /\ work.at = "insert" => status[work.key] = "loading"
      /\ work.at \in {"stale", "replace"} => work.key \in GivenUp
      /\ "deleting" \in DeleteStates /\ "loading" \notin DeleteStates
    BY DEF IInv, JobIsHeld, LoadSteps, GivenUp, DeleteStates, Deletes
<1>1. JobIsApart /\ TablesGo
    BY TablesNext DEF PInv, LoadIsApart
<1>2. ASSUME NEW t \in Sorts, NEW k \in Keys, mutation'[t][k] = "running"
      PROVE  rows'[t][k] # NoRows /\ Expendable(k)' /\ status'[k] # "ready"
    <2>1. StatusGoes(k) /\ RowsGo(t, k) /\ DyingGoes(t, k)
        BY <1>1, StatusNext DEF TablesGo
    <2>2. CASE mutation[t][k] = "running"
        <3>1. rows[t][k] # NoRows /\ Expendable(k) /\ status[k] # "ready"
            BY <2>2 DEF PInv, DeletesArePast
        <3>2. rows'[t][k] = rows[t][k] /\ ~(k = work.key /\ work.at = "insert")
            BY <1>1, <1>2, <2>1, <2>2, <3>1 DEF RowsGo, JobIsApart, Found
        <3>3. Expendable(k)'
            BY <3>1, <3>2, ExpendableStays DEF PInv
        <3>4. ~(k = work.key /\ work.at = "look" /\ Found(Loaded))
            <4> SUFFICES ASSUME k = work.key, work.at = "look", Found(Loaded) PROVE FALSE
                OBVIOUS
            <4>1. Whole(k) /\ rows["time"][k].rev = work.rev /\ work.rev \in Nat
                BY WorkFields DEF Found, Sorts, Loaded, Whole, IInv, Types
            <4>2. rows["time"][k].rev < work.rev
                BY <2>2, <4>1 DEF PInv, LoadIsApart
            <4> QED BY <4>1, <4>2
        <3>5. ~(k = work.key /\ work.at = "verify")
            BY <2>2 DEF PInv, LoadIsApart
        <3> QED BY <2>1, <3>1, <3>2, <3>3, <3>4, <3>5 DEF StatusGoes
    <2>3. CASE k = work.key /\ work.at \in Deletes /\ rows[t][k] # NoRows /\ rows'[t][k] = rows[t][k]
        <3>1. status'[k] # "ready"
            BY <1>0, <2>1, <2>3 DEF StatusGoes, Deletes
        <3>2. Expendable(k)
            BY <1>0, <2>3 DEF PInv, DeletesArePast, PageIsPast, Deletes
        <3>3. work.at # "insert"
            BY <2>3 DEF Deletes
        <3>4. Expendable(k)'
            BY <3>2, <3>3, ExpendableStays DEF PInv
        <3> QED BY <2>3, <3>1, <3>4
    <2> QED BY <1>2, <2>1, <2>2, <2>3 DEF DyingGoes
<1>3. ASSUME NEW k \in Keys, status'[k] \in DeleteStates PROVE Expendable(k)'
    <2>1. StatusGoes(k)
        BY <1>1, StatusNext
    <2>2. status[k] \in DeleteStates \/ k \in GivenUp
        BY <1>3, <2>1 DEF StatusGoes
    <2>3. Expendable(k)
        BY <2>2 DEF PInv, DeletesArePast, PageIsPast
    <2>4. ~(k = work.key /\ work.at = "insert")
        BY <1>0, <2>2 DEF GivenUp
    <2> QED BY <2>3, <2>4, ExpendableStays DEF PInv
<1> QED BY <1>2, <1>3 DEF DeletesArePast

\* A page gives up only what the catalog does not show when the page is read.
LEMMA GivenUpNext ==
    ASSUME IInv, Tables, Revisions, LoadIsApart, NothingIsHidden, [Next]_vars, NEW k \in GivenUp'
    PROVE  k \in Keys /\ (k \in GivenUp \/ Expendable(k)) /\ work'.at # "idle" /\ work'.at # "verify"
<1>0. /\ work \in WorkType(Steps) /\ IdleWork.at = "idle"
      /\ work'.at \in LoadSteps => work'.key \in Keys
    BY IdleFacts, NextInv DEF IInv, Types, JobIsHeld
<1>1. k \in Keys /\ work'.at # "idle" /\ work'.at # "verify"
    <2>1. CASE work'.at = "page"
        BY <2>1 DEF GivenUp
    <2>2. CASE work'.at = "missing"
        BY <2>2 DEF GivenUp
    <2>3. CASE work'.at = "scanned"
        BY <2>3 DEF GivenUp
    <2>4. CASE work'.at \in {"stale", "replace"}
        <3>1. k = work'.key
            BY <2>4 DEF GivenUp
        <3> QED BY <1>0, <2>4, <3>1 DEF LoadSteps
    <2> QED BY <2>1, <2>2, <2>3, <2>4 DEF GivenUp
<1>2. /\ k[1] \in Paths /\ k[2] \in Ids /\ k[2] # 0 /\ NoPart.id = 0
      /\ \A r : part[k[1]].id # k[2] => Past(r, k)
    BY <1>1, IdsAssumption DEF Keys, NoPart, Past
<1>3. part[k[1]].id # k[2] => Expendable(k)
    BY <1>2 DEF Expendable
<1>4. work'.at \in {"page", "missing", "scanned", "stale", "replace"}
    BY DEF GivenUp
<1>5. work' = work /\ aged \subseteq aged' => k \in GivenUp
    BY DEF GivenUp, Removed, Eligible, Pages
<1>6. work' = work => k \in GivenUp
    BY <1>5, AgedGrows DEF IInv
<1>7. CASE ReadPage
    <2>1. /\ work'.at = "page"
          /\ work'.page = [p \in {q \in Paths : pending[q] > 0} |->
                              [version |-> pending[p], visible |-> Visible(p), id |-> part[p].id,
                               archived |-> part[p].archived]]
        BY <1>7 DEF ReadPage, IdleWork
    <2>2. k[1] \in Removed' \/ (k[1] \in Eligible' /\ k[2] # work'.page[k[1]].id)
        BY <2>1 DEF GivenUp
    <2>3. CASE k[1] \in Removed'
        <3>1. ~Visible(k[1])
            BY <2>1, <2>3 DEF Removed, Pages
        <3>2. part[k[1]] = NoPart
            BY <1>2, <3>1 DEF Visible, NothingIsHidden
        <3> QED BY <1>1, <1>2, <1>3, <3>2
    <2>4. CASE k[1] \in Eligible' /\ k[2] # work'.page[k[1]].id
        <3>1. part[k[1]].id # k[2]
            BY <2>1, <2>4 DEF Eligible, Pages
        <3> QED BY <1>1, <1>3, <3>1
    <2> QED BY <2>2, <2>3, <2>4
<1>8. CASE CommitPage
    <2>1. work.at = "page" /\ work'.at = "missing" /\ work'.page = work.page
        BY <1>0, <1>8, StepTo DEF CommitPage
    <2>2. Removed' = Removed
        BY <2>1 DEF Removed, Pages
    <2>3. k \in GivenUp
        BY <2>1, <2>2 DEF GivenUp
    <2> QED BY <1>1, <2>3
<1>9. CASE QueueMissing \/ Ack
    <2>1. work'.at \in {"ack", "scan"}
        BY <1>0, <1>9, StepTo DEF QueueMissing, Ack
    <2> QED BY <1>4, <2>1
<1>10. ASSUME NEW full \in BOOLEAN, NEW scope \in SUBSET (Paths \ aged), ScanRead(full, scope)
       PROVE  Expendable(k)
    <2> DEFINE seen == {p \in scope : Visible(p)}
    <2>1. /\ work'.at = "scanned" /\ work'.full = full
          /\ work'.page = [p \in {q \in seen : part[q].archived} |-> [id |-> part[p].id]]
          /\ full => scope = Paths \ aged
          /\ aged' = aged
        BY <1>0, <1>10 DEF ScanRead, WorkType
    <2>2. IF k[1] \in Pages' THEN k[2] # work'.page[k[1]].id ELSE full /\ k[1] \notin aged
        BY <2>1 DEF GivenUp
    <2>3. Pages' = {q \in seen : part[q].archived}
        BY <2>1 DEF Pages
    <2>4. CASE k[1] \in Pages'
        <3>1. part[k[1]].id # k[2]
            BY <2>1, <2>2, <2>3, <2>4
        <3> QED BY <1>3, <3>1
    <2>5. CASE k[1] \notin Pages'
        <3>1. part[k[1]] = NoPart \/ ~part[k[1]].archived
            BY <1>2, <2>1, <2>2, <2>3, <2>5 DEF Visible, NothingIsHidden
        <3>2. WasRead(rows["time"][k].rev, k)
            BY <1>1 DEF Revisions, Sorts
        <3> QED BY <1>2, <1>3, <3>1, <3>2 DEF WasRead, Expendable, Past
    <2> QED BY <2>4, <2>5
<1>11. CASE ScanCommit \/ MarkTracked \/ ReconcileFails
    <2>1. work' = IdleWork \/ work' = [work EXCEPT !.at = "mark"]
        BY <1>11 DEF ScanCommit, MarkTracked, ReconcileFails
    <2>2. work'.at \in {"idle", "mark"}
        BY <1>0, <2>1, StepTo DEF Step
    <2> QED BY <1>4, <2>2
<1>12. ASSUME NEW s, EndJob(s) PROVE FALSE
    BY <1>0, <1>4, <1>12 DEF EndJob
<1>13. CASE LoadRead
    <2>1. CASE part[work.key[1]].id # work.key[2] /\ Step("stale")
        <3>1. work'.at = "stale" /\ work'.key = work.key
            BY <1>0, <2>1, StepTo
        <3>2. k = work.key
            BY <3>1 DEF GivenUp
        <3> QED BY <1>1, <1>3, <2>1, <3>2
    <2>2. CASE work' = [work EXCEPT !.at = "look", !.rev = part[work.key[1]].rev]
        <3>1. work'.at = "look"
            BY <1>0, <2>2 DEF WorkType
        <3> QED BY <1>4, <3>1
    <2> QED BY <1>12, <1>13, <2>1, <2>2 DEF LoadRead
<1>14. CASE Look
    <2>1. CASE Step("stream")
        BY <1>0, <1>4, <2>1, StepTo
    <2>2. CASE ~Found(Loaded) /\ Step("replace")
        <3>1. work'.at = "replace" /\ work'.key = work.key /\ work.at = "look"
            BY <1>0, <1>14, <2>2, StepTo DEF Look
        <3>2. k = work.key
            BY <3>1 DEF GivenUp
        <3>3. /\ \A t \in Sorts : rows[t][k] \in [rev : Nat, whole : BOOLEAN]
              /\ work.rev \in Nat /\ Sorts = {"time", "name"}
            BY <1>0, <1>1, WorkFields DEF Tables, RowTables, Amounts, Sorts
        <3>4. WasRead(work.rev, k) /\ rows["time"][k].rev <= work.rev
            BY <3>1, <3>2, <3>3 DEF Revisions, LoadIsApart
        <3>5. Whole(k) => rows["time"][k].rev # work.rev
            BY <2>2, <3>2, <3>3 DEF Loaded, Whole, Found
        <3>6. part[k[1]].rev \in Nat
            BY <1>2, PartFields DEF IInv, Types
        <3> QED BY <1>1, <3>3, <3>4, <3>5, <3>6 DEF WasRead, Expendable, Past
    <2> QED BY <1>12, <1>14, <2>1, <2>2 DEF Look
<1>15. CASE DeleteRows \/ CheckDeleted \/ Stream \/ Insert \/ Verify \/ JobFails
    <2>1. ASSUME NEW a \in {"replaced", "deleted", "dropped", "stream", "insert", "verify"}, Step(a) PROVE FALSE
        BY <1>0, <1>4, <2>1, StepTo
    <2> QED BY <1>12, <1>15, <2>1 DEF DeleteRows, CheckDeleted, Stream, Insert, Verify, JobFails
<1>16. CASE Crash
    BY <1>0, <1>4, <1>16 DEF Crash
<1>17. ASSUME NEW q \in Keys, Claim(q) PROVE FALSE
    <2>1. work'.at \in {"load", "delete"}
        BY <1>17 DEF Claim, IdleWork
    <2> QED BY <1>4, <2>1
<1>18. CASE Source \/ AskSource \/ AskManifest \/ Answer \/ (\E q \in Keys, t \in Sorts : Mutate(t, q))
            \/ (\E p \in Paths : Age(p)) \/ UNCHANGED vars
    <2>1. work' = work
        <3>1. CASE Source
            BY <3>1 DEF Source, Publish, Rewrite, Archive, Remove, Flip
        <3>2. CASE \E q \in Keys, t \in Sorts : Mutate(t, q)
            BY <3>2 DEF Mutate
        <3>3. CASE \E p \in Paths : Age(p)
            BY <3>3 DEF Age
        <3> QED BY <1>18, <3>1, <3>2, <3>3 DEF AskSource, AskManifest, Answer, vars
    <2> QED BY <1>1, <1>6, <2>1
<1> QED BY <1>1, <1>7, <1>8, <1>9, <1>10, <1>11, <1>13, <1>14, <1>15, <1>16, <1>17, <1>18 DEF Next, Reconcile, Job

\* A load never meets a delete of its own key that could still take its rows.
LEMMA LoadNext ==
    ASSUME IInv, Tables, PInv, [Next]_vars
    PROVE  LoadIsApart'
<1>0. /\ work \in WorkType(Steps) /\ work.rev \in Nat
      /\ work.at \in Reads \cup {"load"} => work.key \in Keys
      /\ \A t \in Sorts : \A k \in Keys : rows[t][k].rev \in Nat /\ WasRead(rows[t][k].rev, k)
      /\ NoRows.rev = 0 /\ ~NoRows.whole /\ "time" \in Sorts /\ "name" \in Sorts
    BY WorkFields DEF IInv, Types, Tables, RowTables, Amounts, JobIsHeld, Reads, LoadSteps, PInv, Revisions, NoRows, Sorts
<1>1. WorkGoes /\ TablesGo
    BY WorkNext, TablesNext
<1>2. ASSUME work'.at = "look", NEW t \in Sorts, NEW k \in Keys, k = work'.key
      PROVE  /\ rows'[t][k].rev <= work'.rev
             /\ mutation'[t][k] = "running" /\ Whole(k)' => rows'["time"][k].rev < work'.rev
    <2>1. CASE work' = work
        <3>1. k = work.key
            BY <1>2, <2>1
        <3>2. \A u \in Sorts : RowsGo(u, k) /\ DyingGoes(u, k)
            BY <1>1 DEF TablesGo
        <3>3. \A u \in Sorts : /\ rows'[u][k] = rows[u][k] \/ rows'[u][k] = NoRows
                               /\ mutation'[u][k] = "running" => mutation[u][k] = "running"
            BY <1>2, <2>1, <3>2 DEF RowsGo, DyingGoes, Deletes
        <3>4. /\ rows[t][k].rev <= work.rev
              /\ mutation[t][k] = "running" /\ Whole(k) => rows["time"][k].rev < work.rev
            BY <1>2, <2>1, <3>1 DEF PInv, LoadIsApart
        <3>5. Whole(k)' => Whole(k) /\ rows'["time"][k] = rows["time"][k]
            <4> SUFFICES ASSUME Whole(k)' PROVE Whole(k) /\ rows'["time"][k] = rows["time"][k]
                OBVIOUS
            <4>1. rows'["time"][k] # NoRows /\ rows'["name"][k] # NoRows
                BY <1>0 DEF Whole
            <4>2. rows'["time"][k] = rows["time"][k] /\ rows'["name"][k] = rows["name"][k]
                BY <1>0, <3>3, <4>1
            <4> QED BY <4>2 DEF Whole
        <3>6. rows'[t][k].rev <= work'.rev
            <4>1. rows[t][k].rev \in Nat /\ work'.rev = work.rev
                BY <1>0, <2>1
            <4>2. rows'[t][k].rev = rows[t][k].rev \/ rows'[t][k].rev = 0
                BY <1>0, <3>3
            <4> QED BY <1>0, <3>4, <4>1, <4>2
        <3>7. mutation'[t][k] = "running" /\ Whole(k)' => rows'["time"][k].rev < work'.rev
            BY <2>1, <3>3, <3>4, <3>5
        <3> QED BY <3>6, <3>7
    <2>2. CASE /\ work.at = "load" /\ work'.key = work.key
               /\ part[work.key[1]].id = work.key[2]
               /\ work'.rev = part[work.key[1]].rev
               /\ UNCHANGED <<part, stamp, rows, mutation>>
        <3>1. k = work.key
            BY <1>2, <2>2
        <3>2. rows[t][k].rev <= part[k[1]].rev
            BY <1>0, <2>2, <3>1 DEF WasRead
        <3>3. mutation[t][k] = "running" /\ Whole(k) => rows["time"][k].rev < part[k[1]].rev
            BY <2>2, <3>1 DEF PInv, DeletesArePast, Expendable, Past
        <3> QED BY <2>2, <3>1, <3>2, <3>3 DEF Whole
    <2> QED BY <1>1, <1>2, <2>1, <2>2 DEF WorkGoes, Reads
<1>3. JobIsApart'
    BY <1>1, ApartNext DEF PInv, LoadIsApart
<1>4. ASSUME work'.at = "verify", NEW t \in Sorts PROVE mutation'[t][work'.key] # "running"
    <2>1. CASE work' = work
        <3>1. work.key \in Keys /\ mutation[t][work.key] # "running"
            BY <1>0, <1>4, <2>1 DEF Reads, PInv, LoadIsApart
        <3>2. DyingGoes(t, work.key)
            BY <1>1, <3>1 DEF TablesGo
        <3> QED BY <1>4, <2>1, <3>1, <3>2 DEF DyingGoes, Deletes
    <2>2. CASE work'.key = work.key /\ work.at = "insert" /\ UNCHANGED mutation
        <3>1. rows[t][work.key] = NoRows /\ work.key \in Keys
            BY <1>0, <2>2 DEF PInv, LoadIsApart, JobIsApart, Found, Reads
        <3>2. mutation[t][work.key] # "running"
            BY <3>1 DEF PInv, DeletesArePast
        <3> QED BY <2>2, <3>2
    <2> QED BY <1>1, <1>4, <2>1, <2>2 DEF WorkGoes, Reads
<1>5. work'.at = "look" => work'.key \in Keys
    <2>1. IInv'
        BY NextInv
    <2> QED BY <2>1 DEF IInv, JobIsHeld, LoadSteps
<1> QED BY <1>2, <1>3, <1>4, <1>5 DEF LoadIsApart, Whole

LEMMA PNext ==
    ASSUME IInv, Tables, PInv, NothingIsHidden, [Next]_vars
    PROVE  PInv'
<1>1. Revisions' /\ DeletesArePast' /\ LoadIsApart'
    BY RevisionsNext, DeletesNext, LoadNext DEF PInv
<1>2. ASSUME NEW k \in GivenUp' PROVE Expendable(k)'
    <2>1. k \in Keys /\ (k \in GivenUp \/ Expendable(k)) /\ work'.at # "idle" /\ work'.at # "verify"
        BY GivenUpNext DEF PInv
    <2>2. Expendable(k)
        BY <2>1 DEF PInv, PageIsPast
    <2> QED BY <2>1, <2>2, ExpendableStays DEF PInv
<1> QED BY <1>1, <1>2 DEF PInv, PageIsPast

LEMMA InitPast == Init => PInv
<1> SUFFICES ASSUME Init PROVE PInv
    OBVIOUS
<1>1. /\ work.at = "idle" /\ stamp = 1
      /\ \A t \in Sorts : \A k \in Keys : rows[t][k] = NoRows /\ mutation[t][k] = "none"
      /\ \A k \in Keys : status[k] = "absent" /\ k[1] \in Paths /\ k[2] \in Ids /\ k[2] # 0
      /\ NoRows.rev = 0 /\ ~NoRows.whole /\ NoPart.id = 0 /\ NoPart.rev = 0
      /\ "time" \in Sorts
    BY IdleFacts, IdsAssumption DEF Init, NoRows, NoPart, Keys, Sorts
<1>2. ASSUME NEW p \in Paths
      PROVE  part[p] = NoPart \/ part[p].rev = 1
    BY DEF Init
<1>3. Revisions
    BY <1>1, <1>2 DEF Revisions, WasRead
<1>4. GivenUp = {}
    BY <1>1 DEF GivenUp
<1> QED BY <1>1, <1>3, <1>4 DEF PInv, DeletesArePast, PageIsPast, LoadIsApart, JobIsApart, DeleteStates

\* What is ready is never being deleted, as long as no file is hidden ("retry without
\* marking the source ready when the asynchronous mutation is still running",
\* delete_part): every delete is of an identity or a revision that the part no longer
\* has, and it does not come back.  A part that is hidden and shown again is the one
\* whose delete is of what it comes back with.
THEOREM NothingReadyIsDeleted == Spec /\ []NothingIsHidden => []ReadyIsNotDying
<1>1. IInv /\ Tables /\ PInv /\ NothingIsHidden /\ [Next]_vars => PInv'
    BY PNext
<1>2. PInv => ReadyIsNotDying
    BY DEF PInv, DeletesArePast, ReadyIsNotDying
<1> QED BY <1>1, <1>2, InitPast, InvHolds, TablesHold, PTL DEF Spec

\* Hence with nothing hidden the gate is exact, whatever mutations, faults and crashes do.
THEOREM ShownPartsAreServedExactly == Spec /\ []NothingIsHidden => GateIsExact
BY NothingReadyIsDeleted, TheGateIsExact, PTL

=============================================================================
