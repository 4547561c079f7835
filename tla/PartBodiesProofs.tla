---------------------------- MODULE PartBodiesProofs ----------------------------
(***************************************************************************)
(* Proofs about PartBodies, for any parts, attempts, migrations, faults and *)
(* crashes: types; that no object a row points to is ever deleted; and that *)
(* the events of a row are on the disk or in the store until they expire.   *)
(*                                                                          *)
(* A retired object is deleted some time after a look at the rows: the      *)
(* first argument shows that nobody can point a row to it in between.  The  *)
(* lane is out, because the gate wants the file done; and a migration that  *)
(* read its rows before the object was retired finds one of its bodies      *)
(* re-encoded, or its row gone.  The second one follows the attempt that    *)
(* every copy of a part comes from.                                         *)
(*                                                                          *)
(* The retention sweep rewrites bodies without the body lock.  What it must *)
(* not meet is a hypothesis of the theorems, about the behaviour and not    *)
(* about the constants: TLC finds both results false without it.            *)
(***************************************************************************)
EXTENDS PartBodies, TLAPS

(***************************************************************************)
(* Types.                                                                   *)
(***************************************************************************)
Over(S) == UNION {[ps -> S] : ps \in SUBSET Parts}
FullRows == [sha : Bodies, object : Bodies, key : Keys, level9 : BOOLEAN, cut : 0..MaxCuts]
Rows == {NoRow} \cup {r \in FullRows : r.object.form = "raw" \/ (r.object.form = "cold" /\ r.level9)}
Ages == 0..Expired
PlanType == [keep : SUBSET Parts, gen : Gens \cup {0}, oss : BOOLEAN, detached : BOOLEAN]
MigType == [at : {"idle", "read", "packed"}, of : Over(Bodies)]
Encoding == {"encoded", "uploaded", "swap", "version"}
ColdType == [at : {"idle", "gated", "choose", "delete", "forget"} \cup Encoding, part : Parts \cup {"none"},
             body : Bodies \cup {NoBody}, key : Keys]
Rewriting == {"copied", "replaced"}
Trims == {Kept(g, c) : g \in Gens, c \in Cuts}
SweepType == [at : {"idle", "read", "act", "drop"} \cup Rewriting, rows : Over(Rows), due : Over(Ages),
              oss : BOOLEAN, part : Parts \cup {"none"}, body : Bodies \cup {NoBody}]

Coherent(c) == c.at \in Encoding => c.part \in Parts /\ c.body \in {Raw(g) : g \in Gens}

States == {"new", "parsing", "failed", "stored", "done"}
Jobs == {"idle", "parse", "failing", "commit", "finish"}
StepNames == {"none", "todo", "moved", "written", "published", "uploaded", "settled"}
Contents == Bodies \cup {NoBody}

FileTypes ==
    /\ state \in States /\ raw \in BOOLEAN /\ job \in Jobs /\ step \in [Parts -> StepNames]
    /\ plan \in PlanType /\ (job \in {"parse", "failing"} => plan.gen \in Gens)
BodyTypes ==
    /\ local \in [Parts -> Contents] /\ marker \in [Parts -> Contents] /\ lock \subseteq Parts
StoreTypes ==
    /\ row \in [Parts -> Rows]
    /\ objects \subseteq Keys /\ retired \subseteq Keys /\ ready \subseteq retired
MigTypes == mig \in [Migrations -> MigType]
ColdTypes == cold \in ColdType /\ Coherent(cold)
SweepTypes ==
    /\ sweep \in SweepType /\ DOMAIN sweep.due = DOMAIN sweep.rows
    /\ sweep.at \in Rewriting \cup {"drop"} => sweep.part \in Parts
    /\ sweep.at \in Rewriting => sweep.body \in Trims
TimeTypes == age \in [Parts -> Ages] /\ ossOn \in BOOLEAN

Types == FileTypes /\ BodyTypes /\ StoreTypes /\ MigTypes /\ ColdTypes /\ SweepTypes /\ TimeTypes

(***************************************************************************)
(* The invariant.                                                           *)
(***************************************************************************)
InLane == job \in {"parse", "failing"}

\* Who can be where: migrations work on finished files, the cold compression
\* thread on files that are done.
Phases ==
    /\ InLane => state = "parsing"
    /\ job \in {"commit", "finish"} => state = "stored"
    /\ \A p \in Parts : ~InLane => step[p] \in {"none", "settled"}
    /\ \A p \in Parts : InLane /\ p \notin plan.keep => step[p] = "none"
    /\ \A m \in Migrations : mig[m].at # "idle" => Finished
    /\ cold.at # "idle" => state = "done" /\ job = "idle"
    /\ cold.at = "swap" => cold.part \in lock

\* A rewriting that was overtaken by an ingest writes the digest of the new body into
\* the row: the row had it already, as long as nobody has re-encoded the body since.
Written == {"published", "uploaded", "settled"}

RewritesAreCurrent ==
    LET p == sweep.part IN
    /\ sweep.at = "replaced" /\ (Finished \/ step[p] \in Written)
    /\ HasRow(p) /\ local[p].form = "raw"
    => row[p].sha.form = "raw"

\* The sweep trims a body further than it was, and what it writes is the only trimmed body.
CutsGrow ==
    /\ \A p \in DOMAIN sweep.due : sweep.due[p] > 0 => sweep.due[p] > row[p].cut
    /\ sweep.at \in Rewriting => sweep.body.cut > row[sweep.part].cut
    /\ sweep.at = "replaced" /\ local[sweep.part].form = "kept" => local[sweep.part] = sweep.body
    /\ \A p \in Parts : row[p].sha.cut <= row[p].cut

\* A part that has been re-encoded is not re-encoded again.
Begun == {"moved", "written"} \cup Written

ColdStays ==
    /\ \A p \in Parts : HasRow(p) /\ (local[p].form = "cold" \/ row[p].sha.form = "cold") => row[p].object.form = "cold"
    /\ \A p \in Parts : InLane /\ step[p] \in Begun => local[p].form # "cold"
    /\ cold.at \in {"swap", "version"} /\ HasRow(cold.part) => row[cold.part].object.form = "cold"

\* Packs come from migrations.  A row that names one is in it, and its body has
\* at most been trimmed or got colder since.
CameFrom(p, b) ==
    /\ row[p].sha.form = "raw" => b.form = "raw"
    /\ b.cut <= row[p].cut
    /\ b.form = "cold" => row[p].object.form = "cold"

PacksHoldTheirParts ==
    /\ \A p \in Parts : row[p].key.pack =>
          /\ Finished
          /\ \E b \in Bodies : <<p, b>> \in row[p].key.holds /\ CameFrom(p, b)
    /\ \A k \in retired : k # NoKey /\ (k.pack => Finished)
    /\ \A m \in Migrations : \A p \in DOMAIN mig[m].of :
          mig[m].at # "idle" /\ HasRow(p) => CameFrom(p, mig[m].of[p])

Dead(of) == \E p \in DOMAIN of : ~HasRow(p)

\* A body of before, that the row (or the disk) does not have now: it does not come back.
Outdated(p, b) == b.form # "cold" /\ b.cut <= row[p].cut
Apart(b, c) == IF b.form = "raw" THEN c.form # "raw" ELSE c # b

\* of can no longer be packed.
Spoiled(of) == \E p \in DOMAIN of : ~HasRow(p) \/ (Outdated(p, of[p]) /\ Apart(of[p], local[p]))

Swapping(p) == cold.at = "swap" /\ cold.part = p

PackIsPast(k) ==
    \E p \in Parts, b \in Bodies :
        <<p, b>> \in k.holds /\ (~HasRow(p) \/ (Outdated(p, b) /\ Apart(b, row[p].sha)))

ReadIsPast(of) ==
    \E p \in DOMAIN of : ~HasRow(p) \/ (Outdated(p, of[p]) /\ (Apart(of[p], local[p]) \/ Swapping(p)))

\* Why no migration points a row to a pack that has been retired: a part of the
\* pack has gone or has another body for good, or its body is just being swapped.
RetiredPacks ==
    /\ \A k \in retired : k.pack => PackIsPast(k)
    /\ \A m \in Migrations : mig[m].at = "read" /\ PackKey(mig[m].of) \in retired => ReadIsPast(mig[m].of)
    /\ \A m \in Migrations : mig[m].at = "read" /\ PackKey(mig[m].of) \in ready => Spoiled(mig[m].of)
    /\ \A m \in Migrations : mig[m].at = "packed" /\ PackKey(mig[m].of) \in ready => Dead(mig[m].of)

\* An object is there before a row names it; one about to be deleted is not named.
ObjectsExist ==
    /\ ReferencedObjectsExist
    /\ \A p \in Parts : step[p] = "uploaded" => PartKey(p, Body) \in objects
    /\ \A m \in Migrations : mig[m].at = "packed" => PackKey(mig[m].of) \in objects \/ Dead(mig[m].of)
    /\ cold.at = "uploaded" => NewKey \in objects
    /\ cold.at = "delete" => cold.key \in ready /\ \A p \in Parts : row[p].key # cold.key

IInv ==
    /\ Types /\ Phases /\ CutsGrow /\ ColdStays /\ RewritesAreCurrent
    /\ PacksHoldTheirParts /\ RetiredPacks /\ ObjectsExist

-----------------------------------------------------------------------------
(***************************************************************************)
(* Bodies, keys and rows.                                                   *)
(***************************************************************************)
LEMMA Forms ==
    /\ NoBody.form = "none" /\ NoBody \notin Bodies /\ NoBody.gen = 0 /\ NoBody.cut = 0
    /\ \A g \in Gens : Raw(g) \in Bodies /\ Cold(g) \in Bodies
    /\ \A g \in Gens : Raw(g).form = "raw" /\ Cold(g).form = "cold" /\ Raw(g).gen = g /\ Cold(g).gen = g
    /\ \A g \in Gens : Raw(g).cut = 0 /\ Cold(g).cut = 0
    /\ \A g \in Gens, c \in Cuts : /\ Kept(g, c) \in Bodies /\ Kept(g, c).form = "kept"
                                   /\ Kept(g, c).gen = g /\ Kept(g, c).cut = c
    /\ \A b \in Bodies : b.gen \in Gens /\ b.cut \in 0..MaxCuts /\ b.form \in {"raw", "cold", "kept"}
    /\ \A b \in Bodies : b.form # "kept" => b.cut = 0
    /\ \A b \in Bodies : b.form = "raw" => b \in {Raw(g) : g \in Gens}
    /\ \A g \in Gens, c \in Cuts : Kept(g, c) \in Trims
    /\ \A b \in Trims : b \in Bodies /\ b.form = "kept" /\ b.cut \in Cuts /\ b.gen \in Gens
<1>0. MaxCuts \in Nat /\ Cuts \subseteq 0..MaxCuts
    BY BoundsAssumption DEF Cuts
<1>1. \A b \in Bodies : (\E g \in Gens : b = Raw(g) \/ b = Cold(g)) \/ \E g \in Gens, c \in Cuts : b = Kept(g, c)
    BY DEF Bodies
<1>2. /\ \A g \in Gens : Raw(g) \in Bodies /\ Cold(g) \in Bodies
      /\ \A g \in Gens, c \in Cuts : Kept(g, c) \in Bodies
    BY DEF Bodies
<1>3. /\ \A g \in Gens : /\ Raw(g).form = "raw" /\ Cold(g).form = "cold" /\ Raw(g).gen = g /\ Cold(g).gen = g
                         /\ Raw(g).cut = 0 /\ Cold(g).cut = 0
      /\ \A g \in Gens, c \in Cuts : Kept(g, c).form = "kept" /\ Kept(g, c).gen = g /\ Kept(g, c).cut = c
    BY DEF Raw, Cold, Kept
<1>4. NoBody.form = "none" /\ NoBody.gen = 0 /\ NoBody.cut = 0
    BY DEF NoBody
<1>5. \A b \in Bodies : b.gen \in Gens /\ b.cut \in 0..MaxCuts /\ b.form \in {"raw", "cold", "kept"}
    BY <1>0, <1>1, <1>3
<1>6. \A b \in Bodies : (b.form # "kept" => b.cut = 0) /\ (b.form = "raw" => b \in {Raw(g) : g \in Gens})
    BY <1>1, <1>3
<1>7. /\ \A g \in Gens, c \in Cuts : Kept(g, c) \in Trims
      /\ \A b \in Trims : b \in Bodies /\ b.form = "kept" /\ b.cut \in Cuts /\ b.gen \in Gens
    BY <1>2, <1>3 DEF Trims
<1> QED BY <1>2, <1>3, <1>4, <1>5, <1>6, <1>7

LEMMA KeyTypes ==
    /\ NoKey \in Keys /\ ~NoKey.pack
    /\ \A p \in Parts, b \in Bodies : PartKey(p, b) \in Keys /\ PartKey(p, b) # NoKey /\ ~PartKey(p, b).pack
<1>1. ASSUME NEW p \in Parts, NEW b \in Bodies
      PROVE  PartKey(p, b) \in Keys /\ PartKey(p, b) # NoKey /\ ~PartKey(p, b).pack
    <2>1. <<p, b>> \in Parts \X Bodies /\ {<<p, b>>} # {}
        OBVIOUS
    <2> QED BY <2>1 DEF PartKey, NoKey, Keys
<1>2. NoKey \in Keys /\ ~NoKey.pack
    BY DEF NoKey, Keys
<1> QED BY <1>1, <1>2

LEMMA RowFields ==
    ASSUME NEW r \in Rows
    PROVE  /\ r \in RowType /\ r.sha \in Bodies \cup {NoBody} /\ r.object \in Bodies \cup {NoBody}
           /\ r.key \in Keys /\ r.cut \in 0..MaxCuts
           /\ r # NoRow => /\ r.sha \in Bodies /\ r.object \in Bodies /\ r \in FullRows
                           /\ r.object.form = "raw" \/ (r.object.form = "cold" /\ r.level9)
<1>1. CASE r = NoRow
    BY <1>1, KeyTypes, BoundsAssumption DEF NoRow, RowType
<1>2. CASE r \in FullRows /\ (r.object.form = "raw" \/ (r.object.form = "cold" /\ r.level9))
    BY <1>2 DEF RowType, FullRows
<1> QED BY <1>1, <1>2 DEF Rows

\* A row with other digests.
LEMMA FullRow ==
    ASSUME NEW r \in FullRows, r.object.form = "raw" \/ (r.object.form = "cold" /\ r.level9)
    PROVE  r \in Rows /\ r # NoRow
<1>1. r.sha \in Bodies
    BY DEF FullRows
<1> QED BY <1>1, Forms DEF Rows, NoRow

LEMMA KeptKeys ==
    ASSUME row \in [Parts -> Rows], NEW p \in Parts, NEW b
    PROVE  KeptKey(p, b) \in Keys /\ KeptKey(p, b) \in {row[p].key, NoKey} /\ (KeptKey(p, b) # NoKey => row[p].sha = b)
BY RowFields, KeyTypes DEF KeptKey

LEMMA IngestedRow ==
    ASSUME row \in [Parts -> Rows], NEW p \in Parts, NEW b \in Bodies, b.form = "raw"
    PROVE  /\ Ingested(p, b) \in Rows /\ Ingested(p, b) # NoRow /\ Ingested(p, b).sha = b
           /\ Ingested(p, b).object = b /\ Ingested(p, b).key = KeptKey(p, b) /\ Ingested(p, b).cut = 0
<1>1. KeptKey(p, b) \in Keys /\ 0 \in 0..MaxCuts /\ (row[p].sha = b /\ row[p].level9) \in BOOLEAN
    BY KeptKeys, BoundsAssumption
<1>2. /\ Ingested(p, b) \in FullRows /\ Ingested(p, b).object = b
      /\ Ingested(p, b).sha = b /\ Ingested(p, b).key = KeptKey(p, b) /\ Ingested(p, b).cut = 0
    BY <1>1 DEF Ingested, FullRows
<1> QED BY <1>2, FullRow

LEMMA RewrittenRow ==
    ASSUME row \in [Parts -> Rows], NEW p \in Parts, HasRow(p), NEW b \in Bodies, NEW c \in Cuts
    PROVE  /\ Rewritten(p, b, c) \in Rows /\ Rewritten(p, b, c) # NoRow /\ Rewritten(p, b, c).sha = b
           /\ Rewritten(p, b, c).object = row[p].object /\ Rewritten(p, b, c).key = KeptKey(p, b)
           /\ Rewritten(p, b, c).cut = c
<1>1. row[p] \in FullRows /\ (row[p].object.form = "raw" \/ (row[p].object.form = "cold" /\ row[p].level9))
    BY RowFields DEF HasRow
<1>2. KeptKey(p, b) \in Keys /\ c \in 0..MaxCuts
    BY KeptKeys, BoundsAssumption DEF Cuts
<1>3. /\ Rewritten(p, b, c) \in FullRows /\ Rewritten(p, b, c).sha = b
      /\ Rewritten(p, b, c).object = row[p].object /\ Rewritten(p, b, c).key = KeptKey(p, b)
      /\ Rewritten(p, b, c).cut = c /\ Rewritten(p, b, c).level9 = row[p].level9
    BY <1>1, <1>2 DEF Rewritten, FullRows
<1> QED BY <1>1, <1>3, FullRow

LEMMA MarkedRow ==
    ASSUME NEW r \in Rows, r # NoRow, NEW k \in Keys
    PROVE  /\ [r EXCEPT !.key = k] \in Rows /\ [r EXCEPT !.key = k] # NoRow
           /\ [r EXCEPT !.key = k].sha = r.sha /\ [r EXCEPT !.key = k].key = k
           /\ [r EXCEPT !.key = k].object = r.object /\ [r EXCEPT !.key = k].cut = r.cut
<1>1. r \in FullRows /\ (r.object.form = "raw" \/ (r.object.form = "cold" /\ r.level9))
    BY RowFields
<1>2. /\ [r EXCEPT !.key = k] \in FullRows /\ [r EXCEPT !.key = k].level9 = r.level9
      /\ [r EXCEPT !.key = k].sha = r.sha /\ [r EXCEPT !.key = k].key = k
      /\ [r EXCEPT !.key = k].object = r.object /\ [r EXCEPT !.key = k].cut = r.cut
    BY <1>1 DEF FullRows
<1> QED BY <1>1, <1>2, FullRow

LEMMA Maps ==
    ASSUME NEW S, NEW f \in Over(S)
    PROVE  DOMAIN f \subseteq Parts /\ \A p \in DOMAIN f : f[p] \in S
<1>1. PICK ps \in SUBSET Parts : f \in [ps -> S]
    BY DEF Over
<1> QED BY <1>1

LEMMA MapOf ==
    ASSUME NEW S, NEW ps \in SUBSET Parts, NEW f \in [ps -> S]
    PROVE  f \in Over(S)
BY DEF Over

\* A pack names its parts and their bodies.
LEMMA PackHolds ==
    ASSUME NEW of \in Over(Bodies)
    PROVE  /\ PackKey(of) \in Keys /\ PackKey(of).pack /\ PackKey(of) # NoKey
           /\ \A p \in Parts, b \in Bodies :
                <<p, b>> \in PackKey(of).holds <=> p \in DOMAIN of /\ of[p] = b
<1>1. DOMAIN of \subseteq Parts /\ \A p \in DOMAIN of : of[p] \in Bodies
    BY Maps
<1>2. {<<p, of[p]>> : p \in DOMAIN of} \in SUBSET (Parts \X Bodies)
    BY <1>1
<1>3. PackKey(of) \in Keys /\ PackKey(of).pack
    BY <1>2 DEF PackKey, Keys
<1>4. PackKey(of) # NoKey
    BY <1>3 DEF NoKey
<1>5. \A p \in Parts, b \in Bodies : <<p, b>> \in PackKey(of).holds <=> p \in DOMAIN of /\ of[p] = b
    BY DEF PackKey
<1> QED BY <1>3, <1>4, <1>5

\* Records with one field replaced.
LEMMA ColdFields ==
    ASSUME NEW c \in ColdType
    PROVE  /\ c.at \in {"idle", "gated", "choose", "delete", "forget"} \cup Encoding /\ c.part \in Parts \cup {"none"}
           /\ c.body \in Bodies \cup {NoBody} /\ c.key \in Keys
BY DEF ColdType

LEMMA SweepFields ==
    ASSUME NEW s \in SweepType
    PROVE  /\ s.at \in {"idle", "read", "act", "drop"} \cup Rewriting /\ s.rows \in Over(Rows) /\ s.due \in Over(Ages)
           /\ s.oss \in BOOLEAN /\ s.part \in Parts \cup {"none"} /\ s.body \in Bodies \cup {NoBody}
BY DEF SweepType

LEMMA MigFields ==
    ASSUME NEW g \in MigType
    PROVE  g.at \in {"idle", "read", "packed"} /\ g.of \in Over(Bodies)
BY DEF MigType

LEMMA EmptyMap ==
    ASSUME NEW S, NEW x
    PROVE  [p \in {} |-> x] \in Over(S) /\ DOMAIN [p \in {} |-> x] = {}
<1>1. [p \in {} |-> x] \in [{} -> S]
    OBVIOUS
<1> QED BY <1>1 DEF Over

LEMMA IdleTypes ==
    /\ IdlePlan \in PlanType /\ IdleMig \in MigType /\ IdleMig.at = "idle" /\ DOMAIN IdleMig.of = {}
    /\ IdleCold \in ColdType /\ IdleCold.at = "idle"
    /\ IdleSweep \in SweepType /\ IdleSweep.at = "idle" /\ DOMAIN IdleSweep.rows = {} /\ DOMAIN IdleSweep.due = {}
<1>1. IdleMig \in MigType /\ IdleMig.at = "idle" /\ DOMAIN IdleMig.of = {}
    BY EmptyMap DEF IdleMig, MigType
<1>2. IdleCold \in ColdType /\ IdleCold.at = "idle"
    BY KeyTypes DEF IdleCold, ColdType
<1>3. [p \in {} |-> NoRow] \in Over(Rows) /\ [p \in {} |-> 0] \in Over(Ages) /\ DOMAIN [p \in {} |-> NoRow] = {}
    BY EmptyMap
<1>4. /\ IdleSweep \in SweepType /\ IdleSweep.at = "idle"
      /\ DOMAIN IdleSweep.rows = {} /\ DOMAIN IdleSweep.due = {}
    BY <1>3 DEF IdleSweep, SweepType
<1>5. IdlePlan \in PlanType
    BY DEF IdlePlan, PlanType
<1> QED BY <1>1, <1>2, <1>4, <1>5

-----------------------------------------------------------------------------
(***************************************************************************)
(* Type correctness, by group of actions.                                   *)
(***************************************************************************)
LEMMA InitTypes == Init => Types
<1> SUFFICES ASSUME Init PROVE Types
    OBVIOUS
<1>1. FileTypes
    BY IdleTypes DEF Init, FileTypes, States, Jobs, StepNames
<1>2. BodyTypes
    BY DEF Init, BodyTypes, Contents
<1>3. StoreTypes
    BY DEF Init, StoreTypes, Rows
<1>4. MigTypes
    BY IdleTypes DEF Init, MigTypes
<1>5. ColdTypes /\ SweepTypes
    BY IdleTypes DEF Init, ColdTypes, SweepTypes, Coherent, Encoding, Rewriting
<1>6. TimeTypes
    BY SettingsAssumption, BoundsAssumption DEF Init, TimeTypes, Ages, Expired
<1> QED BY <1>1, <1>2, <1>3, <1>4, <1>5, <1>6 DEF Types

LEMMA DropTypes ==
    ASSUME BodyTypes, NEW p, Drop(p)
    PROVE  local' \in [Parts -> Contents] /\ marker' \in [Parts -> Contents]
BY DEF BodyTypes, Drop, Contents

LEMMA DeleteTypes ==
    ASSUME StoreTypes, NEW p \in Parts, DeletePart(p)
    PROVE  row' \in [Parts -> Rows] /\ retired' \subseteq Keys /\ ready' \subseteq retired'
<1>1. row[p].key \in Keys
    BY RowFields DEF StoreTypes
<1> QED BY <1>1 DEF StoreTypes, DeletePart, Retire, Rows

LEMMA LaneTypes ==
    ASSUME Types, Lane \/ \E p \in Parts : IngestFails(p)
    PROVE  Types'
<1>0. FileTypes /\ BodyTypes /\ StoreTypes /\ MigTypes /\ ColdTypes /\ SweepTypes /\ TimeTypes
    BY DEF Types
<1>1. UNCHANGED <<mig, cold, sweep, age, ossOn>>
    BY DEF Lane, IngestFails, Start, MoveBody, WriteVersion, Publish, Upload, UploadFails, Mark, Finalize,
           FailFile, Store, ResumeStored, DeleteRaw, Finish, envVars
<1>2. MigTypes' /\ ColdTypes' /\ SweepTypes' /\ TimeTypes'
    BY <1>0, <1>1 DEF MigTypes, ColdTypes, Coherent, SweepTypes, TimeTypes
<1>3. ASSUME job \in {"parse", "failing"}, NEW p \in Parts
      PROVE  /\ Body \in Contents /\ Ingested(p, Body) \in Rows /\ PartKey(p, Body) \in Keys
             /\ HasRow(p) => [row[p] EXCEPT !.key = PartKey(p, Body)] \in Rows
    <2>1. Body \in Bodies /\ Body.form = "raw"
        BY <1>0, <1>3, Forms DEF FileTypes, Body
    <2>2. PartKey(p, Body) \in Keys /\ Ingested(p, Body) \in Rows
        BY <1>0, <2>1, KeyTypes, IngestedRow DEF StoreTypes
    <2>3. HasRow(p) => [row[p] EXCEPT !.key = PartKey(p, Body)] \in Rows
        BY <1>0, <2>2, MarkedRow DEF StoreTypes, HasRow
    <2> QED BY <2>1, <2>2, <2>3 DEF Contents
<1>4. ASSUME NEW keep \in SUBSET Parts, NEW g \in Gens, NEW d \in BOOLEAN, Start(keep, g, d)
      PROVE  FileTypes' /\ BodyTypes' /\ StoreTypes'
    <2>1. plan' \in PlanType /\ plan'.gen = g
        BY <1>0, <1>4 DEF Start, PlanType, TimeTypes
    <2> QED BY <1>0, <1>4, <2>1 DEF Start, FileTypes, BodyTypes, StoreTypes, bodyVars, storeVars, States, Jobs, StepNames
<1>5. ASSUME NEW p \in Parts, MoveBody(p) \/ WriteVersion(p) \/ Publish(p)
      PROVE  FileTypes' /\ BodyTypes' /\ StoreTypes'
    <2>1. job = "parse" /\ UNCHANGED <<state, raw, job, plan, objects, retired, ready>>
        BY <1>5 DEF MoveBody, WriteVersion, Publish, storeVars
    <2>2. FileTypes'
        BY <1>0, <1>5, <2>1 DEF MoveBody, WriteVersion, Publish, FileTypes, StepNames
    <2>3. BodyTypes'
        BY <1>0, <1>3, <1>5, <2>1 DEF MoveBody, WriteVersion, Publish, BodyTypes, bodyVars
    <2>4. row' \in [Parts -> Rows]
        BY <1>0, <1>3, <1>5, <2>1 DEF MoveBody, WriteVersion, Publish, StoreTypes
    <2> QED BY <1>0, <2>1, <2>2, <2>3, <2>4 DEF StoreTypes
<1>6. ASSUME NEW p \in Parts, IngestFails(p)
      PROVE  FileTypes' /\ BodyTypes' /\ StoreTypes'
    <2>1. local' \in [Parts -> Contents] /\ marker' \in [Parts -> Contents]
        BY <1>0, <1>6, DropTypes DEF IngestFails
    <2> QED BY <1>0, <1>6, <2>1 DEF IngestFails, FileTypes, BodyTypes, StoreTypes, storeVars, Jobs, StepNames
<1>7. ASSUME NEW p \in Parts, Upload(p) \/ UploadFails(p) \/ Mark(p)
      PROVE  FileTypes' /\ BodyTypes' /\ StoreTypes'
    <2>1. job \in {"parse", "failing"} /\ UNCHANGED <<state, raw, plan, local, marker, lock, retired, ready>>
        BY <1>7 DEF Upload, UploadFails, Mark, bodyVars, storeVars
    <2>2. FileTypes' /\ BodyTypes'
        BY <1>0, <1>7, <2>1 DEF Upload, UploadFails, Mark, FileTypes, BodyTypes, Jobs, StepNames
    <2>3. objects' \subseteq Keys /\ row' \in [Parts -> Rows]
        BY <1>0, <1>3, <1>7, <2>1 DEF Upload, UploadFails, Mark, StoreTypes, storeVars
    <2> QED BY <1>0, <2>1, <2>2, <2>3 DEF StoreTypes
<1>8. ASSUME NEW p \in Parts, Finalize(p)
      PROVE  FileTypes' /\ BodyTypes' /\ StoreTypes'
    <2>1. /\ row' \in [Parts -> Rows] /\ retired' \subseteq Keys /\ ready' \subseteq retired'
          /\ local' \in [Parts -> Contents] /\ marker' \in [Parts -> Contents]
        BY <1>0, <1>8, DropTypes, DeleteTypes DEF Finalize
    <2> QED BY <1>0, <1>8, <2>1 DEF Finalize, FileTypes, BodyTypes, StoreTypes, fileVars
<1>9. ASSUME FailFile \/ Store \/ ResumeStored \/ DeleteRaw \/ Finish
      PROVE  FileTypes' /\ BodyTypes' /\ StoreTypes'
    <2>1. UNCHANGED <<row, local, marker, lock, objects, retired, ready>>
        BY <1>9 DEF FailFile, Store, ResumeStored, DeleteRaw, Finish, bodyVars, storeVars
    <2>2. plan' \in PlanType /\ job' \notin {"parse", "failing"}
        BY <1>0, <1>9 DEF FailFile, Store, ResumeStored, DeleteRaw, Finish, FileTypes, PlanType, TimeTypes
    <2>3. state' \in States /\ raw' \in BOOLEAN /\ job' \in Jobs /\ step' \in [Parts -> StepNames]
        BY <1>0, <1>9 DEF FailFile, Store, ResumeStored, DeleteRaw, Finish, FileTypes, States, Jobs, StepNames
    <2> QED BY <1>0, <2>1, <2>2, <2>3 DEF FileTypes, BodyTypes, StoreTypes
<1>10. FileTypes' /\ BodyTypes' /\ StoreTypes'
    <2>1. CASE \E keep \in SUBSET Parts \ {{}}, g \in Gens, d \in BOOLEAN : Start(keep, g, d)
        BY <1>4, <2>1
    <2> QED BY <1>5, <1>6, <1>7, <1>8, <1>9, <2>1 DEF Lane
<1> QED BY <1>2, <1>10 DEF Types

LEMMA MigrateTypes ==
    ASSUME Types, NEW m \in Migrations, Migrate(m)
    PROVE  Types'
<1>0. FileTypes /\ BodyTypes /\ StoreTypes /\ MigTypes /\ ColdTypes /\ SweepTypes /\ TimeTypes
    BY DEF Types
<1>1. /\ UNCHANGED <<fileVars, bodyVars, lock, cold, sweep, age, ossOn, retired, ready>>
      /\ FileTypes' /\ BodyTypes' /\ ColdTypes' /\ SweepTypes' /\ TimeTypes'
    <2>1. UNCHANGED <<fileVars, bodyVars, lock, cold, sweep, age, ossOn, retired, ready>>
        BY DEF Migrate, MigrateRead, MigratePack, MigrateMark, storeVars, envVars
    <2> QED BY <1>0, <2>1 DEF FileTypes, BodyTypes, ColdTypes, Coherent, SweepTypes, TimeTypes, fileVars, bodyVars
<1>2. mig[m].of \in Over(Bodies) /\ PackKey(mig[m].of) \in Keys
    BY <1>0, MigFields, PackHolds DEF MigTypes
<1>3. CASE MigrateRead(m)
    <2>1. [p \in Unarchived |-> row[p].sha] \in [Unarchived -> Bodies] /\ Unarchived \subseteq Parts
        BY <1>0, RowFields DEF StoreTypes, Unarchived, Listed, HasRow
    <2>2. [p \in Unarchived |-> row[p].sha] \in Over(Bodies)
        BY <2>1, MapOf
    <2>3. MigTypes'
        BY <1>0, <1>3, <2>2 DEF MigrateRead, MigTypes, MigType
    <2> QED BY <1>0, <1>1, <1>3, <2>3 DEF Types, MigrateRead, StoreTypes, storeVars
<1>4. CASE MigratePack(m)
    <2>1. [mig[m] EXCEPT !.at = "packed"] \in MigType
        BY <1>0 DEF MigTypes, MigType
    <2>2. MigTypes'
        BY <1>0, <1>4, <2>1, IdleTypes DEF MigratePack, MigTypes
    <2> QED BY <1>0, <1>1, <1>2, <1>4, <2>2 DEF Types, MigratePack, StoreTypes
<1>5. CASE MigrateMark(m)
    <2>1. MigTypes'
        BY <1>0, <1>5, IdleTypes DEF MigrateMark, MigTypes
    <2>2. \A p \in Parts : HasRow(p) => [row[p] EXCEPT !.key = PackKey(mig[m].of)] \in Rows
        BY <1>0, <1>2, MarkedRow DEF StoreTypes, HasRow
    <2>3. row' \in [Parts -> Rows]
        BY <1>0, <1>5, <2>2 DEF MigrateMark, StoreTypes, Listed
    <2> QED BY <1>0, <1>1, <1>5, <2>1, <2>3 DEF Types, MigrateMark, StoreTypes, storeVars
<1> QED BY <1>3, <1>4, <1>5 DEF Migrate

LEMMA ColdAt ==
    ASSUME NEW c \in ColdType, NEW a \in {"idle", "gated", "choose", "delete", "forget"} \cup Encoding
    PROVE  /\ [c EXCEPT !.at = a] \in ColdType /\ [c EXCEPT !.at = a].at = a
           /\ [c EXCEPT !.at = a].part = c.part /\ [c EXCEPT !.at = a].body = c.body /\ [c EXCEPT !.at = a].key = c.key
BY DEF ColdType

LEMMA EncodedBody ==
    ASSUME ColdTypes, cold.at \in Encoding
    PROVE  /\ cold.part \in Parts /\ cold.body \in Bodies /\ cold.body.form = "raw" /\ cold.body.gen \in Gens
           /\ Cold(cold.body.gen) \in Bodies /\ NewKey \in Keys /\ NewKey # NoKey /\ ~NewKey.pack
<1>1. cold.part \in Parts /\ \E g \in Gens : cold.body = Raw(g)
    BY DEF ColdTypes, Coherent
<1>2. cold.body \in Bodies /\ cold.body.form = "raw" /\ cold.body.gen \in Gens /\ Cold(cold.body.gen) \in Bodies
    BY <1>1, Forms
<1> QED BY <1>1, <1>2, KeyTypes DEF NewKey

\* The row that a re-encoding leaves.
LEMMA EncodedRow ==
    ASSUME row \in [Parts -> Rows], ColdTypes, cold.at \in Encoding, row[cold.part].object = cold.body
    PROVE  /\ HasRow(cold.part) /\ Encoded \in Rows /\ Encoded # NoRow
           /\ Encoded.sha = Cold(cold.body.gen) /\ Encoded.object = Cold(cold.body.gen)
           /\ Encoded.key = NewKey /\ Encoded.cut = row[cold.part].cut
<1>1. /\ cold.part \in Parts /\ cold.body \in Bodies /\ Cold(cold.body.gen) \in Bodies /\ NewKey \in Keys
      /\ Cold(cold.body.gen).form = "cold"
    BY EncodedBody, Forms
<1>2. HasRow(cold.part)
    BY <1>1, Forms DEF HasRow, NoRow
<1>3. row[cold.part] \in FullRows
    BY <1>1, <1>2, RowFields DEF HasRow
<1>4. /\ Encoded \in FullRows /\ Encoded.level9 = TRUE /\ Encoded.cut = row[cold.part].cut
      /\ Encoded.sha = Cold(cold.body.gen) /\ Encoded.object = Cold(cold.body.gen) /\ Encoded.key = NewKey
    BY <1>1, <1>3 DEF Encoded, FullRows
<1> QED BY <1>1, <1>2, <1>4, FullRow

LEMMA ColdThreadTypes ==
    ASSUME Types, ColdThread
    PROVE  Types'
<1>0. FileTypes /\ BodyTypes /\ StoreTypes /\ MigTypes /\ ColdTypes /\ SweepTypes /\ TimeTypes
    BY DEF Types
<1> DEFINE Waits == {"idle", "gated", "choose", "delete", "forget"}
<1>1. /\ UNCHANGED <<fileVars, mig, sweep, age, ossOn>>
      /\ FileTypes' /\ MigTypes' /\ SweepTypes' /\ TimeTypes'
    <2>1. UNCHANGED <<fileVars, mig, sweep, age, ossOn>>
        BY DEF ColdThread, ColdGate, PickRetired, NoRetired, DeleteObject, ForgetRetired, ColdCopy, ColdIdle, ColdUpload,
               ColdCommit, ColdSwap, ColdVersion, envVars
    <2> QED BY <1>0, <2>1 DEF FileTypes, MigTypes, SweepTypes, TimeTypes, fileVars
<1>2. cold \in ColdType /\ \A a \in Waits : [cold EXCEPT !.at = a] \in ColdType /\ [cold EXCEPT !.at = a].at = a
    BY <1>0, ColdAt DEF ColdTypes
<1>3. ASSUME NEW a \in Waits, cold' = [cold EXCEPT !.at = a] PROVE ColdTypes'
    BY <1>2, <1>3 DEF ColdTypes, Coherent, Encoding
<1>4. ASSUME cold' = IdleCold PROVE ColdTypes'
    BY <1>4, IdleTypes DEF ColdTypes, Coherent, Encoding
<1>5. CASE ColdGate \/ NoRetired \/ ColdIdle
    BY <1>0, <1>1, <1>3, <1>4, <1>5
       DEF Types, ColdGate, NoRetired, ColdIdle, BodyTypes, StoreTypes, bodyVars, storeVars
<1>6. ASSUME NEW k \in ready, PickRetired(k) PROVE Types'
    <2>1. k \in Keys
        BY <1>0 DEF StoreTypes
    <2>2. cold' \in ColdType /\ cold'.at = "delete"
        BY <1>2, <1>6, <2>1 DEF PickRetired, ColdType
    <2> QED BY <1>0, <1>1, <1>6, <2>2
            DEF Types, PickRetired, ColdTypes, Coherent, Encoding, BodyTypes, StoreTypes, bodyVars, storeVars
<1>7. CASE DeleteObject
    BY <1>0, <1>1, <1>3, <1>7 DEF Types, DeleteObject, BodyTypes, StoreTypes, bodyVars
<1>8. CASE ForgetRetired
    <2>1. [IdleCold EXCEPT !.at = "choose"] \in ColdType /\ [IdleCold EXCEPT !.at = "choose"].at = "choose"
        BY IdleTypes, ColdAt
    <2>2. ColdTypes'
        BY <1>8, <2>1 DEF ForgetRetired, ColdTypes, Coherent, Encoding
    <2> QED BY <1>0, <1>1, <1>8, <2>2 DEF Types, ForgetRetired, BodyTypes, StoreTypes, bodyVars
<1>9. ASSUME NEW p \in Parts, ColdCopy(p) PROVE Types'
    <2>1. row[p].object \in {Raw(g) : g \in Gens}
        <3>1. row[p] # NoRow /\ ~row[p].level9
            BY <1>9 DEF ColdCopy, Candidate, Archived, NoRow
        <3>2. row[p].object \in Bodies /\ row[p].object.form = "raw"
            BY <1>0, <3>1, RowFields DEF StoreTypes
        <3> QED BY <3>2, Forms
    <2>2. cold' \in ColdType /\ cold'.part = p /\ cold'.body = row[p].object
        <3>1. cold' = [cold EXCEPT !.at = "encoded", !.part = p, !.body = row[p].object]
            BY <1>9 DEF ColdCopy
        <3>2. row[p].object \in Bodies
            BY <2>1, Forms
        <3> QED BY <1>2, <3>1, <3>2 DEF ColdType, Encoding
    <2> QED BY <1>0, <1>1, <1>9, <2>1, <2>2
            DEF Types, ColdCopy, ColdTypes, Coherent, BodyTypes, StoreTypes, bodyVars, storeVars
<1>10. ASSUME cold.at \in Encoding, NEW a \in Encoding, cold' = [cold EXCEPT !.at = a] PROVE ColdTypes'
    BY <1>0, <1>10, ColdAt DEF ColdTypes, Coherent
<1>11. CASE ColdUpload
    <2>1. NewKey \in Keys
        BY <1>0, <1>11, EncodedBody DEF ColdUpload, Encoding
    <2> QED BY <1>0, <1>1, <1>10, <1>11, <2>1 DEF Types, ColdUpload, Encoding, BodyTypes, StoreTypes, bodyVars
<1>12. CASE ColdCommit
    <2>1. cold.part \in Parts /\ Cold(cold.body.gen) \in Bodies /\ NewKey \in Keys
        BY <1>0, <1>12, EncodedBody DEF ColdCommit, Encoding
    <2>2. CASE row[cold.part].object = cold.body
        <3>1. row[cold.part].key \in Keys /\ Encoded \in Rows
            BY <1>0, <1>12, <2>1, <2>2, EncodedRow, RowFields DEF StoreTypes, ColdCommit, Encoding
        <3>2. StoreTypes' /\ BodyTypes'
            BY <1>0, <1>12, <2>1, <2>2, <3>1 DEF ColdCommit, Retire, StoreTypes, BodyTypes, bodyVars
        <3> QED BY <1>1, <1>10, <1>12, <2>2, <3>2 DEF Types, ColdCommit, Encoding
    <2>3. CASE row[cold.part].object # cold.body
        BY <1>0, <1>1, <1>4, <1>12, <2>3 DEF Types, ColdCommit, StoreTypes, BodyTypes, bodyVars
    <2> QED BY <2>2, <2>3
<1>13. CASE ColdSwap
    <2>1. cold.part \in Parts /\ Cold(cold.body.gen) \in Contents
        BY <1>0, <1>13, EncodedBody DEF ColdSwap, Encoding, Contents
    <2> QED BY <1>0, <1>1, <1>10, <1>13, <2>1 DEF Types, ColdSwap, Encoding, BodyTypes, StoreTypes, storeVars
<1>14. CASE ColdVersion
    <2>1. cold.part \in Parts /\ Cold(cold.body.gen) \in Contents
        BY <1>0, <1>14, EncodedBody DEF ColdVersion, Encoding, Contents
    <2>2. marker' \in [Parts -> Contents]
        BY <1>0, <1>14, <2>1 DEF ColdVersion, BodyTypes, Contents
    <2> QED BY <1>0, <1>1, <1>4, <1>14, <2>2 DEF Types, ColdVersion, BodyTypes, StoreTypes, storeVars
<1> QED BY <1>5, <1>6, <1>7, <1>8, <1>9, <1>11, <1>12, <1>13, <1>14 DEF ColdThread

LEMMA PastTypes ==
    ASSUME SweepTypes, NEW p
    PROVE  /\ Past(p) \in SweepType /\ Past(p).at \in {"idle", "act"}
           /\ DOMAIN Past(p).rows \subseteq DOMAIN sweep.rows \ {p} /\ DOMAIN Past(p).due = DOMAIN Past(p).rows
           /\ \A q \in DOMAIN Past(p).rows : Past(p).due[q] = sweep.due[q]
<1> DEFINE rest == DOMAIN sweep.rows \ {p}
           rows == [q \in rest |-> sweep.rows[q]]
           due == [q \in rest |-> sweep.due[q]]
<1>1. CASE rest = {}
    <2>1. Past(p) = IdleSweep
        BY <1>1 DEF Past
    <2> QED BY <2>1, IdleTypes
<1>2. CASE rest # {}
    <2>1. rest \subseteq Parts /\ \A q \in rest : sweep.rows[q] \in Rows /\ sweep.due[q] \in Ages
        BY SweepFields, Maps DEF SweepTypes
    <2>2. rows \in [rest -> Rows] /\ due \in [rest -> Ages]
        BY <2>1
    <2>3. rows \in Over(Rows) /\ due \in Over(Ages)
        <3> HIDE DEF rest, rows, due
        <3> QED BY <2>1, <2>2, MapOf
    <2>4. Past(p) = [sweep EXCEPT !.at = "act", !.rows = rows, !.due = due, !.part = "none", !.body = NoBody]
        BY <1>2 DEF Past
    <2>5. Past(p) \in SweepType /\ Past(p).at = "act" /\ Past(p).rows = rows /\ Past(p).due = due
        <3> HIDE DEF rows, due
        <3> QED BY <2>3, <2>4 DEF SweepTypes, SweepType
    <2>6. DOMAIN rows = rest /\ DOMAIN due = rest /\ \A q \in rest : due[q] = sweep.due[q]
        OBVIOUS
    <2> QED BY <2>5, <2>6
<1> QED BY <1>1, <1>2

LEMMA SweepOver ==
    ASSUME SweepTypes, NEW p, sweep' = Past(p)
    PROVE  SweepTypes'
BY PastTypes DEF SweepTypes, Rewriting

LEMMA SweepActTypes ==
    ASSUME Types, Sweep
    PROVE  Types'
<1>0. FileTypes /\ BodyTypes /\ StoreTypes /\ MigTypes /\ ColdTypes /\ SweepTypes /\ TimeTypes
    BY DEF Types
<1>1. /\ UNCHANGED <<fileVars, mig, cold, age, ossOn, lock, objects>>
      /\ FileTypes' /\ MigTypes' /\ ColdTypes' /\ TimeTypes'
    <2>1. UNCHANGED <<fileVars, mig, cold, age, ossOn, lock, objects>>
        BY DEF Sweep, SweepRead, SweepFilter, SweepEnd, SweepDrop, SweepReplace, SweepUpdate, SweepExpired,
               SweepMissing, SweepCopy, envVars, storeVars
    <2> QED BY <1>0, <2>1 DEF FileTypes, MigTypes, ColdTypes, Coherent, TimeTypes, fileVars
<1>2. sweep \in SweepType /\ DOMAIN sweep.due = DOMAIN sweep.rows
    BY <1>0 DEF SweepTypes
<1>3. CASE SweepRead
    <2> DEFINE rows == [p \in Listed |-> row[p]]
               due == [p \in Listed |-> Due(p)]
    <2>1. rows \in [Listed -> Rows] /\ due \in [Listed -> Ages] /\ Listed \subseteq Parts
        BY <1>0, BoundsAssumption DEF StoreTypes, TimeTypes, Listed, Due, Ages, Expired
    <2>2. rows \in Over(Rows) /\ due \in Over(Ages) /\ DOMAIN rows = DOMAIN due
        <3>1. rows \in Over(Rows) /\ due \in Over(Ages)
            <4> HIDE DEF rows, due
            <4> QED BY <2>1, MapOf
        <3> QED BY <3>1
    <2>3. sweep' = [sweep EXCEPT !.at = "read", !.oss = ossOn, !.rows = rows, !.due = due]
        BY <1>3 DEF SweepRead
    <2>4. SweepTypes'
        <3> HIDE DEF rows, due
        <3> QED BY <1>0, <1>2, <2>2, <2>3 DEF SweepTypes, SweepType, TimeTypes, Rewriting
    <2> QED BY <1>0, <1>1, <1>3, <2>4 DEF Types, SweepRead, BodyTypes, StoreTypes, bodyVars, storeVars
<1>4. CASE SweepFilter
    <2> DEFINE acted == {p \in DOMAIN sweep.rows : ActedOn(p)}
               rows == [p \in acted |-> sweep.rows[p]]
               due == [p \in acted |-> sweep.due[p]]
    <2>1. acted \subseteq Parts /\ \A p \in acted : sweep.rows[p] \in Rows /\ sweep.due[p] \in Ages
        BY <1>0, SweepFields, Maps DEF SweepTypes
    <2>2. rows \in Over(Rows) /\ due \in Over(Ages) /\ DOMAIN rows = DOMAIN due
        <3>1. rows \in [acted -> Rows] /\ due \in [acted -> Ages]
            BY <2>1
        <3>2. rows \in Over(Rows) /\ due \in Over(Ages)
            <4> HIDE DEF rows, due, acted
            <4> QED BY <2>1, <3>1, MapOf
        <3> QED BY <3>2
    <2>3. sweep' = [sweep EXCEPT !.at = "act", !.rows = rows, !.due = due]
        BY <1>4 DEF SweepFilter
    <2>4. SweepTypes'
        <3> HIDE DEF rows, due
        <3> QED BY <1>0, <1>2, <2>2, <2>3 DEF SweepTypes, SweepType, Rewriting
    <2>5. marker' \in [Parts -> Contents]
        BY <1>0, <1>4 DEF SweepFilter, BodyTypes, Contents
    <2> QED BY <1>0, <1>1, <1>4, <2>4, <2>5 DEF Types, SweepFilter, BodyTypes, StoreTypes, storeVars
<1>5. CASE SweepEnd
    <2>1. SweepTypes'
        BY <1>5, IdleTypes DEF SweepEnd, SweepTypes, Rewriting
    <2> QED BY <1>0, <1>1, <1>5, <2>1 DEF Types, SweepEnd, BodyTypes, StoreTypes, bodyVars, storeVars
<1>6. CASE SweepDrop
    <2>1. sweep.part \in Parts
        BY <1>0, <1>6 DEF SweepDrop, SweepTypes
    <2>2. SweepTypes' /\ row' \in [Parts -> Rows] /\ retired' \subseteq Keys /\ ready' \subseteq retired'
        BY <1>0, <1>6, <2>1, SweepOver, DeleteTypes DEF SweepDrop
    <2> QED BY <1>0, <1>1, <1>6, <2>2 DEF Types, SweepDrop, BodyTypes, StoreTypes, bodyVars
<1>7. CASE SweepReplace
    <2>1. sweep.part \in Parts /\ sweep.body \in Contents
        BY <1>0, <1>7, Forms DEF SweepReplace, SweepTypes, Rewriting, Contents
    <2>2. SweepTypes'
        BY <1>0, <1>2, <1>7, <2>1 DEF SweepReplace, SweepTypes, SweepType, Rewriting
    <2> QED BY <1>0, <1>1, <1>7, <2>1, <2>2 DEF Types, SweepReplace, BodyTypes, StoreTypes, storeVars
<1>8. CASE SweepUpdate
    <2>1. sweep.part \in Parts
        BY <1>0, <1>8 DEF SweepUpdate, SweepTypes, Rewriting
    <2>2. local[sweep.part] # NoBody /\ HasRow(sweep.part) =>
              Rewritten(sweep.part, local[sweep.part], sweep.body.cut) \in Rows
        BY <1>0, <1>8, <2>1, RewrittenRow, Forms DEF BodyTypes, StoreTypes, Contents, SweepUpdate, SweepTypes, Rewriting
    <2>3. SweepTypes' /\ row' \in [Parts -> Rows]
        BY <1>0, <1>8, <2>1, <2>2, SweepOver DEF SweepUpdate, StoreTypes
    <2> QED BY <1>0, <1>1, <1>8, <2>3 DEF Types, SweepUpdate, BodyTypes, StoreTypes, bodyVars, storeVars
<1>9. ASSUME NEW p \in Parts, SweepExpired(p) PROVE Types'
    <2>1. /\ SweepTypes' /\ row' \in [Parts -> Rows] /\ retired' \subseteq Keys /\ ready' \subseteq retired'
          /\ local' \in [Parts -> Contents] /\ marker' \in [Parts -> Contents]
        BY <1>0, <1>9, SweepOver, DeleteTypes, DropTypes DEF SweepExpired
    <2> QED BY <1>0, <1>1, <1>9, <2>1 DEF Types, SweepExpired, BodyTypes, StoreTypes
<1>10. ASSUME NEW p \in Parts, SweepMissing(p) PROVE Types'
    <2>1. CASE sweep' = Past(p)
        BY <1>0, <1>1, <1>10, <2>1, SweepOver DEF Types, SweepMissing, BodyTypes, StoreTypes, storeVars, Contents
    <2>2. CASE sweep' = [sweep EXCEPT !.at = "drop", !.part = p]
        <3>1. SweepTypes'
            BY <1>2, <2>2 DEF SweepTypes, SweepType, Rewriting
        <3> QED BY <1>0, <1>1, <1>10, <3>1 DEF Types, SweepMissing, BodyTypes, StoreTypes, storeVars, Contents
    <2> QED BY <1>10, <2>1, <2>2 DEF SweepMissing
<1>11. ASSUME NEW p \in Parts, SweepCopy(p) PROVE Types'
    <2>1. CASE sweep' = Past(p)
        BY <1>0, <1>1, <1>11, <2>1, SweepOver DEF Types, SweepCopy, BodyTypes, StoreTypes, bodyVars, storeVars
    <2>2. ASSUME sweep.due[p] # 0,
                 sweep' = [sweep EXCEPT !.at = "copied", !.part = p, !.body = Kept(local[p].gen, sweep.due[p])]
          PROVE  Types'
        <3>1. local[p].gen \in Gens /\ sweep.due[p] \in Cuts
            <4>1. sweep.due[p] \in Ages /\ sweep.due[p] # Expired
                BY <1>0, <1>2, <1>11, SweepFields, Maps DEF SweepCopy
            <4>2. sweep.due[p] \in Cuts
                BY <2>2, <4>1, BoundsAssumption DEF Ages, Cuts, Expired
            <4>3. local[p] \in Bodies
                BY <1>0, <1>11 DEF SweepCopy, BodyTypes, Contents
            <4> QED BY <4>2, <4>3, Forms
        <3>2. Kept(local[p].gen, sweep.due[p]) \in Bodies
            BY <3>1, Forms
        <3>3. SweepTypes'
            BY <1>2, <2>2, <3>1, <3>2, Forms DEF SweepTypes, SweepType, Rewriting
        <3> QED BY <1>0, <1>1, <1>11, <3>3 DEF Types, SweepCopy, BodyTypes, StoreTypes, bodyVars, storeVars
    <2> QED BY <1>11, <2>1, <2>2 DEF SweepCopy
<1> QED BY <1>3, <1>4, <1>5, <1>6, <1>7, <1>8, <1>9, <1>10, <1>11 DEF Sweep

LEMMA OtherTypes ==
    ASSUME Types, \/ \E p \in Parts : Release(p) \/ Age(p)
                  \/ \E k \in retired : GraceEnds(k)
                  \/ EnableOss \/ Crash \/ UNCHANGED vars
    PROVE  Types'
<1>0. FileTypes /\ BodyTypes /\ StoreTypes /\ MigTypes /\ ColdTypes /\ SweepTypes /\ TimeTypes
    BY DEF Types
<1>1. ASSUME NEW p \in Parts, Release(p) PROVE Types'
    <2>1. local' \in [Parts -> Contents] /\ marker' \in [Parts -> Contents]
        BY <1>0, <1>1, DropTypes DEF Release
    <2> QED BY <1>0, <1>1, <2>1 DEF Types, Release, FileTypes, BodyTypes, StoreTypes, MigTypes, ColdTypes, Coherent,
                                SweepTypes, TimeTypes, fileVars, storeVars, envVars
<1>2. ASSUME NEW p \in Parts, Age(p) PROVE Types'
    <2>1. age' \in [Parts -> Ages]
        BY <1>0, <1>2, BoundsAssumption DEF Age, TimeTypes, Ages, Expired
    <2> QED BY <1>0, <1>2, <2>1 DEF Types, Age, FileTypes, BodyTypes, StoreTypes, MigTypes, ColdTypes, Coherent,
                                SweepTypes, TimeTypes, fileVars, bodyVars, storeVars
<1>3. ASSUME NEW k \in retired, GraceEnds(k) PROVE Types'
    BY <1>0, <1>3 DEF Types, GraceEnds, FileTypes, BodyTypes, StoreTypes, MigTypes, ColdTypes, Coherent,
                      SweepTypes, TimeTypes, fileVars, bodyVars, envVars
<1>4. CASE EnableOss \/ UNCHANGED vars
    BY <1>0, <1>4 DEF Types, EnableOss, vars, FileTypes, BodyTypes, StoreTypes, MigTypes, ColdTypes, Coherent,
                      SweepTypes, TimeTypes, fileVars, bodyVars, storeVars, envVars
<1>5. CASE Crash
    <2>1. FileTypes' /\ BodyTypes' /\ StoreTypes' /\ TimeTypes'
        BY <1>0, <1>5 DEF Crash, FileTypes, BodyTypes, StoreTypes, TimeTypes, bodyVars, storeVars, Jobs, StepNames
    <2>2. MigTypes' /\ ColdTypes' /\ SweepTypes'
        BY <1>0, <1>5, IdleTypes DEF Crash, MigTypes, ColdTypes, Coherent, SweepTypes, Encoding, Rewriting
    <2> QED BY <2>1, <2>2 DEF Types
<1> QED BY <1>1, <1>2, <1>3, <1>4, <1>5

LEMMA TypesNext == Types /\ [Next]_vars => Types'
BY LaneTypes, MigrateTypes, ColdThreadTypes, SweepActTypes, OtherTypes DEF Next

LEMMA TypesGive == Types => TypeOK
<1>1. StoreTypes => row \in [Parts -> RowType]
    BY RowFields DEF StoreTypes
<1> QED BY <1>1 DEF Types, TypeOK, FileTypes, BodyTypes, StoreTypes, States, Jobs, StepNames, Contents

-----------------------------------------------------------------------------
(***************************************************************************)
(* Phases.                                                                  *)
(***************************************************************************)
\* The lane stops for the cold compression thread, and does not write any more
\* when a file is finished.
LEMMA LanePhases ==
    ASSUME Types, Phases, Lane \/ \E p \in Parts : IngestFails(p)
    PROVE  Phases' /\ cold.at = "idle" /\ (Finished => Finished' /\ UNCHANGED <<row, local, lock, storeVars>>)
<1>0. /\ step \in [Parts -> StepNames] /\ plan \in PlanType
      /\ \A p \in Parts : step[p] \in StepNames
    BY DEF Types, FileTypes
<1>1. /\ UNCHANGED <<mig, cold>>
      /\ cold.at = "idle"
    BY DEF Lane, IngestFails, Start, MoveBody, WriteVersion, Publish, Upload, UploadFails, Mark, Finalize,
           FailFile, Store, ResumeStored, DeleteRaw, Finish, Parsed, Phases
<1> DEFINE Good == /\ InLane' => state' = "parsing"
                   /\ job' \in {"commit", "finish"} => state' = "stored"
                   /\ \A p \in Parts : ~InLane' => step'[p] \in {"none", "settled"}
                   /\ \A p \in Parts : InLane' /\ p \notin plan'.keep => step'[p] = "none"
                   /\ Finished => Finished' /\ UNCHANGED <<row, local, lock, storeVars>>
<1>2. Good => Phases' /\ (Finished => Finished' /\ UNCHANGED <<row, local, lock, storeVars>>)
    BY <1>1 DEF Phases
<1>3. ASSUME NEW keep \in SUBSET Parts, NEW g \in Gens, NEW d \in BOOLEAN, Start(keep, g, d) PROVE Good
    BY <1>0, <1>3 DEF Start, Finished, InLane
<1>4. ASSUME NEW p \in Parts, MoveBody(p) \/ WriteVersion(p) PROVE Good
    BY <1>0, <1>4 DEF MoveBody, WriteVersion, Finished, InLane, Phases, storeVars
<1>5. ASSUME NEW p \in Parts, Publish(p) \/ IngestFails(p) PROVE Good
    BY <1>0, <1>5 DEF Publish, IngestFails, Finished, InLane, Phases
<1>6. ASSUME NEW p \in Parts, Upload(p) \/ UploadFails(p) \/ Mark(p) PROVE Good
    BY <1>0, <1>6 DEF Upload, UploadFails, Mark, Finished, InLane, Phases
<1>7. ASSUME NEW p \in Parts, Finalize(p) PROVE Good
    BY <1>0, <1>7 DEF Finalize, Parsed, Finished, InLane, Phases, fileVars
<1>8. ASSUME FailFile PROVE Good
    BY <1>0, <1>8 DEF FailFile, Finished, InLane, Phases
<1>9. ASSUME Store PROVE Good
    <2>1. \A p \in Parts : step[p] \in {"none", "settled"}
        BY <1>9 DEF Store, Parsed, Phases, InLane
    <2>2. ~Finished
        BY <1>9 DEF Store, Parsed, Phases, InLane, Finished
    <2> QED BY <1>9, <2>1, <2>2 DEF Store, InLane
<1>10. ASSUME ResumeStored \/ DeleteRaw PROVE Good
    BY <1>0, <1>10 DEF ResumeStored, DeleteRaw, Finished, InLane, Phases, storeVars, bodyVars
<1>11. ASSUME Finish PROVE Good
    BY <1>0, <1>11 DEF Finish, Finished, InLane, Phases, storeVars, bodyVars
<1>12. Good
    <2>1. CASE \E keep \in SUBSET Parts \ {{}}, g \in Gens, d \in BOOLEAN : Start(keep, g, d)
        BY <1>3, <2>1
    <2> HIDE DEF Good
    <2> QED BY <1>4, <1>5, <1>6, <1>7, <1>8, <1>9, <1>10, <1>11, <2>1 DEF Lane
<1> QED BY <1>1, <1>2, <1>12

\* What only the lane writes.
LEMMA LaneOnly ==
    ASSUME [Next]_vars, ~Lane, ~\E p \in Parts : IngestFails(p)
    PROVE  UNCHANGED <<state, plan>> /\ (UNCHANGED <<job, step>> \/ Crash)
BY DEF Next, vars, ColdThread, ColdGate, PickRetired, NoRetired, DeleteObject, ForgetRetired, ColdCopy, ColdIdle,
       ColdUpload, ColdCommit, ColdSwap, ColdVersion, Migrate, MigrateRead, MigratePack, MigrateMark, Release, Age,
       Sweep, SweepRead, SweepFilter, SweepEnd, SweepDrop, SweepReplace, SweepUpdate, SweepExpired, SweepMissing,
       SweepCopy, GraceEnds, EnableOss, Crash, fileVars

LEMMA PhasesNext ==
    ASSUME Types, Phases, [Next]_vars
    PROVE  Phases' /\ (Finished => Finished')
<1> DEFINE MyLane == Lane \/ \E p \in Parts : IngestFails(p)
<1>1. CASE MyLane
    BY <1>1, LanePhases
<1>2. CASE Crash
    <2>1. /\ job' = "idle" /\ step' = [p \in Parts |-> "none"] /\ state' = state
          /\ cold'.at = "idle" /\ \A m \in Migrations : mig'[m].at = "idle"
        BY <1>2, IdleTypes DEF Crash
    <2> QED BY <2>1 DEF Phases, InLane, Finished
<1>3. CASE ~MyLane /\ ~Crash
    <2>1. UNCHANGED <<state, plan, job, step>>
        BY <1>3, LaneOnly
    <2>2. \A m \in Migrations : mig'[m].at # "idle" => Finished
        <3>1. ASSUME NEW m \in Migrations, Migrate(m) PROVE \A n \in Migrations : mig'[n].at # "idle" => Finished
            <4>1. Finished
                BY <3>1, MigFields DEF Migrate, MigrateRead, MigratePack, MigrateMark, Unarchived, Phases
            <4> QED BY <4>1
        <3>2. CASE mig' = mig
            BY <3>2 DEF Phases
        <3> QED BY <1>3, <3>1, <3>2
                DEF Next, vars, ColdThread, ColdGate, PickRetired, NoRetired, DeleteObject, ForgetRetired, ColdCopy,
                    ColdIdle, ColdUpload, ColdCommit, ColdSwap, ColdVersion, Release, Age, Sweep, SweepRead, SweepFilter,
                    SweepEnd, SweepDrop, SweepReplace, SweepUpdate, SweepExpired, SweepMissing, SweepCopy, GraceEnds,
                    EnableOss
    <2>3. /\ cold'.at # "idle" => state = "done" /\ job = "idle"
          /\ cold'.at = "swap" => cold'.part \in lock'
        <3>1. CASE ColdThread
            <4>1. cold \in ColdType
                BY DEF Types, ColdTypes
            <4>2. CASE cold.at = "idle"
                BY <3>1, <4>1, <4>2, ColdAt DEF ColdThread, ColdGate, Gate, PickRetired, NoRetired, DeleteObject,
                   ForgetRetired, ColdCopy, ColdIdle, ColdUpload, ColdCommit, ColdSwap, ColdVersion
            <4>3. CASE cold.at # "idle"
                <5>1. cold'.at = "swap" => cold'.part \in lock'
                    <6>1. CASE ColdCommit
                        BY <4>1, <6>1, IdleTypes DEF ColdCommit, ColdType
                    <6>2. CASE ~ColdCommit
                        <7>1. cold'.at # "swap"
                            BY <3>1, <4>1, <6>2, IdleTypes DEF ColdThread, ColdGate, PickRetired, NoRetired, DeleteObject,
                               ForgetRetired, ColdCopy, ColdIdle, ColdUpload, ColdSwap, ColdVersion, ColdType, IdleCold
                        <7> QED BY <7>1
                    <6> QED BY <6>1, <6>2
                <5> QED BY <4>3, <5>1 DEF Phases
            <4> QED BY <4>2, <4>3
        <3>2. CASE cold' = cold /\ lock' = lock
            BY <3>2 DEF Phases
        <3> QED BY <1>3, <3>1, <3>2
                DEF Next, vars, Migrate, MigrateRead, MigratePack, MigrateMark, Release, Age, Sweep, SweepRead,
                    SweepFilter, SweepEnd, SweepDrop, SweepReplace, SweepUpdate, SweepExpired, SweepMissing, SweepCopy,
                    GraceEnds, EnableOss
    <2> QED BY <2>1, <2>2, <2>3 DEF Phases, InLane, Finished
<1> QED BY <1>1, <1>2, <1>3

-----------------------------------------------------------------------------
(***************************************************************************)
(* What the steps do to rows, retired keys and bodies.                      *)
(***************************************************************************)
MyLane == Lane \/ \E p \in Parts : IngestFails(p)

Marks(m) == MigrateMark(m) /\ DOMAIN mig[m].of \subseteq Listed

Commits == ColdCommit /\ row[cold.part].object = cold.body

Rewrites(p) ==
    /\ SweepUpdate /\ p \in Parts /\ HasRow(p) /\ local[p] # NoBody
    /\ row' = [row EXCEPT ![p] = Rewritten(p, local[p], sweep.body.cut)]

\* Nothing but these steps touches rows, retired keys and what is ready.
LEMMA Quiet ==
    ASSUME [Next]_vars, ~MyLane, ~\E m \in Migrations : Marks(m), ~Commits,
           ~\E p \in Parts : SweepExpired(p), ~SweepDrop, ~SweepUpdate
    PROVE  row' = row /\ (UNCHANGED <<retired, ready>> \/ ForgetRetired \/ \E k \in retired : GraceEnds(k))
BY DEF MyLane, Marks, Commits, Next, vars, ColdThread, ColdGate, PickRetired, NoRetired, DeleteObject, ForgetRetired,
       ColdCopy, ColdIdle, ColdUpload, ColdCommit, ColdSwap, ColdVersion, Migrate, MigrateRead, MigratePack, MigrateMark,
       Release, Age, Sweep, SweepRead, SweepFilter, SweepEnd, SweepReplace, SweepMissing, SweepCopy, GraceEnds,
       EnableOss, Crash, storeVars

\* Between the steps of the lane a row is dropped with its object retired, marked
\* with a pack, re-encoded, rewritten, or left alone.
LEMMA RowEffects ==
    ASSUME Types, [Next]_vars, ~MyLane
    PROVE  \/ \E p \in Parts : DeletePart(p)
           \/ Rewrites(sweep.part) /\ UNCHANGED <<retired, ready>>
           \/ /\ \E m \in Migrations : Marks(m) /\ row' = [p \in Parts |->
                    IF p \in DOMAIN mig[m].of THEN [row[p] EXCEPT !.key = PackKey(mig[m].of)] ELSE row[p]]
              /\ UNCHANGED <<retired, ready>>
           \/ /\ Commits /\ Retire({row[cold.part].key} \ {NewKey})
              /\ row' = [row EXCEPT ![cold.part] = Encoded]
           \/ /\ row' = row
              /\ UNCHANGED <<retired, ready>> \/ ForgetRetired \/ \E k \in retired : GraceEnds(k)
<1>1. CASE SweepUpdate
    BY <1>1 DEF SweepUpdate, Rewrites, Types, SweepTypes, Rewriting, storeVars
<1>2. CASE SweepDrop
    BY <1>2 DEF SweepDrop, Types, SweepTypes
<1>3. CASE \E p \in Parts : SweepExpired(p)
    BY <1>3 DEF SweepExpired
<1>4. ASSUME NEW m \in Migrations, Marks(m)
      PROVE  /\ row' = [p \in Parts |-> IF p \in DOMAIN mig[m].of THEN [row[p] EXCEPT !.key = PackKey(mig[m].of)] ELSE row[p]]
             /\ UNCHANGED <<retired, ready>>
    BY <1>4 DEF Marks, MigrateMark, storeVars
<1>5. CASE Commits
    BY <1>5 DEF Commits, ColdCommit
<1> QED BY <1>1, <1>2, <1>3, <1>4, <1>5, Quiet

\* The row before and after a re-encoding.
LEMMA CommitFacts ==
    ASSUME Types, Commits
    PROVE  /\ cold.part \in Parts /\ HasRow(cold.part) /\ cold.at = "uploaded" /\ cold.body.gen \in Gens
           /\ row[cold.part].object = cold.body /\ cold.body.form = "raw" /\ Cold(cold.body.gen).form = "cold"
           /\ row' = [row EXCEPT ![cold.part] = Encoded] /\ row'[cold.part] = Encoded
           /\ Encoded \in Rows /\ Encoded # NoRow /\ Encoded.sha = Cold(cold.body.gen) /\ Encoded.object = Cold(cold.body.gen)
           /\ Encoded.key = NewKey /\ Encoded.cut = row[cold.part].cut /\ NewKey # NoKey /\ ~NewKey.pack
<1>1. cold.at = "uploaded" /\ row[cold.part].object = cold.body /\ row' = [row EXCEPT ![cold.part] = Encoded]
    BY DEF Commits, ColdCommit
<1>2. row \in [Parts -> Rows] /\ ColdTypes /\ cold.at \in Encoding
    BY <1>1 DEF Types, StoreTypes, Encoding
<1> QED BY <1>1, <1>2, EncodedBody, EncodedRow, Forms

\* The row and the body before and after a rewriting.
LEMMA RewriteFacts ==
    ASSUME Types, Rewrites(sweep.part)
    PROVE  /\ sweep.at = "replaced" /\ sweep.part \in Parts /\ sweep.body.cut \in Cuts
           /\ HasRow(sweep.part) /\ row'[sweep.part] # NoRow /\ local[sweep.part] \in Bodies
           /\ \A p \in Parts : p # sweep.part => row'[p] = row[p]
           /\ row'[sweep.part].sha = local[sweep.part] /\ row'[sweep.part].object = row[sweep.part].object
           /\ row'[sweep.part].key = KeptKey(sweep.part, local[sweep.part]) /\ row'[sweep.part].cut = sweep.body.cut
<1>1. /\ sweep.at = "replaced" /\ sweep.part \in Parts /\ HasRow(sweep.part) /\ local[sweep.part] # NoBody
      /\ row' = [row EXCEPT ![sweep.part] = Rewritten(sweep.part, local[sweep.part], sweep.body.cut)]
    BY DEF Rewrites, SweepUpdate
<1>2. row \in [Parts -> Rows] /\ local[sweep.part] \in Bodies /\ sweep.body.cut \in Cuts
    BY <1>1, Forms DEF Types, StoreTypes, BodyTypes, Contents, SweepTypes, Rewriting
<1>3. row'[sweep.part] = Rewritten(sweep.part, local[sweep.part], sweep.body.cut)
    BY <1>1, <1>2
<1>4. \A p \in Parts : p # sweep.part => row'[p] = row[p]
    BY <1>1, <1>2
<1> QED BY <1>1, <1>2, <1>3, <1>4, RewrittenRow DEF HasRow

LEMMA MarkedShas ==
    ASSUME Types, NEW p \in Parts, NEW m \in Migrations, Marks(m),
           row' = [q \in Parts |-> IF q \in DOMAIN mig[m].of THEN [row[q] EXCEPT !.key = PackKey(mig[m].of)] ELSE row[q]]
    PROVE  /\ row'[p].sha = row[p].sha /\ row'[p].object = row[p].object /\ row'[p].cut = row[p].cut
           /\ (HasRow(p)' <=> HasRow(p)) /\ (~HasRow(p) => row'[p] = row[p])
<1>0. row \in [Parts -> Rows]
    BY DEF Types, StoreTypes
<1>1. CASE p \in DOMAIN mig[m].of
    <2>1. HasRow(p) /\ PackKey(mig[m].of) \in Keys
        BY <1>1, MigFields, PackHolds DEF Marks, Listed, Types, MigTypes
    <2> QED BY <1>0, <1>1, <2>1, MarkedRow DEF HasRow
<1>2. CASE p \notin DOMAIN mig[m].of
    BY <1>2 DEF HasRow
<1> QED BY <1>1, <1>2

\* Rows of a finished file do not come back, are not trimmed less and do not get
\* raw or lose their re-encoded object.
LEMMA RowsWane ==
    ASSUME Types, Phases, CutsGrow, RewritesAreCurrent, [Next]_vars, ~MyLane, Finished, NEW p \in Parts
    PROVE  /\ ~HasRow(p) => ~HasRow(p)'
           /\ row[p].sha.form # "raw" => row'[p].sha.form # "raw"
           /\ HasRow(p)' => /\ row'[p].cut >= row[p].cut
                            /\ row[p].object.form = "cold" => row'[p].object.form = "cold"
<1>0. row \in [Parts -> Rows] /\ row[p].cut \in Nat
    BY RowFields, BoundsAssumption DEF Types, StoreTypes
<1>1. CASE row'[p] = row[p]
    BY <1>0, <1>1 DEF HasRow
<1>2. CASE row'[p] = NoRow
    BY <1>2, Forms DEF HasRow, NoRow
<1>3. ASSUME NEW m \in Migrations, Marks(m),
             row' = [q \in Parts |-> IF q \in DOMAIN mig[m].of THEN [row[q] EXCEPT !.key = PackKey(mig[m].of)] ELSE row[q]]
      PROVE  row'[p].sha = row[p].sha /\ row'[p].object = row[p].object /\ row'[p].cut = row[p].cut /\ (HasRow(p)' => HasRow(p))
    BY <1>3, MarkedShas
<1>4. CASE Commits /\ p = cold.part
    <2>1. HasRow(p) /\ row'[p].cut = row[p].cut /\ row'[p].sha.form = "cold" /\ row'[p].object.form = "cold"
        BY <1>4, CommitFacts
    <2> QED BY <1>0, <2>1
<1>5. CASE Rewrites(sweep.part) /\ p = sweep.part
    <2>1. HasRow(p) /\ row'[p].object = row[p].object /\ row'[p].cut > row[p].cut
        BY <1>5, RewriteFacts DEF CutsGrow, Rewriting
    <2>2. row[p].sha.form # "raw" => row'[p].sha.form # "raw"
        BY <1>5, <2>1, RewriteFacts DEF RewritesAreCurrent
    <2>3. row'[p].cut \in Nat
        BY <1>5, RewriteFacts DEF Cuts
    <2> QED BY <1>0, <2>1, <2>2, <2>3
<1>6. ASSUME NEW q \in Parts, DeletePart(q) PROVE row'[p] \in {row[p], NoRow}
    BY <1>0, <1>6 DEF DeletePart
<1>7. Commits => p = cold.part \/ row'[p] = row[p]
    BY <1>0, CommitFacts
<1>8. Rewrites(sweep.part) => p = sweep.part \/ row'[p] = row[p]
    BY RewriteFacts
<1> QED BY <1>0, <1>1, <1>2, <1>3, <1>4, <1>5, <1>6, <1>7, <1>8, RowEffects

\* Bodies neither.
LEMMA BodiesWane ==
    ASSUME Types, [Next]_vars, ~MyLane, NEW p \in Parts, local[p].form # "raw"
    PROVE  local'[p].form # "raw"
<1>0. local \in [Parts -> Contents]
    BY DEF Types, BodyTypes
<1>1. ASSUME NEW q \in Parts, Drop(q) PROVE local'[p] \in {local[p], NoBody}
    BY <1>0, <1>1 DEF Drop
<1>2. CASE ColdSwap
    <2>1. Cold(cold.body.gen).form = "cold"
        BY <1>2, EncodedBody, Forms DEF ColdSwap, Encoding, Types
    <2> QED BY <1>0, <1>2, <2>1 DEF ColdSwap
<1>3. CASE SweepReplace
    BY <1>0, <1>3, Forms DEF SweepReplace, Types, SweepTypes, Rewriting
<1>4. CASE \E q \in Parts : Release(q) \/ SweepExpired(q)
    BY <1>1, <1>4, Forms DEF Release, SweepExpired
<1>5. CASE local' = local
    BY <1>5
<1> QED BY <1>2, <1>3, <1>4, <1>5
    DEF MyLane, Next, vars, ColdThread, ColdGate, PickRetired, NoRetired, DeleteObject, ForgetRetired,
        ColdCopy, ColdIdle, ColdUpload, ColdCommit, ColdVersion, Migrate, MigrateRead, MigratePack, MigrateMark, Age,
        Sweep, SweepRead, SweepFilter, SweepEnd, SweepDrop, SweepUpdate, SweepMissing, SweepCopy, GraceEnds,
        EnableOss, Crash, bodyVars

\* The lane does not leave the digest of another form in a row it has written.
LEMMA LaneRewrites ==
    ASSUME Types, Phases, RewritesAreCurrent, MyLane, ~Finished
    PROVE  RewritesAreCurrent'
<1> DEFINE p == sweep.part
<1>0. /\ row \in [Parts -> Rows] /\ local \in [Parts -> Contents] /\ step \in [Parts -> StepNames]
      /\ sweep' = sweep /\ (sweep.at = "replaced" => p \in Parts)
      /\ InLane => plan.gen \in Gens
    <2>1. sweep' = sweep
        BY DEF MyLane, Lane, IngestFails, Start, MoveBody, WriteVersion, Publish, Upload, UploadFails, Mark, Finalize,
               FailFile, Store, ResumeStored, DeleteRaw, Finish
    <2> QED BY <2>1 DEF Types, StoreTypes, BodyTypes, FileTypes, SweepTypes, Rewriting, InLane
<1> SUFFICES ASSUME sweep.at = "replaced", Finished' \/ step'[p] \in Written, HasRow(p)', local'[p].form = "raw"
             PROVE  row'[p].sha.form = "raw"
    BY <1>0 DEF RewritesAreCurrent
<1>1. \/ ~(step[p] \in Written) \/ ~HasRow(p) \/ local[p].form # "raw"
      \/ row[p].sha.form = "raw"
    BY DEF RewritesAreCurrent
<1>2. ASSUME NEW keep \in SUBSET Parts, NEW g \in Gens, NEW d \in BOOLEAN, Start(keep, g, d) PROVE FALSE
    BY <1>0, <1>2 DEF Start, Finished, Written
<1>3. ASSUME NEW q \in Parts, MoveBody(q) \/ WriteVersion(q) PROVE row'[p].sha.form = "raw"
    BY <1>0, <1>1, <1>3 DEF MoveBody, WriteVersion, Finished, HasRow, Written
<1>4. ASSUME NEW q \in Parts, Publish(q) PROVE row'[p].sha.form = "raw"
    <2>1. CASE q = p
        BY <1>0, <1>4, <2>1, Forms, IngestedRow DEF Publish, Body, InLane
    <2>2. CASE q # p
        BY <1>0, <1>1, <1>4, <2>2 DEF Publish, Finished, HasRow, Written, bodyVars
    <2> QED BY <2>1, <2>2
<1>5. ASSUME NEW q \in Parts, IngestFails(q) PROVE row'[p].sha.form = "raw"
    <2>1. q # p
        BY <1>0, <1>5, Forms DEF IngestFails, Drop
    <2> QED BY <1>0, <1>1, <1>5, <2>1 DEF IngestFails, Drop, Finished, HasRow
<1>6. ASSUME NEW q \in Parts, Upload(q) \/ UploadFails(q) \/ Mark(q) PROVE row'[p].sha.form = "raw"
    <2>1. local' = local /\ state' = state /\ (step'[p] \in Written => step[p] \in Written)
        BY <1>0, <1>6 DEF Upload, UploadFails, Mark, bodyVars, Written
    <2>2. row[p] # NoRow /\ row'[p].sha = row[p].sha
        <3>1. HasRow(q) => row[q] \in FullRows
            BY <1>0, RowFields DEF HasRow
        <3> QED BY <1>0, <1>6, <3>1 DEF Upload, UploadFails, Mark, HasRow, FullRows
    <2> QED BY <1>1, <2>1, <2>2 DEF Finished, HasRow
<1>7. ASSUME NEW q \in Parts, Finalize(q) PROVE row'[p].sha.form = "raw"
    BY <1>0, <1>1, <1>7, Forms DEF Finalize, DeletePart, Drop, Finished, HasRow, fileVars
<1>8. CASE FailFile
    BY <1>0, <1>8 DEF FailFile, Finished, Written
<1>9. CASE Store
    <2>1. step[p] \in Written /\ UNCHANGED <<row, local>>
        BY <1>0, <1>9 DEF Store, Parsed, Listed, HasRow, Written, bodyVars
    <2> QED BY <1>0, <1>1, <2>1 DEF HasRow
<1>10. CASE ResumeStored \/ DeleteRaw \/ Finish
    BY <1>10 DEF ResumeStored, DeleteRaw, Finish, Phases, Finished
<1> QED
    <2>1. CASE \E keep \in SUBSET Parts \ {{}}, g \in Gens, d \in BOOLEAN : Start(keep, g, d)
        BY <1>2, <2>1
    <2> HIDE DEF p
    <2> QED BY <1>3, <1>4, <1>5, <1>6, <1>7, <1>8, <1>9, <1>10, <2>1 DEF MyLane, Lane

LEMMA SweepSteps ==
    ASSUME Types, [Next]_vars, sweep'.at = "replaced"
    PROVE  SweepReplace \/ sweep' = sweep
<1>1. /\ sweep \in SweepType /\ SweepTypes
    BY DEF Types, SweepTypes
<1>2. CASE Sweep
    <2>1. CASE SweepRead \/ SweepFilter \/ SweepEnd \/ \E p \in Parts : SweepMissing(p)
        <3>1. CASE SweepRead \/ SweepFilter \/ SweepEnd
            BY <1>1, <3>1, IdleTypes DEF SweepRead, SweepFilter, SweepEnd, SweepType
        <3>2. CASE \E p \in Parts : SweepMissing(p)
            BY <1>1, <3>2, PastTypes DEF SweepMissing, SweepType
        <3> QED BY <2>1, <3>1, <3>2
    <2>3. ASSUME NEW p \in Parts, SweepCopy(p) PROVE FALSE
        <3>1. sweep' = Past(p) \/ sweep' = [sweep EXCEPT !.at = "copied", !.part = p, !.body = Kept(local[p].gen, sweep.due[p])]
            BY <2>3 DEF SweepCopy
        <3>2. [sweep EXCEPT !.at = "copied", !.part = p, !.body = Kept(local[p].gen, sweep.due[p])].at = "copied"
            BY <1>1 DEF SweepType
        <3>3. Past(p).at # "replaced"
            BY <1>1, PastTypes
        <3> QED BY <3>1, <3>2, <3>3
    <2>2. CASE SweepDrop \/ SweepUpdate \/ \E p \in Parts : SweepExpired(p)
        BY <1>1, <2>2, PastTypes DEF SweepDrop, SweepUpdate, SweepExpired
    <2> QED BY <1>2, <2>1, <2>2, <2>3 DEF Sweep
<1>3. CASE ~Sweep /\ ~Crash
    BY <1>3 DEF Next, vars, Lane, IngestFails, Start, MoveBody, WriteVersion, Publish, Upload, UploadFails, Mark,
        Finalize, FailFile, Store, ResumeStored, DeleteRaw, Finish,
        ColdThread, ColdGate, PickRetired, NoRetired, DeleteObject, ForgetRetired, ColdCopy, ColdIdle,
        ColdUpload, ColdCommit, ColdSwap, ColdVersion, Migrate, MigrateRead, MigratePack, MigrateMark, Release, Age,
        GraceEnds, EnableOss
<1>4. CASE Crash
    BY <1>4, IdleTypes DEF Crash
<1> QED BY <1>2, <1>3, <1>4

LEMMA RewritesNext ==
    ASSUME Types, Phases, RewritesAreCurrent, RewriteIsShort', [Next]_vars
    PROVE  RewritesAreCurrent'
<1> DEFINE p == sweep.part
<1>0. row \in [Parts -> Rows] /\ local \in [Parts -> Contents] /\ SweepTypes /\ ColdTypes
    BY DEF Types, StoreTypes, BodyTypes
<1>1. CASE sweep'.at # "replaced"
    BY <1>1 DEF RewritesAreCurrent
<1>2. CASE SweepReplace
    BY <1>0, <1>2, Forms DEF SweepReplace, SweepTypes, SweepType, Rewriting, RewritesAreCurrent
<1>3. CASE sweep'.at = "replaced" /\ sweep' = sweep /\ MyLane
    <2>1. CASE Finished
        <3>1. UNCHANGED <<row, local>>
            BY <1>3, <2>1, LanePhases DEF MyLane
        <3> QED BY <1>3, <2>1, <3>1 DEF RewritesAreCurrent, HasRow
    <2> QED BY <1>3, <2>1, LaneRewrites
<1>4. CASE sweep'.at = "replaced" /\ sweep' = sweep /\ ~MyLane
    <2>1. UNCHANGED <<state, step>> /\ p \in Parts
        <3>1. ~Crash
            BY <1>4, IdleTypes DEF Crash
        <3> QED BY <1>0, <1>4, <3>1, LaneOnly DEF MyLane, SweepTypes, Rewriting
    <2>2. local[p].form # "raw" => local'[p].form # "raw"
        BY <1>4, <2>1, BodiesWane
    <2>3. ASSUME NEW q \in Parts, DeletePart(q) PROVE row'[p] \in {row[p], NoRow}
        BY <1>0, <2>3 DEF DeletePart
    <2>4. ~Rewrites(sweep.part)
        <3>1. Past(sweep.part).at # "replaced"
            BY <1>0, PastTypes
        <3> QED BY <1>4, <3>1 DEF Rewrites, SweepUpdate
    <2>5. ASSUME NEW m \in Migrations, Marks(m),
                 row' = [q \in Parts |-> IF q \in DOMAIN mig[m].of THEN [row[q] EXCEPT !.key = PackKey(mig[m].of)] ELSE row[q]]
          PROVE  row'[p].sha = row[p].sha /\ (~HasRow(p) => row'[p] = row[p])
        BY <2>1, <2>5, MarkedShas
    <2>6. ASSUME Commits, row' = [row EXCEPT ![cold.part] = Encoded],
                 row'[p] # row[p]
          PROVE  local'[p].form # "raw"
        <3>1. cold.part = p
            BY <1>0, <2>6
        <3>2. cold'.at = "swap" /\ cold'.part = cold.part
            BY <1>0, <2>6 DEF Commits, ColdCommit, ColdTypes, ColdType
        <3> QED BY <1>4, <3>1, <3>2 DEF RewriteIsShort
    <2> QED BY <1>4, <2>1, <2>2, <2>3, <2>4, <2>5, <2>6, RowEffects DEF RewritesAreCurrent, HasRow, Finished
<1> QED BY <1>1, <1>2, <1>3, <1>4, SweepSteps

LEMMA KeysRetired ==
    ASSUME Types, [Next]_vars, ~MyLane
    PROVE  /\ \A k \in retired' : k \in retired \/
                  \E p \in Parts : k = row[p].key /\ k # NoKey /\ (row'[p] = NoRow \/ (Commits /\ p = cold.part))
           /\ \A k \in ready' : k \in ready \/ (k \in retired /\ GraceEnds(k))
<1>0. row \in [Parts -> Rows]
    BY DEF Types, StoreTypes
<1>1. ASSUME NEW p \in Parts, DeletePart(p)
      PROVE  row'[p] = NoRow /\ retired' = retired \cup ({row[p].key} \ {NoKey}) /\ ready' \subseteq ready
    BY <1>0, <1>1 DEF DeletePart, Retire
<1>2. ASSUME Commits, Retire({row[cold.part].key} \ {NewKey})
      PROVE  cold.part \in Parts /\ ready' \subseteq ready /\ retired' \subseteq retired \cup ({row[cold.part].key} \ {NoKey})
    BY <1>2, EncodedBody DEF Commits, ColdCommit, Encoding, Retire, Types
<1>3. CASE ForgetRetired
    BY <1>3 DEF ForgetRetired
<1>4. ASSUME NEW k \in retired, GraceEnds(k)
      PROVE  retired' = retired /\ ready' = ready \cup {k}
    BY <1>4 DEF GraceEnds
<1>5. CASE UNCHANGED <<retired, ready>>
    BY <1>5
<1> QED BY <1>1, <1>2, <1>3, <1>4, <1>5, RowEffects

\* The lane makes no packs.
LEMMA LaneKeys ==
    ASSUME Types, Phases, PacksHoldTheirParts, MyLane
    PROVE  /\ \A k \in retired' : k # NoKey
           /\ ~Finished => /\ \A p \in Parts : ~row'[p].key.pack
                           /\ \A k \in retired' : ~k.pack
<1>0. /\ row \in [Parts -> Rows] /\ FileTypes
      /\ ~Finished => (\A p \in Parts : ~row[p].key.pack) /\ (\A k \in retired : ~k.pack)
      /\ \A k \in retired : k # NoKey
    BY DEF Types, StoreTypes, PacksHoldTheirParts
<1>1. ASSUME NEW p \in Parts, Publish(p) PROVE row' = [row EXCEPT ![p] = Ingested(p, Body)] /\ Ingested(p, Body).key \in {row[p].key, NoKey}
    BY <1>1 DEF Publish, Ingested, KeptKey
<1>2. ASSUME NEW p \in Parts, Mark(p)
      PROVE  row' = row \/ (row' = [row EXCEPT ![p].key = PartKey(p, Body)] /\ HasRow(p) /\ ~PartKey(p, Body).pack)
    BY <1>2 DEF Mark, PartKey
<1>3. ASSUME NEW p \in Parts, Finalize(p)
      PROVE  row' = [row EXCEPT ![p] = NoRow] /\ retired' = retired \cup ({row[p].key} \ {NoKey})
    BY <1>3 DEF Finalize, DeletePart, Retire
<1>4. ~NoKey.pack /\ NoRow.key = NoKey
    BY KeyTypes DEF NoRow
<1>5. CASE \E p \in Parts : Publish(p)
    <2>1. retired' = retired
        BY <1>5 DEF Publish, storeVars
    <2>2. ~Finished => \A p \in Parts : ~row'[p].key.pack
        BY <1>0, <1>1, <1>4, <1>5
    <2> QED BY <1>0, <2>1, <2>2
<1>6. ASSUME NEW p \in Parts, Mark(p)
      PROVE  retired' = retired /\ (~Finished => \A q \in Parts : ~row'[q].key.pack)
    <2>1. retired' = retired
        BY <1>6 DEF Mark, storeVars
    <2>2. HasRow(p) => row[p] \in FullRows
        BY <1>0, RowFields DEF HasRow
    <2> QED BY <1>0, <1>2, <1>6, <2>1, <2>2 DEF FullRows
<1>7. CASE \E p \in Parts : Finalize(p)
    BY <1>0, <1>3, <1>4, <1>7
<1>8. CASE UNCHANGED <<row, retired>>
    BY <1>0, <1>8
<1>9. UNCHANGED <<row, retired>> \/ \E p \in Parts : Publish(p) \/ Mark(p) \/ Finalize(p)
    BY DEF MyLane, Lane, IngestFails, Start, MoveBody, WriteVersion, Upload, UploadFails,
           FailFile, Store, ResumeStored, DeleteRaw, Finish, storeVars
<1> QED BY <1>0, <1>5, <1>6, <1>7, <1>8, <1>9

\* What a migration works on.
LEMMA MigSteps ==
    ASSUME Types, [Next]_vars, NEW m \in Migrations
    PROVE  \/ mig'[m].at = "idle"
           \/ mig'[m] = mig[m] /\ mig[m].at # "idle"
           \/ /\ MigrateRead(m) /\ mig'[m].at = "read" /\ mig'[m].of = [p \in Unarchived |-> row[p].sha]
           \/ /\ MigratePack(m) /\ mig'[m].at = "packed" /\ mig'[m].of = mig[m].of /\ mig[m].at = "read"
              /\ \A p \in DOMAIN mig[m].of : local[p] = mig[m].of[p]
<1>0. mig \in [Migrations -> MigType]
    BY DEF Types, MigTypes
<1>1. ASSUME NEW n \in Migrations, MigrateRead(n)
      PROVE  IF n = m THEN mig'[m].at = "read" /\ mig'[m].of = [p \in Unarchived |-> row[p].sha] ELSE mig'[m] = mig[m]
    BY <1>0, <1>1 DEF MigrateRead
<1>2. ASSUME NEW n \in Migrations, MigratePack(n)
      PROVE  \/ n # m /\ mig'[m] = mig[m]
             \/ n = m /\ mig'[m].at = "idle"
             \/ /\ n = m /\ mig'[m].at = "packed" /\ mig'[m].of = mig[m].of /\ mig[m].at = "read"
                /\ \A p \in DOMAIN mig[m].of : local[p] = mig[m].of[p]
    <2>1. mig[n] \in MigType
        BY <1>0
    <2> QED BY <1>0, <1>2, <2>1, IdleTypes DEF MigratePack, MigType
<1>3. ASSUME NEW n \in Migrations, MigrateMark(n)
      PROVE  (n # m /\ mig'[m] = mig[m]) \/ (n = m /\ mig'[m].at = "idle")
    BY <1>0, <1>3, IdleTypes DEF MigrateMark
<1>4. CASE Crash
    BY <1>4, IdleTypes DEF Crash
<1>5. CASE mig' = mig
    BY <1>5
<1> QED BY <1>1, <1>2, <1>3, <1>4, <1>5
    DEF Next, vars, Lane, IngestFails, Start, MoveBody, WriteVersion, Publish, Upload, UploadFails, Mark,
        Finalize, FailFile, Store, ResumeStored, DeleteRaw, Finish,
        ColdThread, ColdGate, PickRetired, NoRetired, DeleteObject, ForgetRetired, ColdCopy, ColdIdle,
        ColdUpload, ColdCommit, ColdSwap, ColdVersion, Migrate, Release, Age, Sweep, SweepRead, SweepFilter, SweepEnd,
        SweepDrop, SweepReplace, SweepUpdate, SweepExpired, SweepMissing, SweepCopy, GraceEnds, EnableOss

-----------------------------------------------------------------------------
(***************************************************************************)
(* Packs.                                                                   *)
(***************************************************************************)
MigInPacks(m) ==
    \A p \in DOMAIN mig[m].of : mig[m].at # "idle" /\ HasRow(p) => CameFrom(p, mig[m].of[p])

RowInPack(p) ==
    row[p].key.pack =>
        /\ Finished
        /\ \E b \in Bodies : <<p, b>> \in row[p].key.holds /\ CameFrom(p, b)

\* What a row came from stays that, whatever happens to a finished file.
LEMMA CameFromStays ==
    ASSUME Types, Phases, CutsGrow, RewritesAreCurrent, [Next]_vars, Finished, NEW p \in Parts, HasRow(p)',
           NEW b \in Bodies, HasRow(p) => CameFrom(p, b)
    PROVE  HasRow(p) /\ CameFrom(p, b)'
<1>1. CASE MyLane
    <2>1. row' = row
        BY <1>1, LanePhases DEF MyLane
    <2> QED BY <2>1 DEF HasRow, CameFrom
<1>2. CASE ~MyLane
    <2>1. /\ HasRow(p) /\ row'[p].cut >= row[p].cut
          /\ row[p].object.form = "cold" => row'[p].object.form = "cold"
          /\ row[p].sha.form # "raw" => row'[p].sha.form # "raw"
        BY <1>2, RowsWane
    <2>2. row[p].cut \in Nat /\ row'[p].cut \in Nat /\ b.cut \in Nat
        <3>1. row'[p] \in Rows /\ row[p] \in Rows
            BY TypesNext DEF Types, StoreTypes
        <3>2. \A r \in Rows : r.cut \in Nat
            BY RowFields, BoundsAssumption
        <3> QED BY <3>1, <3>2, Forms, BoundsAssumption
    <2> QED BY <2>1, <2>2 DEF CameFrom
<1> QED BY <1>1, <1>2

LEMMA PacksNext ==
    ASSUME Types, Phases, CutsGrow, ColdStays, RewritesAreCurrent, PacksHoldTheirParts, [Next]_vars
    PROVE  PacksHoldTheirParts'
<1>0. /\ row \in [Parts -> Rows] /\ mig \in [Migrations -> MigType] /\ ColdTypes
      /\ \A p \in Parts : RowInPack(p)
      /\ \A m \in Migrations : MigInPacks(m)
      /\ \A m \in Migrations : DOMAIN mig[m].of \subseteq Parts
    BY MigFields, Maps DEF Types, StoreTypes, MigTypes, PacksHoldTheirParts, RowInPack, MigInPacks
<1>1. Finished => Finished'
    BY PhasesNext
<1>2. \A p \in Parts : RowInPack(p)'
    <2>1. CASE MyLane /\ ~Finished
        BY <2>1, LaneKeys DEF RowInPack
    <2>2. CASE MyLane /\ Finished
        BY <1>0, <1>1, <2>2, LanePhases DEF MyLane, RowInPack, CameFrom
    <2>3. CASE ~MyLane
        <3> SUFFICES ASSUME NEW p \in Parts PROVE RowInPack(p)'
            OBVIOUS
        <3>1. CASE row'[p] = row[p]
            BY <1>0, <1>1, <3>1 DEF RowInPack, CameFrom
        <3>2. CASE row'[p] = NoRow
            BY <3>2, KeyTypes DEF RowInPack, NoRow
        <3>3. ASSUME NEW m \in Migrations, Marks(m), p \in DOMAIN mig[m].of,
                     row'[p] = [row[p] EXCEPT !.key = PackKey(mig[m].of)]
              PROVE  RowInPack(p)'
            <4>1. mig[m].of \in Over(Bodies) /\ mig[m].of[p] \in Bodies /\ mig[m].at = "packed"
                BY <1>0, <3>3, MigFields, Maps DEF Marks, MigrateMark
            <4>2. /\ row'[p].key = PackKey(mig[m].of) /\ row'[p].sha = row[p].sha /\ HasRow(p)
                  /\ row'[p].object = row[p].object /\ row'[p].cut = row[p].cut
                BY <1>0, <3>3, <4>1, PackHolds, MarkedRow DEF Marks, Listed, HasRow
            <4>3. PICK b \in Bodies : b = mig[m].of[p]
                BY <4>1
            <4>4. <<p, b>> \in row'[p].key.holds /\ CameFrom(p, b)
                BY <1>0, <3>3, <4>1, <4>2, <4>3, PackHolds DEF MigInPacks
            <4>5. CameFrom(p, b)'
                BY <4>2, <4>4 DEF CameFrom
            <4>6. Finished'
                BY <1>1, <3>3, <4>1 DEF Phases
            <4> QED BY <4>4, <4>5, <4>6 DEF RowInPack
        <3>4. ASSUME Commits, p = cold.part, row'[p] = Encoded
              PROVE  RowInPack(p)'
            BY <3>4, CommitFacts DEF RowInPack
        <3>5. ASSUME Rewrites(sweep.part), p = sweep.part PROVE RowInPack(p)'
            <4>1. HasRow(p) /\ HasRow(p)' /\ (row'[p].key.pack => row'[p].key = row[p].key)
                BY <1>0, <3>5, RewriteFacts, KeptKeys, KeyTypes DEF HasRow
            <4>2. ASSUME row'[p].key.pack PROVE \E b \in Bodies : <<p, b>> \in row'[p].key.holds /\ CameFrom(p, b)'
                <5>1. PICK b \in Bodies : <<p, b>> \in row[p].key.holds /\ CameFrom(p, b) /\ Finished
                    BY <1>0, <4>1, <4>2 DEF RowInPack
                <5>2. CameFrom(p, b)'
                    BY <4>1, <5>1, CameFromStays
                <5> QED BY <4>1, <4>2, <5>1, <5>2
            <4> QED BY <1>0, <1>1, <4>1, <4>2 DEF RowInPack
        <3> QED
            <4>1. ASSUME NEW q \in Parts, DeletePart(q) PROVE row'[p] \in {row[p], NoRow}
                BY <1>0, <4>1 DEF DeletePart
            <4>2. ASSUME Commits, row' = [row EXCEPT ![cold.part] = Encoded]
                  PROVE  row'[p] = row[p] \/ (p = cold.part /\ row'[p] = Encoded)
                BY <4>2, <1>0, CommitFacts
            <4>3. ASSUME Rewrites(sweep.part) PROVE row'[p] = row[p] \/ p = sweep.part
                BY <4>3, RewriteFacts
            <4> QED BY <2>3, <3>1, <3>2, <3>3, <3>4, <3>5, <4>1, <4>2, <4>3, RowEffects
    <2> QED BY <2>1, <2>2, <2>3
<1>3. \A k \in retired' : k # NoKey /\ (k.pack => Finished')
    <2>1. CASE MyLane
        <3>1. Finished => retired' = retired
            BY <2>1, LanePhases DEF MyLane, storeVars
        <3> QED BY <1>1, <2>1, <3>1, LaneKeys
    <2>2. CASE ~MyLane
        <3>1. \A k \in retired' : k \in retired \/ \E p \in Parts : k = row[p].key /\ k # NoKey
            BY <2>2, KeysRetired
        <3> QED BY <1>0, <1>1, <3>1 DEF PacksHoldTheirParts, RowInPack
    <2> QED BY <2>1, <2>2
<1>4. ASSUME NEW m \in Migrations PROVE MigInPacks(m)'
    <2>1. CASE mig'[m].at = "idle"
        BY <2>1 DEF MigInPacks
    <2>2. CASE mig[m].at # "idle" /\ mig'[m] = mig[m]
        <3>1. Finished
            BY <2>2 DEF Phases
        <3>2. ASSUME NEW p \in DOMAIN mig[m].of, HasRow(p)' PROVE CameFrom(p, mig[m].of[p])'
            <4>1. p \in Parts /\ mig[m].of[p] \in Bodies
                BY <1>0, <3>2, MigFields, Maps
            <4>2. HasRow(p) => CameFrom(p, mig[m].of[p])
                BY <1>0, <2>2 DEF MigInPacks
            <4>3. \A b \in Bodies : (HasRow(p) => CameFrom(p, b)) => CameFrom(p, b)'
                BY <3>1, <3>2, <4>1, CameFromStays
            <4>4. PICK b \in Bodies : b = mig[m].of[p]
                BY <4>1
            <4>5. CameFrom(p, b)' /\ mig'[m].of[p] = b
                BY <2>2, <4>2, <4>3, <4>4
            <4> QED BY <2>2, <4>5 DEF CameFrom
        <3> QED BY <2>2, <3>2 DEF MigInPacks
    <2>3. CASE MigrateRead(m) /\ mig'[m].of = [p \in Unarchived |-> row[p].sha]
        <3>1. row' = row
            BY <2>3 DEF MigrateRead
        <3>2. ASSUME NEW p \in DOMAIN mig'[m].of PROVE CameFrom(p, row[p].sha) /\ mig'[m].of[p] = row[p].sha
            <4>1. p \in Parts /\ HasRow(p) /\ mig'[m].of[p] = row[p].sha
                BY <2>3, <3>2 DEF Unarchived, Listed
            <4>2. row[p].sha.cut <= row[p].cut /\ (row[p].sha.form = "cold" => row[p].object.form = "cold")
                BY <4>1 DEF CutsGrow, ColdStays
            <4> QED BY <4>1, <4>2 DEF CameFrom
        <3> QED BY <3>1, <3>2 DEF MigInPacks, CameFrom
    <2>4. CASE MigratePack(m) /\ mig[m].at = "read" /\ mig'[m].of = mig[m].of
        <3>1. row' = row
            BY <2>4 DEF MigratePack
        <3> QED BY <1>0, <2>4, <3>1 DEF MigInPacks, CameFrom, HasRow
    <2> QED BY <2>1, <2>2, <2>3, <2>4, MigSteps
<1> QED BY <1>2, <1>3, <1>4 DEF PacksHoldTheirParts, RowInPack, MigInPacks

-----------------------------------------------------------------------------
(***************************************************************************)
(* Retired packs are not packed again.                                      *)
(***************************************************************************)
\* The body in the row, or on the disk, of a part whose row was there before.
LEMMA OutdatedStays ==
    ASSUME Types, Phases, CutsGrow, RewritesAreCurrent, [Next]_vars, ~MyLane, Finished, NEW p \in Parts, HasRow(p)',
           NEW b \in Bodies, HasRow(p) => Outdated(p, b)
    PROVE  /\ HasRow(p) /\ Outdated(p, b)'
           /\ Apart(b, row[p].sha) => Apart(b, row'[p].sha)
           /\ Apart(b, local[p]) => Apart(b, local'[p])
<1>0. /\ row \in [Parts -> Rows] /\ local \in [Parts -> Contents] /\ ColdTypes
      /\ row[p].cut \in Nat /\ row'[p].cut \in Nat /\ b.cut \in Nat
    <2>1. row \in [Parts -> Rows] /\ row'[p] \in Rows /\ row[p] \in Rows
        BY TypesNext DEF Types, StoreTypes
    <2>2. \A r \in Rows : r.cut \in Nat
        BY RowFields, BoundsAssumption
    <2> QED BY <2>1, <2>2, Forms, BoundsAssumption DEF Types, BodyTypes
<1>1. /\ HasRow(p) /\ row'[p].cut >= row[p].cut
      /\ row[p].sha.form # "raw" => row'[p].sha.form # "raw"
      /\ local[p].form # "raw" => local'[p].form # "raw"
    BY RowsWane, BodiesWane
<1>2. Outdated(p, b)'
    BY <1>0, <1>1 DEF Outdated
<1>3. CASE b.form = "raw"
    BY <1>1, <1>2, <1>3 DEF Apart
<1>4. CASE b.form # "raw"
    <2>0. b.form # "cold" /\ b.form = "kept" /\ b.cut <= row[p].cut /\ b # NoBody
        BY <1>1, <1>4, Forms DEF Outdated
    <2>1. ASSUME Apart(b, row[p].sha) PROVE row'[p].sha # b
        <3>1. ASSUME NEW m \in Migrations, Marks(m),
                     row' = [q \in Parts |-> IF q \in DOMAIN mig[m].of THEN [row[q] EXCEPT !.key = PackKey(mig[m].of)] ELSE row[q]]
              PROVE  row'[p].sha = row[p].sha
            BY <3>1, MarkedShas
        <3>2. ASSUME Commits, p = cold.part PROVE row'[p].sha # b
            BY <2>0, <3>2, CommitFacts
        <3>3. ASSUME Rewrites(sweep.part), p = sweep.part PROVE row'[p].sha # b
            <4>1. row'[p].sha = local[p] /\ sweep.body.cut \in Nat /\ sweep.at = "replaced"
                BY <3>3, RewriteFacts DEF Cuts
            <4>2. ASSUME local[p].form = "kept" PROVE local[p].cut > b.cut
                BY <1>0, <2>0, <3>3, <4>1, <4>2 DEF CutsGrow, Rewriting
            <4> QED BY <1>0, <2>0, <4>1, <4>2
        <3>4. Commits => p = cold.part \/ row'[p] = row[p]
            BY <1>0, CommitFacts
        <3>5. Rewrites(sweep.part) => p = sweep.part \/ row'[p] = row[p]
            BY RewriteFacts
        <3>6. ASSUME NEW q \in Parts, DeletePart(q) PROVE row'[p] = row[p]
            BY <1>0, <3>6 DEF DeletePart, HasRow
        <3>7. row[p].sha # b
            BY <1>4, <2>1 DEF Apart
        <3> QED BY <3>1, <3>2, <3>3, <3>4, <3>5, <3>6, <3>7, RowEffects
    <2>2. ASSUME Apart(b, local[p]) PROVE local'[p] # b
        <3>1. local[p] # b
            BY <1>4, <2>2 DEF Apart
        <3>2. ASSUME NEW q \in Parts, Drop(q) PROVE local'[p] \in {local[p], NoBody}
            BY <1>0, <3>2 DEF Drop
        <3>3. CASE ColdSwap
            <4>1. Cold(cold.body.gen).form = "cold"
                BY <1>0, <3>3, EncodedBody, Forms DEF ColdSwap, Encoding
            <4> QED BY <1>0, <2>0, <3>1, <3>3, <4>1 DEF ColdSwap
        <3>4. CASE SweepReplace
            <4>1. sweep.at = "copied" /\ local' = [local EXCEPT ![sweep.part] = sweep.body]
                BY <3>4 DEF SweepReplace
            <4>2. p = sweep.part => sweep.body.cut > b.cut
                <5>1. sweep.body.cut > row[sweep.part].cut /\ sweep.body.cut \in Nat
                    BY <4>1, Forms DEF CutsGrow, Rewriting, Types, SweepTypes, Cuts
                <5> QED BY <1>0, <2>0, <5>1
            <4>3. sweep.body.cut \in Nat
                BY <4>1, Forms DEF Rewriting, Types, SweepTypes, Cuts
            <4> QED BY <1>0, <3>1, <4>1, <4>2, <4>3
        <3>5. CASE \E q \in Parts : Release(q) \/ SweepExpired(q)
            BY <2>0, <3>1, <3>2, <3>5 DEF Release, SweepExpired
        <3>6. CASE local' = local
            BY <3>1, <3>6
        <3> QED BY <3>3, <3>4, <3>5, <3>6
            DEF MyLane, Next, vars, ColdThread, ColdGate, PickRetired, NoRetired, DeleteObject, ForgetRetired,
                ColdCopy, ColdIdle, ColdUpload, ColdCommit, ColdVersion, Migrate, MigrateRead, MigratePack, MigrateMark,
                Age, Sweep, SweepRead, SweepFilter, SweepEnd, SweepDrop, SweepUpdate, SweepMissing, SweepCopy, GraceEnds,
                EnableOss, Crash, bodyVars
    <2> QED BY <1>1, <1>2, <1>4, <2>1, <2>2 DEF Apart
<1> QED BY <1>3, <1>4

\* A migration that reads rows now does not read a pack that has been retired.
LEMMA ReadIsFresh ==
    ASSUME Types, RetiredPacks, NEW of, of = [p \in Unarchived |-> row[p].sha]
    PROVE  PackKey(of) \notin retired
<1>1. row \in [Parts -> Rows] /\ Unarchived \subseteq Listed /\ Listed \subseteq Parts
    BY DEF Types, StoreTypes, Unarchived, Listed
<1>2. of \in Over(Bodies) /\ DOMAIN of = Unarchived
    <2>1. of \in [Unarchived -> Bodies] /\ Unarchived \subseteq Parts
        BY <1>1, RowFields DEF Listed, HasRow
    <2> QED BY <2>1, MapOf
<1>3. ASSUME PackKey(of) \in retired PROVE FALSE
    <2>1. PICK p \in Parts, b \in Bodies :
             <<p, b>> \in PackKey(of).holds /\ (~HasRow(p) \/ (Outdated(p, b) /\ Apart(b, row[p].sha)))
        BY <1>2, <1>3, PackHolds DEF RetiredPacks, PackIsPast
    <2>2. p \in Unarchived /\ b = row[p].sha
        BY <1>2, <2>1, PackHolds
    <2> QED BY <1>1, <2>1, <2>2 DEF Listed, Apart
<1> QED BY <1>3

\* A swap that begins goes on until the body is not the old one any more.
LEMMA SwapGoesOn ==
    ASSUME Types, [Next]_vars, ~Crash, NEW p \in Parts, Swapping(p), NEW b \in Bodies, b.form # "cold"
    PROVE  Swapping(p)' \/ Apart(b, local'[p])
<1>1. /\ cold.at = "swap" /\ cold.part = p /\ Cold(cold.body.gen).form = "cold"
      /\ local \in [Parts -> Contents]
    BY EncodedBody, Forms DEF Swapping, Types, Encoding, BodyTypes
<1>2. CASE ColdSwap
    <2>1. local'[p] = Cold(cold.body.gen)
        BY <1>1, <1>2 DEF ColdSwap
    <2> QED BY <1>1, <2>1 DEF Apart
<1>3. CASE ColdVersion
    <2>1. local'[p] = NoBody
        BY <1>1, <1>3 DEF ColdVersion
    <2> QED BY <2>1, Forms DEF Apart
<1>4. CASE cold' = cold
    BY <1>1, <1>4 DEF Swapping
<1> QED BY <1>1, <1>2, <1>3, <1>4
    DEF Next, vars, Lane, IngestFails, Start, MoveBody, WriteVersion, Publish, Upload, UploadFails, Mark,
        Finalize, FailFile, Store, ResumeStored, DeleteRaw, Finish,
        ColdThread, ColdGate, PickRetired, NoRetired, DeleteObject, ForgetRetired, ColdCopy, ColdIdle,
        ColdUpload, ColdCommit, Migrate, MigrateRead, MigratePack, MigrateMark, Release, Age,
        Sweep, SweepRead, SweepFilter, SweepEnd, SweepDrop, SweepReplace, SweepUpdate, SweepExpired, SweepMissing,
        SweepCopy, GraceEnds, EnableOss

\* A part of a retired pack whose body is re-encoded: it was not re-encoded before.
LEMMA CommitLeaves ==
    ASSUME Types, Commits, NEW b \in Bodies, CameFrom(cold.part, b)
    PROVE  Outdated(cold.part, b)' /\ Apart(b, row'[cold.part].sha)
<1>1. b.form # "cold"
    BY CommitFacts DEF CameFrom
<1>2. row'[cold.part].sha.form = "cold" /\ row'[cold.part].cut = row[cold.part].cut
    BY CommitFacts
<1>3. cold' = [cold EXCEPT !.at = "swap"] /\ cold \in ColdType
    BY CommitFacts DEF Commits, ColdCommit, Types, ColdTypes
<1>4. cold'.part = cold.part
    BY <1>3 DEF ColdType
<1> QED BY <1>1, <1>2, <1>4 DEF CameFrom, Outdated, Apart

LEMMA PackPastNext ==
    ASSUME Types, Phases, CutsGrow, RewritesAreCurrent, PacksHoldTheirParts, RetiredPacks, [Next]_vars,
           NEW k \in retired', k.pack
    PROVE  PackIsPast(k)'
<1>0. row \in [Parts -> Rows] /\ ColdTypes
    BY DEF Types, StoreTypes
<1>1. Finished
    <2>1. CASE MyLane
        BY <2>1, LaneKeys
    <2>2. CASE ~MyLane
        BY <2>2, KeysRetired DEF PacksHoldTheirParts
    <2> QED BY <2>1, <2>2
<1>2. CASE MyLane
    <2>1. UNCHANGED <<row, retired>>
        BY <1>1, <1>2, LanePhases DEF MyLane, storeVars
    <2> QED BY <2>1 DEF RetiredPacks, PackIsPast, HasRow, Outdated
<1>3. CASE ~MyLane
    <2>1. CASE k \in retired
        <3>1. PICK p \in Parts, b \in Bodies :
                 <<p, b>> \in k.holds /\ (~HasRow(p) \/ (Outdated(p, b) /\ Apart(b, row[p].sha)))
            BY <2>1 DEF RetiredPacks, PackIsPast
        <3>2. ~HasRow(p)' \/ (Outdated(p, b)' /\ Apart(b, row'[p].sha))
            <4>1. CASE HasRow(p)'
                BY <1>1, <1>3, <3>1, <4>1, RowsWane, OutdatedStays
            <4> QED BY <4>1
        <3> QED BY <3>1, <3>2 DEF PackIsPast
    <2>2. ASSUME NEW p \in Parts, k = row[p].key, row'[p] = NoRow \/ (Commits /\ p = cold.part)
          PROVE  PackIsPast(k)'
        <3>1. PICK b \in Bodies : <<p, b>> \in k.holds /\ CameFrom(p, b)
            BY <2>2 DEF PacksHoldTheirParts
        <3>2. CASE row'[p] = NoRow
            BY <3>1, <3>2 DEF PackIsPast, HasRow
        <3>3. CASE Commits /\ p = cold.part
            <4>1. Outdated(cold.part, b)' /\ Apart(b, row'[p].sha) /\ cold'.part = p
                BY <3>1, <3>3, CommitLeaves DEF Commits, ColdCommit, Types, ColdTypes, ColdType
            <4>2. Outdated(p, b)'
                BY <4>1 DEF Outdated
            <4> QED BY <3>1, <4>1, <4>2 DEF PackIsPast
        <3> QED BY <2>2, <3>2, <3>3
    <2> QED BY <1>3, <2>1, <2>2, KeysRetired
<1> QED BY <1>2, <1>3

\* A migration that has read its rows.
LEMMA ReadPastNext ==
    ASSUME Types, Phases, CutsGrow, RewritesAreCurrent, PacksHoldTheirParts, RetiredPacks, [Next]_vars,
           NEW m \in Migrations, mig'[m].at = "read", PackKey(mig'[m].of) \in retired'
    PROVE  ReadIsPast(mig[m].of)' /\ mig'[m] = mig[m]
<1>0. row \in [Parts -> Rows] /\ ColdTypes /\ mig \in [Migrations -> MigType]
    BY DEF Types, StoreTypes, MigTypes
<1>1. mig'[m] = mig[m] /\ mig[m].at = "read"
    <2>1. CASE MigrateRead(m) /\ mig'[m].of = [p \in Unarchived |-> row[p].sha]
        <3>1. retired' = retired
            BY <2>1 DEF MigrateRead, storeVars
        <3> QED BY <2>1, <3>1, ReadIsFresh
    <2> QED BY <2>1, MigSteps
<1> DEFINE of == mig[m].of
<1>2. Finished /\ ~Crash /\ of \in Over(Bodies) /\ DOMAIN of \subseteq Parts
    <2>1. Finished /\ of \in Over(Bodies)
        BY <1>0, <1>1, MigFields DEF Phases
    <2>2. ~Crash
        BY <1>1, IdleTypes DEF Crash
    <2> QED BY <2>1, <2>2, Maps
<1>3. CASE MyLane
    <2>1. UNCHANGED <<row, local, retired, cold>>
        <3>1. UNCHANGED <<row, local, retired>>
            BY <1>2, <1>3, LanePhases DEF MyLane, storeVars
        <3>2. cold' = cold
            BY <1>3 DEF MyLane, Lane, IngestFails, Start, MoveBody, WriteVersion, Publish, Upload, UploadFails, Mark,
                        Finalize, FailFile, Store, ResumeStored, DeleteRaw, Finish
        <3> QED BY <3>1, <3>2
    <2> QED BY <1>1, <2>1 DEF RetiredPacks, ReadIsPast, HasRow, Swapping, Outdated
<1>4. CASE ~MyLane
    <2>1. CASE PackKey(of) \in retired
        <3>1. PICK p \in DOMAIN of :
                 ~HasRow(p) \/ (Outdated(p, of[p]) /\ (Apart(of[p], local[p]) \/ Swapping(p)))
            BY <1>1, <2>1 DEF RetiredPacks, ReadIsPast
        <3>2. PICK b \in Bodies : b = of[p] /\ p \in Parts /\ mig'[m].of = of
            BY <1>1, <1>2, <3>1, Maps
        <3>3. ~HasRow(p)' \/ (Outdated(p, b)' /\ (Apart(b, local'[p]) \/ Swapping(p)'))
            <4>1. CASE HasRow(p)'
                <5>1. HasRow(p)
                    BY <1>2, <1>4, <3>2, <4>1, RowsWane
                <5>2. Outdated(p, b) /\ (Apart(b, local[p]) \/ Swapping(p))
                    BY <3>1, <3>2, <5>1
                <5>3. Outdated(p, b)' /\ (Apart(b, local[p]) => Apart(b, local'[p]))
                    BY <1>2, <1>4, <3>2, <4>1, <5>2, OutdatedStays
                <5>4. Swapping(p) => Swapping(p)' \/ Apart(b, local'[p])
                    BY <1>2, <3>2, <5>2, SwapGoesOn DEF Outdated
                <5> QED BY <5>2, <5>3, <5>4
            <4> QED BY <4>1
        <3>4. ~HasRow(p)' \/ (Outdated(p, mig[m].of[p])' /\ (Apart(mig[m].of[p], local[p])' \/ Swapping(p)'))
            BY <1>1, <3>2, <3>3 DEF Outdated, Apart
        <3> QED BY <1>1, <3>2, <3>4 DEF ReadIsPast
    <2>2. ASSUME NEW p \in Parts, PackKey(of) = row[p].key, row'[p] = NoRow \/ (Commits /\ p = cold.part)
          PROVE  ReadIsPast(of)'
        <3>0. PackKey(of).pack
            BY <1>2, PackHolds
        <3>1. PICK b \in Bodies : <<p, b>> \in PackKey(of).holds /\ CameFrom(p, b)
            <4> HIDE DEF of
            <4> QED BY <2>2, <3>0 DEF PacksHoldTheirParts
        <3>2. p \in DOMAIN of /\ of[p] = b /\ mig'[m].of = of
            BY <1>1, <1>2, <3>1, PackHolds
        <3>3. CASE row'[p] = NoRow
            BY <3>2, <3>3 DEF ReadIsPast, HasRow
        <3>4. CASE Commits /\ p = cold.part
            <4>1. Outdated(cold.part, b)' /\ Swapping(p)' /\ cold'.part = p
                BY <3>1, <3>4, CommitLeaves DEF Commits, ColdCommit, Swapping, Types, ColdTypes, ColdType
            <4>2. Outdated(p, mig[m].of[p])'
                BY <3>2, <4>1 DEF Outdated
            <4> QED BY <3>2, <4>1, <4>2 DEF ReadIsPast
        <3> QED BY <2>2, <3>3, <3>4
    <2> QED BY <1>1, <1>4, <2>1, <2>2, KeysRetired
<1> QED BY <1>1, <1>3, <1>4

LEMMA SpoiledStays ==
    ASSUME Types, Phases, CutsGrow, RewritesAreCurrent, [Next]_vars, Finished, NEW m \in Migrations, mig'[m].of = mig[m].of
    PROVE  /\ Spoiled(mig[m].of) => Spoiled(mig[m].of)'
           /\ Dead(mig[m].of) => Dead(mig[m].of)'
<1>1. DOMAIN mig[m].of \subseteq Parts /\ \A p \in DOMAIN mig[m].of : mig[m].of[p] \in Bodies
    BY MigFields, Maps DEF Types, MigTypes
<1>2. CASE MyLane
    <2>1. UNCHANGED <<row, local>>
        BY <1>2, LanePhases DEF MyLane
    <2> QED BY <2>1 DEF Spoiled, Dead, HasRow, Outdated
<1>3. CASE ~MyLane
    <2>1. \A p \in Parts : ~HasRow(p) => ~HasRow(p)'
        BY <1>3, RowsWane
    <2>2. ASSUME NEW p \in DOMAIN mig[m].of, ~HasRow(p) \/ (Outdated(p, mig[m].of[p]) /\ Apart(mig[m].of[p], local[p]))
          PROVE  Spoiled(mig[m].of)'
        <3>1. PICK b \in Bodies : b = mig[m].of[p] /\ p \in Parts
            BY <1>1
        <3>2. ~HasRow(p)' \/ (Outdated(p, b)' /\ Apart(b, local'[p]))
            <4>1. CASE HasRow(p)'
                BY <1>3, <2>1, <2>2, <3>1, <4>1, OutdatedStays
            <4> QED BY <4>1
        <3>3. ~HasRow(p)' \/ (Outdated(p, mig[m].of[p])' /\ Apart(mig[m].of[p], local[p])')
            BY <3>1, <3>2 DEF Outdated, Apart
        <3> QED BY <3>3 DEF Spoiled
    <2> QED BY <1>1, <2>1, <2>2 DEF Spoiled, Dead
<1> QED BY <1>2, <1>3

\* Keys get ready while no lock is held and nothing is packed.
LEMMA ReadyGrows ==
    ASSUME Types, Phases, RewritesAreCurrent, [Next]_vars, NEW k \in ready'
    PROVE  k \in ready \/ (k \in retired /\ GraceEnds(k))
<1>1. CASE MyLane
    <2>1. ready' \subseteq ready
        BY <1>1 DEF MyLane, Lane, IngestFails, Start, MoveBody, WriteVersion, Publish, Upload, UploadFails, Mark,
                    Finalize, DeletePart, Retire, FailFile, Store, ResumeStored, DeleteRaw, Finish, storeVars
    <2> QED BY <2>1
<1>2. CASE ~MyLane
    BY <1>2, KeysRetired
<1> QED BY <1>1, <1>2

LEMMA RetiredNext ==
    ASSUME Types, Phases, CutsGrow, RewritesAreCurrent, PacksHoldTheirParts, RetiredPacks, [Next]_vars
    PROVE  RetiredPacks'
<1>0. mig \in [Migrations -> MigType] /\ ready \subseteq retired
    BY DEF Types, MigTypes, StoreTypes
<1>1. \A k \in retired' : k.pack => PackIsPast(k)'
    BY PackPastNext
<1>2. ASSUME NEW m \in Migrations, mig'[m].at = "read", PackKey(mig'[m].of) \in retired'
      PROVE  ReadIsPast(mig[m].of)'
    BY <1>2, ReadPastNext
<1>3. ASSUME NEW m \in Migrations, mig'[m].at = "read", PackKey(mig'[m].of) \in ready'
      PROVE  Spoiled(mig[m].of)'
    <2>1. ready' \subseteq retired'
        BY TypesNext DEF Types, StoreTypes
    <2>2. mig'[m] = mig[m] /\ mig[m].at = "read" /\ Finished
        BY <1>3, <2>1, ReadPastNext DEF Phases
    <2>3. CASE PackKey(mig[m].of) \in ready
        <3>1. Spoiled(mig[m].of)
            BY <2>2, <2>3 DEF RetiredPacks
        <3> QED BY <2>2, <3>1, SpoiledStays
    <2>4. CASE PackKey(mig[m].of) \in retired /\ GraceEnds(PackKey(mig[m].of))
        <3>1. PICK p \in DOMAIN mig[m].of :
                 ~HasRow(p) \/ (Outdated(p, mig[m].of[p]) /\ (Apart(mig[m].of[p], local[p]) \/ Swapping(p)))
            BY <2>2, <2>4 DEF RetiredPacks, ReadIsPast
        <3>2. ~Swapping(p)
            BY <2>4 DEF GraceEnds, Swapping, Phases
        <3>3. UNCHANGED <<row, local>>
            BY <2>4 DEF GraceEnds, bodyVars
        <3> QED BY <2>2, <3>1, <3>2, <3>3 DEF Spoiled, HasRow, Outdated
    <2>5. PackKey(mig[m].of) \in ready'
        BY <1>3, <2>2
    <2> QED BY <2>3, <2>4, <2>5, ReadyGrows
<1>4. ASSUME NEW m \in Migrations, mig'[m].at = "packed", PackKey(mig'[m].of) \in ready'
      PROVE  Dead(mig[m].of)'
    <2>1. CASE mig'[m] = mig[m]
        <3>1. Finished /\ mig[m].at = "packed"
            BY <1>4, <2>1 DEF Phases
        <3>2. PackKey(mig[m].of) \in ready' /\ ~GraceEnds(PackKey(mig[m].of))
            BY <1>4, <2>1, <3>1 DEF GraceEnds
        <3>3. PackKey(mig[m].of) \in ready
            BY <3>2, ReadyGrows
        <3>4. Dead(mig[m].of)
            BY <3>1, <3>3 DEF RetiredPacks
        <3> QED BY <2>1, <3>1, <3>4, SpoiledStays
    <2>2. CASE /\ MigratePack(m) /\ mig'[m].of = mig[m].of /\ mig[m].at = "read"
               /\ \A p \in DOMAIN mig[m].of : local[p] = mig[m].of[p]
        <3>1. Finished /\ UNCHANGED <<row, ready>>
            BY <2>2 DEF MigratePack, Phases
        <3>2. PackKey(mig[m].of) \in ready
            BY <1>4, <2>2, <3>1
        <3>3. Spoiled(mig[m].of)
            BY <2>2, <3>2 DEF RetiredPacks
        <3>4. Dead(mig[m].of)
            BY <2>2, <3>3 DEF Spoiled, Dead, Apart
        <3> QED BY <2>2, <3>1, <3>4 DEF Dead, HasRow
    <2> QED BY <1>4, <2>1, <2>2, MigSteps
<1> QED BY <1>1, <1>2, <1>3, <1>4 DEF RetiredPacks, PackIsPast, ReadIsPast
-----------------------------------------------------------------------------
(***************************************************************************)
(* Objects.                                                                 *)
(***************************************************************************)
UploadedExists(p) == step[p] = "uploaded" => PartKey(p, Body) \in objects
PackedExists(m) == mig[m].at = "packed" => PackKey(mig[m].of) \in objects \/ Dead(mig[m].of)
EncodedExists == cold.at = "uploaded" => NewKey \in objects
DoomedIsUnnamed == cold.at = "delete" => cold.key \in ready /\ \A p \in Parts : row[p].key # cold.key

\* Only the cold compression thread deletes objects.
LEMMA StoreGrows ==
    ASSUME [Next]_vars, ~DeleteObject
    PROVE  objects \subseteq objects'
BY DEF Next, vars, Lane, IngestFails, Start, MoveBody, WriteVersion, Publish, Upload, UploadFails, Mark,
       Finalize, FailFile, Store, ResumeStored, DeleteRaw, Finish,
       ColdThread, ColdGate, PickRetired, NoRetired, ForgetRetired, ColdCopy, ColdIdle,
       ColdUpload, ColdCommit, ColdSwap, ColdVersion, Migrate, MigrateRead, MigratePack, MigrateMark, Release, Age,
       Sweep, SweepRead, SweepFilter, SweepEnd, SweepDrop, SweepReplace, SweepUpdate, SweepExpired, SweepMissing,
       SweepCopy, GraceEnds, EnableOss, Crash, storeVars

\* What it deletes is wanted by nobody.
LEMMA DeletedIsUnwanted ==
    ASSUME Types, Phases, RetiredPacks, ObjectsExist, DeleteObject
    PROVE  ObjectsExist'
<1>1. /\ cold.at = "delete" /\ objects' = objects \ {cold.key} /\ cold'.at = "forget"
      /\ UNCHANGED <<state, job, step, plan, row, mig>>
    BY DEF DeleteObject, fileVars, Types, ColdTypes, ColdType
<1>2. cold.key \in ready /\ \A p \in Parts : row[p].key # cold.key
    BY <1>1 DEF ObjectsExist
<1>3. ReferencedObjectsExist'
    BY <1>1, <1>2 DEF ObjectsExist, ReferencedObjectsExist, Archived
<1>4. \A p \in Parts : step[p] # "uploaded"
    BY <1>1 DEF Phases, InLane
<1>5. \A m \in Migrations : PackedExists(m)'
    BY <1>1, <1>2 DEF ObjectsExist, RetiredPacks, PackedExists, Dead, HasRow
<1> QED BY <1>1, <1>3, <1>4, <1>5 DEF ObjectsExist, PackedExists

\* A row that names an object got it from a part or pack that was uploaded.
LEMMA NamedNext ==
    ASSUME Types, Phases, CutsGrow, RewritesAreCurrent, ObjectsExist, [Next]_vars, ~DeleteObject
    PROVE  ReferencedObjectsExist'
<1>0. /\ row \in [Parts -> Rows] /\ mig \in [Migrations -> MigType] /\ ColdTypes /\ FileTypes
      /\ objects \subseteq objects'
    BY StoreGrows DEF Types, StoreTypes, MigTypes
<1> SUFFICES ASSUME NEW p \in Parts PROVE Archived(p)' => row'[p].key \in objects'
    BY DEF ReferencedObjectsExist, Archived
<1>1. row'[p] = row[p] \/ row'[p].key \in {row[p].key, NoKey} => (Archived(p)' => row'[p].key \in objects')
    BY <1>0 DEF Archived, ObjectsExist, ReferencedObjectsExist
<1>2. NoRow.key = NoKey
    BY DEF NoRow
<1>3. ASSUME MyLane PROVE Archived(p)' => row'[p].key \in objects'
    <2>1. CASE \E q \in Parts : Publish(q)
        BY <1>0, <1>1, <2>1 DEF Publish, Ingested, KeptKey
    <2>2. ASSUME NEW q \in Parts, Mark(q) PROVE Archived(p)' => row'[p].key \in objects'
        <3>1. PartKey(q, Body) \in objects'
            BY <1>0, <2>2 DEF Mark, ObjectsExist
        <3>2. HasRow(q) => row[q] \in FullRows
            BY <1>0, RowFields DEF HasRow
        <3>3. row'[p] = row[p] \/ row'[p].key = PartKey(q, Body)
            BY <1>0, <2>2, <3>2 DEF Mark, FullRows
        <3> QED BY <1>1, <3>1, <3>3
    <2>3. CASE \E q \in Parts : Finalize(q)
        BY <1>0, <1>1, <1>2, <2>3 DEF Finalize, DeletePart
    <2>4. CASE row' = row
        BY <1>1, <2>4
    <2>5. row' = row \/ \E q \in Parts : Publish(q) \/ Mark(q) \/ Finalize(q)
        BY <1>3 DEF MyLane, Lane, IngestFails, Start, MoveBody, WriteVersion, Upload, UploadFails,
               FailFile, Store, ResumeStored, DeleteRaw, Finish
    <2> QED BY <2>1, <2>2, <2>3, <2>4, <2>5
<1>4. ASSUME NEW m \in Migrations, Marks(m),
             row' = [q \in Parts |-> IF q \in DOMAIN mig[m].of THEN [row[q] EXCEPT !.key = PackKey(mig[m].of)] ELSE row[q]]
      PROVE  Archived(p)' => row'[p].key \in objects'
    <2>1. ~Dead(mig[m].of)
        BY <1>4 DEF Marks, Listed, Dead
    <2>2. PackKey(mig[m].of) \in objects'
        BY <1>0, <1>4, <2>1 DEF ObjectsExist, Marks, MigrateMark
    <2>3. CASE p \in DOMAIN mig[m].of
        <3>1. HasRow(p) /\ PackKey(mig[m].of) \in Keys
            BY <1>0, <1>4, <2>3, MigFields, PackHolds DEF Marks, Listed
        <3>2. row'[p].key = PackKey(mig[m].of)
            BY <1>0, <1>4, <2>3, <3>1, MarkedRow DEF HasRow
        <3> QED BY <2>2, <3>2
    <2>4. CASE p \notin DOMAIN mig[m].of
        BY <1>1, <1>4, <2>4
    <2> QED BY <2>3, <2>4
<1>5. ASSUME Commits, row' = [row EXCEPT ![cold.part] = Encoded]
      PROVE  Archived(p)' => row'[p].key \in objects'
    <2>1. NewKey \in objects'
        BY <1>0, <1>5 DEF Commits, ColdCommit, ObjectsExist
    <2>2. row'[p] = row[p] \/ row'[p].key = NewKey
        BY <1>0, CommitFacts, <1>5
    <2> QED BY <1>1, <2>1, <2>2
<1>6. ASSUME NEW q \in Parts, DeletePart(q) PROVE Archived(p)' => row'[p].key \in objects'
    BY <1>0, <1>1, <1>2, <1>6 DEF DeletePart
<1>7. CASE row' = row
    BY <1>1, <1>7
<1>8. ASSUME Rewrites(sweep.part) PROVE Archived(p)' => row'[p].key \in objects'
    <2>1. row'[p] = row[p] \/ row'[p].key \in {row[p].key, NoKey}
        BY <1>0, <1>8, RewriteFacts, KeptKeys
    <2> QED BY <1>1, <2>1
<1> QED BY <1>3, <1>4, <1>5, <1>6, <1>7, <1>8, RowEffects

\* What has been uploaded is there until it is marked.
LEMMA UploadedNext ==
    ASSUME Types, Phases, ObjectsExist, [Next]_vars, ~DeleteObject, NEW p \in Parts
    PROVE  UploadedExists(p)'
<1>0. step \in [Parts -> StepNames] /\ objects \subseteq objects'
    BY StoreGrows DEF Types, FileTypes
<1>1. CASE Upload(p)
    BY <1>1 DEF Upload, UploadedExists, Body
<1>2. CASE step'[p] = "uploaded" /\ ~Upload(p)
    <2>1. plan' = plan /\ step[p] = "uploaded"
        <3>1. CASE Lane
            <4>1. ASSUME NEW keep \in SUBSET Parts, NEW g \in Gens, NEW d \in BOOLEAN, Start(keep, g, d) PROVE FALSE
                BY <1>2, <4>1 DEF Start
            <4>2. ASSUME NEW q \in Parts,
                         MoveBody(q) \/ WriteVersion(q) \/ Publish(q) \/ Upload(q) \/ UploadFails(q) \/ Mark(q) \/ Finalize(q)
                  PROVE  plan' = plan /\ step[p] = "uploaded"
                BY <1>0, <1>2, <4>2 DEF MoveBody, WriteVersion, Publish, Upload, UploadFails, Mark, Finalize, fileVars
            <4>3. CASE FailFile \/ Store \/ DeleteRaw \/ Finish
                BY <1>2, <4>3 DEF FailFile, Store, DeleteRaw, Finish
            <4>4. CASE ResumeStored
                BY <1>2, <4>4 DEF ResumeStored, Phases, InLane
            <4> QED BY <3>1, <4>1, <4>2, <4>3, <4>4 DEF Lane
        <3>2. CASE \E q \in Parts : IngestFails(q)
            BY <1>0, <1>2, <3>2 DEF IngestFails
        <3>3. CASE ~Lane /\ ~\E q \in Parts : IngestFails(q)
            BY <1>2, <3>3, LaneOnly DEF Crash
        <3> QED BY <3>1, <3>2, <3>3
    <2> QED BY <1>0, <2>1 DEF ObjectsExist, UploadedExists, Body
<1> QED BY <1>1, <1>2 DEF UploadedExists

LEMMA PackedNext ==
    ASSUME Types, Phases, CutsGrow, RewritesAreCurrent, ObjectsExist, [Next]_vars, ~DeleteObject, NEW m \in Migrations
    PROVE  PackedExists(m)'
<1>0. objects \subseteq objects' /\ mig \in [Migrations -> MigType]
    BY StoreGrows DEF Types, MigTypes
<1>1. CASE mig'[m] = mig[m] /\ mig[m].at = "packed"
    <2>1. Finished
        BY <1>1 DEF Phases
    <2>2. PackKey(mig[m].of) \in objects \/ Dead(mig[m].of)
        BY <1>1 DEF ObjectsExist
    <2>3. Dead(mig[m].of) => Dead(mig[m].of)'
        BY <1>1, <2>1, SpoiledStays
    <2> QED BY <1>0, <1>1, <2>2, <2>3 DEF PackedExists
<1>2. CASE MigratePack(m) /\ mig'[m].at = "packed" /\ mig'[m].of = mig[m].of
    <2>1. PackKey(mig[m].of) \in objects'
        BY <1>0, <1>2, IdleTypes DEF MigratePack
    <2> QED BY <1>2, <2>1 DEF PackedExists
<1>3. CASE mig'[m].at # "packed"
    BY <1>3 DEF PackedExists
<1> QED BY <1>1, <1>2, <1>3, MigSteps

\* What the cold compression thread has encoded, and what it is about to delete.
LEMMA EncodedNext ==
    ASSUME Types, ObjectsExist, [Next]_vars, ~DeleteObject
    PROVE  EncodedExists'
<1>0. objects \subseteq objects' /\ cold \in ColdType
    BY StoreGrows DEF Types, ColdTypes
<1>1. CASE ColdUpload
    <2>1. cold'.part = cold.part /\ cold'.body = cold.body /\ NewKey \in objects'
        BY <1>0, <1>1 DEF ColdUpload, ColdType
    <2> QED BY <2>1 DEF EncodedExists, NewKey
<1>2. CASE cold' = cold
    BY <1>0, <1>2 DEF ObjectsExist, EncodedExists, NewKey
<1>3. CASE cold'.at # "uploaded"
    BY <1>3 DEF EncodedExists
<1>4. CASE ColdThread /\ ~ColdUpload
    <2>1. cold'.at # "uploaded"
        <3>1. CASE ColdCommit \/ ColdSwap \/ ColdVersion
            BY <1>0, <3>1, IdleTypes DEF ColdCommit, ColdSwap, ColdVersion, ColdType
        <3>2. CASE ~(ColdCommit \/ ColdSwap \/ ColdVersion)
            BY <1>0, <1>4, <3>2, IdleTypes DEF ColdThread, ColdGate, PickRetired, NoRetired, DeleteObject, ForgetRetired,
               ColdCopy, ColdIdle, ColdType, IdleCold
        <3> QED BY <3>1, <3>2
    <2> QED BY <1>3, <2>1
<1>5. CASE Crash
    BY <1>3, <1>5, IdleTypes DEF Crash
<1> QED BY <1>1, <1>2, <1>4, <1>5
    DEF Next, vars, Lane, IngestFails, Start, MoveBody, WriteVersion, Publish, Upload, UploadFails, Mark,
        Finalize, FailFile, Store, ResumeStored, DeleteRaw, Finish,
        Migrate, MigrateRead, MigratePack, MigrateMark, Release, Age,
        Sweep, SweepRead, SweepFilter, SweepEnd, SweepDrop, SweepReplace, SweepUpdate, SweepExpired, SweepMissing,
        SweepCopy, GraceEnds, EnableOss

LEMMA DoomedNext ==
    ASSUME Types, Phases, CutsGrow, RewritesAreCurrent, PacksHoldTheirParts, RetiredPacks, ObjectsExist, [Next]_vars
    PROVE  DoomedIsUnnamed'
<1>0. /\ row \in [Parts -> Rows] /\ mig \in [Migrations -> MigType] /\ cold \in ColdType /\ ready \subseteq retired
      /\ \A k \in retired : k # NoKey
    BY DEF Types, StoreTypes, MigTypes, ColdTypes, PacksHoldTheirParts
<1>1. CASE \E k \in ready : PickRetired(k)
    BY <1>0, <1>1 DEF PickRetired, Deletable, DoomedIsUnnamed, ColdType, storeVars
<1>2. CASE cold' = cold /\ cold.at = "delete"
    <2>1. ~MyLane /\ ~Commits /\ ~ForgetRetired
        BY <1>2, LanePhases DEF MyLane, Commits, ColdCommit, ForgetRetired
    <2>2. cold.key \in ready /\ cold.key # NoKey /\ \A p \in Parts : row[p].key # cold.key
        BY <1>0, <1>2 DEF ObjectsExist
    <2>3. ASSUME NEW p \in Parts, DeletePart(p) PROVE DoomedIsUnnamed'
        <3>1. cold.key \in ready'
            BY <1>0, <2>2, <2>3 DEF DeletePart, Retire
        <3>2. \A q \in Parts : row'[q].key \in {row[q].key, NoKey}
            BY <1>0, <2>3 DEF DeletePart, NoRow
        <3> QED BY <1>2, <2>2, <3>1, <3>2 DEF DoomedIsUnnamed
    <2>4. ASSUME NEW m \in Migrations, Marks(m), ready' = ready,
                 row' = [q \in Parts |-> IF q \in DOMAIN mig[m].of THEN [row[q] EXCEPT !.key = PackKey(mig[m].of)] ELSE row[q]]
          PROVE  DoomedIsUnnamed'
        <3>1. PackKey(mig[m].of) # cold.key
            BY <2>2, <2>4 DEF RetiredPacks, Marks, MigrateMark, Dead, Listed
        <3>2. ASSUME NEW p \in Parts PROVE row'[p].key \in {row[p].key, PackKey(mig[m].of)}
            <4>1. CASE p \in DOMAIN mig[m].of
                <5>1. HasRow(p) /\ PackKey(mig[m].of) \in Keys
                    BY <1>0, <2>4, <4>1, MigFields, PackHolds DEF Marks, Listed
                <5> QED BY <1>0, <2>4, <4>1, <5>1, MarkedRow DEF HasRow
            <4>2. CASE p \notin DOMAIN mig[m].of
                BY <2>4, <4>2
            <4> QED BY <4>1, <4>2
        <3> QED BY <1>2, <2>2, <2>4, <3>1, <3>2 DEF DoomedIsUnnamed
    <2>5. ASSUME row' = row, UNCHANGED <<retired, ready>> \/ \E k \in retired : GraceEnds(k) PROVE DoomedIsUnnamed'
        BY <1>2, <2>2, <2>5 DEF GraceEnds, DoomedIsUnnamed
    <2>6. ASSUME Rewrites(sweep.part), ready' = ready PROVE DoomedIsUnnamed'
        <3>1. \A q \in Parts : row'[q].key \in {row[q].key, NoKey}
            BY <1>0, <2>6, RewriteFacts, KeptKeys
        <3> QED BY <1>2, <2>2, <2>6, <3>1 DEF DoomedIsUnnamed
    <2> QED BY <2>1, <2>3, <2>4, <2>5, <2>6, RowEffects
<1>3. CASE cold'.at # "delete"
    BY <1>3 DEF DoomedIsUnnamed
<1>4. CASE ColdThread /\ ~\E k \in ready : PickRetired(k)
    <2>1. cold'.at # "delete"
        <3>1. CASE ColdCommit \/ ColdSwap \/ ColdVersion
            BY <1>0, <3>1, IdleTypes DEF ColdCommit, ColdSwap, ColdVersion, ColdType
        <3>2. CASE ~(ColdCommit \/ ColdSwap \/ ColdVersion)
            BY <1>0, <1>4, <3>2, IdleTypes DEF ColdThread, ColdGate, NoRetired, DeleteObject, ForgetRetired,
               ColdCopy, ColdIdle, ColdUpload, ColdType, IdleCold
        <3> QED BY <3>1, <3>2
    <2> QED BY <1>3, <2>1
<1>5. CASE Crash
    BY <1>3, <1>5, IdleTypes DEF Crash
<1>6. CASE cold' = cold
    BY <1>2, <1>3, <1>6
<1> QED BY <1>1, <1>4, <1>5, <1>6
    DEF Next, vars, Lane, IngestFails, Start, MoveBody, WriteVersion, Publish, Upload, UploadFails, Mark,
        Finalize, FailFile, Store, ResumeStored, DeleteRaw, Finish,
        Migrate, MigrateRead, MigratePack, MigrateMark, Release, Age,
        Sweep, SweepRead, SweepFilter, SweepEnd, SweepDrop, SweepReplace, SweepUpdate, SweepExpired, SweepMissing,
        SweepCopy, GraceEnds, EnableOss

LEMMA ObjectsNext ==
    ASSUME Types, Phases, CutsGrow, RewritesAreCurrent, PacksHoldTheirParts, RetiredPacks, ObjectsExist, [Next]_vars
    PROVE  ObjectsExist'
<1>1. CASE DeleteObject
    BY <1>1, DeletedIsUnwanted
<1>2. CASE ~DeleteObject
    <2>1. ReferencedObjectsExist'
        BY <1>2, NamedNext
    <2>2. \A p \in Parts : UploadedExists(p)'
        BY <1>2, UploadedNext
    <2>3. \A m \in Migrations : PackedExists(m)'
        BY <1>2, PackedNext
    <2>4. EncodedExists' /\ DoomedIsUnnamed'
        BY <1>2, EncodedNext, DoomedNext
    <2> QED BY <2>1, <2>2, <2>3, <2>4 DEF ObjectsExist, UploadedExists, PackedExists, EncodedExists, DoomedIsUnnamed
<1> QED BY <1>1, <1>2
-----------------------------------------------------------------------------
(***************************************************************************)
(* Durability.  Part by part, what a step does to the body, the row and     *)
(* the step of a part.                                                      *)
(***************************************************************************)
\* Without the archive nothing is archived; it is not turned off again.
ArchiveIsOn ==
    /\ ~ossOn => /\ ~plan.oss /\ cold.at = "idle"
                 /\ \A p \in Parts : ~Archived(p)
                 /\ \A m \in Migrations : mig[m].at = "idle"
    /\ InLane /\ ~plan.oss => \A p \in Parts : ~Archived(p) /\ step[p] \notin {"published", "uploaded"}

\* A part is on the disk until it is archived, from the moment its attempt moves the
\* body when the archive is off, and from the moment it is settled when it is on.
BodiesKept ==
    /\ \A p \in Parts : Archived(p) => \E b \in Bodies : <<p, b>> \in row[p].key.holds
    /\ \A p \in Live : Finished \/ (InLane /\ step[p] = "settled") => Archived(p) \/ local[p] # NoBody
    /\ \A p \in Parts : InLane /\ ~plan.oss /\ step[p] \in Begun /\ age[p] # Expired => local[p] # NoBody
    /\ \A p \in DOMAIN sweep.due : sweep.due[p] = Expired => age[p] = Expired

\* Whoever holds a body of a part, in memory, on the disk or in the store, has the
\* events of the attempt in the row.
GensAgree ==
    /\ \A p \in Parts : Archived(p) => \E b \in Bodies : <<p, b>> \in row[p].key.holds /\ b.gen = row[p].sha.gen
    /\ \A p \in Parts : InLane /\ step[p] \in Written /\ HasRow(p) =>
          row[p].sha.gen = plan.gen /\ row[p].object.gen = plan.gen
    /\ \A p \in Parts : InLane /\ step[p] \in Begun /\ local[p] # NoBody => local[p].gen = plan.gen
    /\ sweep.at = "copied" /\ InLane /\ step[sweep.part] \in Written => sweep.body.gen = plan.gen
    /\ \A p \in Parts : Finished /\ HasRow(p) => /\ row[p].object.gen = row[p].sha.gen
                                                 /\ local[p] # NoBody => local[p].gen = row[p].sha.gen
    /\ sweep.at = "copied" /\ Finished /\ HasRow(sweep.part) => sweep.body.gen = row[sweep.part].sha.gen
    /\ cold.at \in Encoding /\ HasRow(cold.part) => cold.body.gen = row[cold.part].sha.gen
    /\ \A m \in Migrations : \A p \in DOMAIN mig[m].of :
          mig[m].at # "idle" /\ HasRow(p) => mig[m].of[p].gen = row[p].sha.gen

\* The steps that write the body of a part.
LEMMA BodyEffects ==
    ASSUME Types, [Next]_vars, NEW p \in Parts, local'[p] # local[p]
    PROVE  \/ MoveBody(p) /\ local'[p] = Body
           \/ (IngestFails(p) \/ Finalize(p) \/ Release(p) \/ SweepExpired(p)) /\ local'[p] = NoBody
           \/ ColdSwap /\ p = cold.part /\ local'[p] = Cold(cold.body.gen)
           \/ SweepReplace /\ p = sweep.part /\ local'[p] = sweep.body
<1>0. local \in [Parts -> Contents]
    BY DEF Types, BodyTypes
<1>1. ASSUME NEW q \in Parts, Drop(q) PROVE q = p /\ local'[p] = NoBody
    BY <1>0, <1>1 DEF Drop
<1>2. ASSUME NEW q \in Parts, MoveBody(q) PROVE q = p /\ local'[p] = Body
    BY <1>0, <1>2 DEF MoveBody
<1>3. CASE ColdSwap
    BY <1>0, <1>3 DEF ColdSwap
<1>4. CASE SweepReplace
    BY <1>0, <1>4 DEF SweepReplace
<1>5. CASE \E q \in Parts : IngestFails(q) \/ Finalize(q) \/ Release(q) \/ SweepExpired(q)
    BY <1>1, <1>5 DEF IngestFails, Finalize, Release, SweepExpired
<1> QED BY <1>2, <1>3, <1>4, <1>5
    DEF Next, vars, Lane, Start, WriteVersion, Publish, Upload, UploadFails, Mark,
        FailFile, Store, ResumeStored, DeleteRaw, Finish,
        ColdThread, ColdGate, PickRetired, NoRetired, DeleteObject, ForgetRetired, ColdCopy, ColdIdle,
        ColdUpload, ColdCommit, ColdVersion, Migrate, MigrateRead, MigratePack, MigrateMark, Age,
        Sweep, SweepRead, SweepFilter, SweepEnd, SweepDrop, SweepUpdate, SweepMissing, SweepCopy, GraceEnds,
        EnableOss, Crash, bodyVars

\* The steps that write the row of a part.
SameDigests(p) ==
    HasRow(p) /\ row'[p].sha = row[p].sha /\ row'[p].object = row[p].object /\ row'[p].cut = row[p].cut

RowWritten(p) ==
    \/ row'[p] = NoRow
    \/ Publish(p) /\ row'[p] = Ingested(p, Body)
    \/ Mark(p) /\ SameDigests(p) /\ row'[p].key = PartKey(p, Body)
    \/ \E m \in Migrations : /\ Marks(m) /\ p \in DOMAIN mig[m].of
                             /\ SameDigests(p) /\ row'[p].key = PackKey(mig[m].of)
    \/ Commits /\ p = cold.part /\ row'[p] = Encoded
    \/ Rewrites(sweep.part) /\ p = sweep.part

LEMMA RowOfPart ==
    ASSUME Types, [Next]_vars, NEW p \in Parts, row'[p] # row[p]
    PROVE  RowWritten(p)
<1>0. row \in [Parts -> Rows] /\ mig \in [Migrations -> MigType]
    BY DEF Types, StoreTypes, MigTypes
<1>1. ASSUME NEW q \in Parts, DeletePart(q) PROVE row'[p] = NoRow
    BY <1>0, <1>1 DEF DeletePart
<1>2. CASE MyLane
    <2>1. ASSUME NEW q \in Parts, Publish(q) PROVE RowWritten(p)
        BY <1>0, <2>1 DEF Publish, RowWritten
    <2>2. ASSUME NEW q \in Parts, Mark(q) PROVE RowWritten(p)
        <3>1. HasRow(q) => row[q] \in FullRows
            BY <1>0, RowFields DEF HasRow
        <3>2. q = p /\ SameDigests(p) /\ row'[p].key = PartKey(p, Body)
            BY <1>0, <2>2, <3>1 DEF Mark, FullRows, SameDigests, HasRow
        <3> QED BY <2>2, <3>2 DEF RowWritten
    <2>3. CASE \E q \in Parts : Finalize(q)
        BY <1>1, <2>3 DEF Finalize, RowWritten
    <2>4. row' = row \/ \E q \in Parts : Publish(q) \/ Mark(q) \/ Finalize(q)
        BY <1>2 DEF MyLane, Lane, IngestFails, Start, MoveBody, WriteVersion, Upload, UploadFails,
               FailFile, Store, ResumeStored, DeleteRaw, Finish
    <2> QED BY <2>1, <2>2, <2>3, <2>4
<1>3. CASE ~MyLane
    <2>1. ASSUME NEW m \in Migrations, Marks(m),
                 row' = [q \in Parts |-> IF q \in DOMAIN mig[m].of THEN [row[q] EXCEPT !.key = PackKey(mig[m].of)] ELSE row[q]]
          PROVE  RowWritten(p)
        <3>1. p \in DOMAIN mig[m].of
            BY <1>0, <2>1
        <3>2. HasRow(p) /\ PackKey(mig[m].of) \in Keys
            BY <1>0, <2>1, <3>1, MigFields, PackHolds DEF Marks, Listed
        <3>3. SameDigests(p) /\ row'[p].key = PackKey(mig[m].of)
            BY <1>0, <2>1, <3>1, <3>2, MarkedRow DEF HasRow, SameDigests
        <3> QED BY <2>1, <3>1, <3>2, <3>3 DEF RowWritten
    <2>2. ASSUME Commits, row' = [row EXCEPT ![cold.part] = Encoded]
          PROVE  RowWritten(p)
        BY <1>0, <2>2, CommitFacts DEF RowWritten
    <2>3. ASSUME Rewrites(sweep.part) PROVE RowWritten(p)
        BY <1>0, <2>3, RewriteFacts DEF RowWritten
    <2>4. ASSUME NEW q \in Parts, DeletePart(q) PROVE RowWritten(p)
        BY <1>1, <2>4 DEF RowWritten
    <2> QED BY <1>3, <2>1, <2>2, <2>3, <2>4, RowEffects
<1> QED BY <1>2, <1>3

\* A lane that is not just starting goes on with its plan, part by part.
StepTaken(p) ==
    \/ step'[p] = step[p]
    \/ step'[p] = "none"
    \/ MoveBody(p) /\ step'[p] = "moved"
    \/ WriteVersion(p) /\ step[p] = "moved" /\ step'[p] = "written"
    \/ Publish(p) /\ step[p] = "written"
    \/ Upload(p) /\ step[p] = "published" /\ step'[p] = "uploaded"
    \/ Mark(p) /\ step[p] = "uploaded" /\ step'[p] = "settled"

LEMMA StepOfPart ==
    ASSUME Types, Phases, [Next]_vars, InLane', NEW p \in Parts
    PROVE  \/ \E keep \in SUBSET Parts, g \in Gens, d \in BOOLEAN : Start(keep, g, d)
           \/ InLane /\ plan' = plan /\ StepTaken(p)
<1>0. step \in [Parts -> StepNames]
    BY DEF Types, FileTypes
<1>1. CASE ~MyLane
    BY <1>1, LaneOnly DEF MyLane, Crash, InLane, StepTaken
<1>2. CASE \E keep \in SUBSET Parts \ {{}}, g \in Gens, d \in BOOLEAN : Start(keep, g, d)
    BY <1>2
<1>3. ASSUME NEW q \in Parts, MoveBody(q) \/ WriteVersion(q) \/ Publish(q)
      PROVE  InLane /\ plan' = plan /\ StepTaken(p)
    BY <1>0, <1>3 DEF MoveBody, WriteVersion, Publish, InLane, StepTaken
<1>4. ASSUME NEW q \in Parts, Upload(q) \/ UploadFails(q) \/ Mark(q) \/ IngestFails(q)
      PROVE  InLane /\ plan' = plan /\ StepTaken(p)
    BY <1>0, <1>4 DEF Upload, UploadFails, Mark, IngestFails, InLane, StepTaken
<1>5. ASSUME NEW q \in Parts, Finalize(q) PROVE InLane /\ plan' = plan /\ StepTaken(p)
    BY <1>5 DEF Finalize, Parsed, InLane, StepTaken, fileVars
<1>6. ~(FailFile \/ Store \/ ResumeStored \/ DeleteRaw \/ Finish)
    BY DEF FailFile, Store, ResumeStored, DeleteRaw, Finish, InLane
<1> QED BY <1>1, <1>2, <1>3, <1>4, <1>5, <1>6 DEF MyLane, Lane

\* A file gets finished when all its parts are settled.
LEMMA GetsFinished ==
    ASSUME Types, Phases, [Next]_vars, Finished', ~Finished
    PROVE  Store /\ InLane /\ UNCHANGED <<row, local, sweep, age>> /\ \A p \in Listed : step[p] = "settled"
<1>1. MyLane
    BY LaneOnly DEF MyLane, Finished
<1>2. ~\E keep \in SUBSET Parts \ {{}}, g \in Gens, d \in BOOLEAN : Start(keep, g, d)
    BY DEF Start, Finished
<1>3. Store
    BY <1>1, <1>2 DEF MyLane, Lane, IngestFails, MoveBody, WriteVersion, Publish, Upload, UploadFails, Mark, Finalize,
           FailFile, ResumeStored, DeleteRaw, Finish, Finished, Phases, fileVars
<1> QED BY <1>3 DEF Store, Parsed, InLane, bodyVars, envVars

LEMMA AgeGoesOn ==
    ASSUME Types, [Next]_vars, NEW p \in Parts, age'[p] # Expired
    PROVE  age[p] # Expired
<1>0. age \in [Parts -> Ages]
    BY DEF Types, TimeTypes
<1>1. ASSUME NEW q \in Parts, Age(q) PROVE age[p] # Expired
    BY <1>0, <1>1, BoundsAssumption DEF Age, Ages, Expired
<1>2. age' = age \/ \E q \in Parts : Age(q)
    BY DEF Next, vars, Lane, IngestFails, Start, MoveBody, WriteVersion, Publish, Upload, UploadFails, Mark, Finalize,
        FailFile, Store, ResumeStored, DeleteRaw, Finish,
        ColdThread, ColdGate, PickRetired, NoRetired, DeleteObject, ForgetRetired, ColdCopy, ColdIdle,
        ColdUpload, ColdCommit, ColdSwap, ColdVersion, Migrate, MigrateRead, MigratePack, MigrateMark, Release,
        Sweep, SweepRead, SweepFilter, SweepEnd, SweepDrop, SweepReplace, SweepUpdate, SweepExpired, SweepMissing,
        SweepCopy, GraceEnds, EnableOss, Crash, envVars
<1> QED BY <1>1, <1>2

\* Who switches what on while the archive is off.
LEMMA ArchiveNext ==
    ASSUME Types, Phases, ArchiveIsOn, [Next]_vars
    PROVE  ArchiveIsOn'
<1>0. /\ ossOn \in BOOLEAN /\ row \in [Parts -> Rows] /\ step \in [Parts -> StepNames]
      /\ mig \in [Migrations -> MigType] /\ ColdTypes /\ FileTypes
    BY DEF Types, TimeTypes, StoreTypes, FileTypes, MigTypes
<1>1. ASSUME ~ossOn' PROVE ~ossOn
    BY <1>1 DEF Next, vars, Lane, IngestFails, Start, MoveBody, WriteVersion, Publish, Upload, UploadFails, Mark, Finalize,
        FailFile, Store, ResumeStored, DeleteRaw, Finish,
        ColdThread, ColdGate, PickRetired, NoRetired, DeleteObject, ForgetRetired, ColdCopy, ColdIdle,
        ColdUpload, ColdCommit, ColdSwap, ColdVersion, Migrate, MigrateRead, MigratePack, MigrateMark, Release, Age,
        Sweep, SweepRead, SweepFilter, SweepEnd, SweepDrop, SweepReplace, SweepUpdate, SweepExpired, SweepMissing,
        SweepCopy, GraceEnds, EnableOss, Crash, envVars
<1>2. ASSUME ~ossOn PROVE ~plan'.oss
    <2>1. CASE \E keep \in SUBSET Parts \ {{}}, g \in Gens, d \in BOOLEAN : Start(keep, g, d)
        BY <1>2, <2>1 DEF Start
    <2>2. CASE ResumeStored
        BY <1>0, <1>2, <2>2 DEF ResumeStored, FileTypes, PlanType
    <2>3. CASE plan' = plan
        BY <1>2, <2>3 DEF ArchiveIsOn
    <2>4. plan' = plan \/ MyLane
        BY LaneOnly DEF MyLane
    <2> QED BY <2>1, <2>2, <2>3, <2>4 DEF MyLane, Lane, IngestFails, MoveBody, WriteVersion, Publish, Upload, UploadFails, Mark,
        Finalize, FailFile, Store, DeleteRaw, Finish, fileVars
<1>3. ASSUME ~ossOn PROVE cold'.at = "idle" /\ \A m \in Migrations : mig'[m].at = "idle"
    <2>1. cold.at = "idle" /\ \A m \in Migrations : mig[m].at = "idle"
        BY <1>3 DEF ArchiveIsOn
    <2>2. cold' = cold \/ Crash
        BY <1>3, <2>1 DEF Next, vars, Lane, IngestFails, Start, MoveBody, WriteVersion, Publish, Upload, UploadFails, Mark, Finalize,
        FailFile, Store, ResumeStored, DeleteRaw, Finish,
        ColdThread, ColdGate, Gate, PickRetired, NoRetired, DeleteObject, ForgetRetired, ColdCopy, ColdIdle,
        ColdUpload, ColdCommit, ColdSwap, ColdVersion, Migrate, MigrateRead, MigratePack, MigrateMark, Release, Age,
        Sweep, SweepRead, SweepFilter, SweepEnd, SweepDrop, SweepReplace, SweepUpdate, SweepExpired, SweepMissing,
        SweepCopy, GraceEnds, EnableOss
    <2>3. \A m \in Migrations : mig'[m].at = "idle"
        BY <1>3, <2>1, MigSteps DEF MigrateRead
    <2> QED BY <2>1, <2>2, <2>3, IdleTypes DEF Crash
<1>4. ASSUME NEW p \in Parts, ~Archived(p), Archived(p)'
      PROVE  \/ Mark(p) /\ step[p] = "uploaded" /\ InLane
             \/ \E m \in Migrations : mig[m].at # "idle"
             \/ cold.at # "idle"
    <2>1. row'[p] # row[p] /\ row[p].key = NoKey /\ row'[p].key # NoKey
        BY <1>4 DEF Archived
    <2>2. Ingested(p, Body).key = NoKey /\ NoRow.key = NoKey
        BY <2>1 DEF Ingested, KeptKey, NoRow
    <2>3. ~(Rewrites(sweep.part) /\ p = sweep.part)
        BY <2>1, RewriteFacts DEF KeptKey
    <2>4. RowWritten(p)
        BY <2>1, RowOfPart
    <2> QED BY <2>1, <2>2, <2>3, <2>4 DEF RowWritten, Mark, InLane, Marks, MigrateMark, Commits, ColdCommit
<1>5. ASSUME ~ossOn, NEW p \in Parts PROVE ~Archived(p)'
    <2>1. ~Archived(p) /\ ~plan.oss /\ cold.at = "idle" /\ \A m \in Migrations : mig[m].at = "idle"
        BY <1>5 DEF ArchiveIsOn
    <2>2. ~(InLane /\ step[p] = "uploaded")
        BY <2>1 DEF ArchiveIsOn
    <2> QED BY <1>4, <2>1, <2>2
<1>6. ASSUME InLane', ~plan'.oss, NEW p \in Parts
      PROVE  ~Archived(p)' /\ step'[p] \notin {"published", "uploaded"}
    <2>1. CASE \E keep \in SUBSET Parts, g \in Gens, d \in BOOLEAN : Start(keep, g, d)
        <3>1. ~ossOn /\ step'[p] \in {"todo", "none"} /\ row' = row
            BY <1>6, <2>1 DEF Start
        <3> QED BY <3>1 DEF ArchiveIsOn, Archived
    <2>2. CASE InLane /\ plan' = plan /\ StepTaken(p)
        <3>1. ~Archived(p) /\ step[p] \notin {"published", "uploaded"} /\ ~plan.oss
            BY <1>6, <2>2 DEF ArchiveIsOn
        <3>2. ~Finished /\ cold.at = "idle" /\ \A m \in Migrations : mig[m].at = "idle"
            BY <2>2 DEF Phases, InLane, Finished
        <3>3. ~Archived(p)'
            BY <1>4, <3>1, <3>2
        <3>4. step'[p] \notin {"published", "uploaded"}
            <4>1. CASE Publish(p)
                BY <1>0, <3>1, <4>1 DEF Publish
            <4>2. CASE ~Publish(p)
                BY <2>2, <3>1, <4>2 DEF StepTaken
            <4> QED BY <4>1, <4>2
        <3> QED BY <3>3, <3>4
    <2> QED BY <1>6, <2>1, <2>2, StepOfPart
<1> QED BY <1>1, <1>2, <1>3, <1>5, <1>6 DEF ArchiveIsOn

\* A body goes while its row is archived, or with its row, or with its attempt.
LEMMA BodyGoes ==
    ASSUME Types, Phases, ArchiveIsOn, BodiesKept, [Next]_vars, NEW p \in Parts,
           age'[p] # Expired, local[p] # NoBody, local'[p] = NoBody
    PROVE  \/ IngestFails(p) /\ step[p] \in {"moved", "written"} /\ step'[p] = "none" /\ InLane
           \/ Finalize(p) /\ step[p] = "none" /\ InLane /\ row'[p] = NoRow /\ step' = step
           \/ Release(p) /\ Archived(p) /\ row' = row
<1>0. /\ row \in [Parts -> Rows] /\ step \in [Parts -> StepNames] /\ FileTypes /\ ColdTypes /\ SweepTypes
    BY DEF Types, StoreTypes, FileTypes
<1>1. ~(MoveBody(p) /\ local'[p] = Body)
    <2>1. ASSUME MoveBody(p) PROVE Body # NoBody
        BY <1>0, <2>1, Forms DEF MoveBody, FileTypes, Body
    <2> QED BY <2>1
<1>2. ~(ColdSwap /\ local'[p] = Cold(cold.body.gen))
    <2>1. ASSUME ColdSwap PROVE Cold(cold.body.gen) # NoBody
        BY <1>0, <2>1, EncodedBody, Forms DEF ColdSwap, Encoding
    <2> QED BY <2>1
<1>3. ~(SweepReplace /\ local'[p] = sweep.body)
    <2>1. ASSUME SweepReplace PROVE sweep.body # NoBody
        BY <1>0, <2>1, Forms DEF SweepReplace, SweepTypes, Rewriting
    <2> QED BY <2>1
<1>4. ~SweepExpired(p)
    BY AgeGoesOn DEF SweepExpired, SweepTypes, Types, BodiesKept
<1>5. CASE IngestFails(p)
    BY <1>0, <1>5 DEF IngestFails, InLane
<1>6. CASE Finalize(p)
    BY <1>0, <1>6 DEF Finalize, Parsed, DeletePart, Phases, InLane, fileVars
<1>7. CASE Release(p)
    BY <1>7 DEF Release
<1> QED BY <1>1, <1>2, <1>3, <1>4, <1>5, <1>6, <1>7, BodyEffects

LEMMA SweepDues ==
    ASSUME Types, [Next]_vars, NEW p \in DOMAIN sweep'.due
    PROVE  \/ p \in DOMAIN sweep.due /\ sweep'.due[p] = sweep.due[p]
           \/ p \in Parts /\ sweep'.due[p] = Due(p) /\ UNCHANGED <<row, age>>
<1>0. SweepTypes /\ sweep \in SweepType
    BY DEF Types, SweepTypes
<1>1. ASSUME NEW q, sweep' = Past(q) PROVE p \in DOMAIN sweep.due /\ sweep'.due[p] = sweep.due[p]
    BY <1>0, <1>1, PastTypes DEF SweepTypes
<1>2. CASE SweepRead
    <2>1. sweep'.due = [q \in Listed |-> Due(q)] /\ UNCHANGED <<row, age>>
        BY <1>0, <1>2 DEF SweepRead, SweepType, envVars
    <2> QED BY <2>1 DEF Listed
<1>3. CASE SweepFilter
    BY <1>0, <1>3 DEF SweepFilter, SweepTypes, SweepType
<1>4. CASE SweepEnd \/ Crash
    BY <1>4, IdleTypes DEF SweepEnd, Crash
<1>5. CASE SweepDrop \/ SweepUpdate \/ \E q \in Parts : SweepExpired(q)
    BY <1>1, <1>5 DEF SweepDrop, SweepUpdate, SweepExpired
<1>6. CASE SweepReplace \/ \E q \in Parts : SweepMissing(q) \/ SweepCopy(q)
    <2>1. sweep'.due = sweep.due \/ \E q : sweep' = Past(q)
        BY <1>0, <1>6 DEF SweepReplace, SweepMissing, SweepCopy, SweepType
    <2> QED BY <1>1, <2>1
<1>7. CASE sweep' = sweep
    BY <1>7
<1> QED BY <1>2, <1>3, <1>4, <1>5, <1>6, <1>7
    DEF Next, vars, Lane, IngestFails, Start, MoveBody, WriteVersion, Publish, Upload, UploadFails, Mark, Finalize,
        FailFile, Store, ResumeStored, DeleteRaw, Finish,
        ColdThread, ColdGate, PickRetired, NoRetired, DeleteObject, ForgetRetired, ColdCopy, ColdIdle,
        ColdUpload, ColdCommit, ColdSwap, ColdVersion, Migrate, MigrateRead, MigratePack, MigrateMark, Release, Age,
        Sweep, GraceEnds, EnableOss

\* The key of a row names its part.
LEMMA KeyNext ==
    ASSUME Types, BodiesKept, [Next]_vars, NEW p \in Parts, Archived(p)'
    PROVE  \E b \in Bodies : <<p, b>> \in row'[p].key.holds
<1>0. /\ row \in [Parts -> Rows] /\ mig \in [Migrations -> MigType] /\ ColdTypes /\ FileTypes
    BY DEF Types, StoreTypes, MigTypes
<1>1. CASE row'[p].key = row[p].key
    BY <1>1 DEF Archived, BodiesKept
<1>2. CASE Mark(p) /\ row'[p].key = PartKey(p, Body)
    <2>1. Body \in Bodies
        BY <1>0, <1>2, Forms DEF Mark, FileTypes, Body
    <2> QED BY <1>2, <2>1 DEF PartKey
<1>3. ASSUME NEW m \in Migrations, p \in DOMAIN mig[m].of, row'[p].key = PackKey(mig[m].of)
      PROVE  \E b \in Bodies : <<p, b>> \in row'[p].key.holds
    <2>1. mig[m].of \in Over(Bodies) /\ mig[m].of[p] \in Bodies
        BY <1>0, <1>3, MigFields, Maps
    <2> QED BY <1>3, <2>1, PackHolds
<1>4. CASE Commits /\ p = cold.part /\ row'[p] = Encoded
    <2>1. Cold(cold.body.gen) \in Bodies /\ row'[p].key = NewKey
        BY <1>4, CommitFacts, Forms
    <2> QED BY <1>4, <2>1 DEF NewKey, PartKey
<1>5. Ingested(p, Body).key \in {row[p].key, NoKey} /\ NoRow.key = NoKey
    BY DEF Ingested, KeptKey, NoRow
<1>6. Rewrites(sweep.part) /\ p = sweep.part => row'[p].key \in {row[p].key, NoKey}
    BY RewriteFacts DEF KeptKey
<1> QED BY <1>1, <1>2, <1>3, <1>4, <1>5, <1>6, RowOfPart DEF RowWritten, Archived

\* The body of a settled part.
LEMMA SettledNext ==
    ASSUME Types, Phases, ArchiveIsOn, BodiesKept, [Next]_vars, NEW p \in Live',
           Finished' \/ (InLane' /\ step'[p] = "settled")
    PROVE  Archived(p)' \/ local'[p] # NoBody
<1>0. /\ p \in Parts /\ HasRow(p)' /\ age'[p] # Expired /\ age[p] # Expired
      /\ row \in [Parts -> Rows] /\ step \in [Parts -> StepNames]
    BY AgeGoesOn DEF Live, Listed, Types, StoreTypes, FileTypes
<1>1. CASE Publish(p)
    <2>1. ~Finished'
        BY <1>1, GetsFinished DEF Publish, Phases, InLane, Store, Finished
    <2>2. CASE row'[p].key # NoKey
        BY <2>2 DEF Archived
    <2>3. CASE row'[p].key = NoKey
        <3>1. ~plan.oss /\ InLane /\ step[p] = "written" /\ local' = local
            BY <1>0, <1>1, <2>1, <2>3 DEF Publish, Ingested, InLane, bodyVars
        <3> QED BY <1>0, <3>1 DEF BodiesKept, Begun
    <2> QED BY <2>2, <2>3
<1>2. CASE Mark(p)
    <2>1. CASE ~HasRow(p)
        BY <1>0, <1>2, <2>1 DEF Mark, HasRow
    <2>2. CASE HasRow(p)
        <3>1. row[p] \in FullRows
            BY <1>0, <2>2, RowFields DEF HasRow
        <3>2. row'[p].key = PartKey(p, Body) /\ Body \in Bodies
            BY <1>0, <1>2, <2>2, <3>1, Forms DEF Mark, Types, FileTypes, Body, FullRows
        <3> QED BY <1>0, <3>2, KeyTypes DEF Archived
    <2> QED BY <2>1, <2>2
<1>3. CASE ~Publish(p) /\ ~Mark(p)
    <2>1. Finished \/ (InLane /\ step[p] = "settled")
        <3>1. CASE Finished'
            <4>1. CASE Finished
                BY <4>1
            <4>2. CASE ~Finished
                BY <1>0, <3>1, <4>2, GetsFinished DEF Listed, HasRow
            <4> QED BY <4>1, <4>2
        <3>2. CASE InLane' /\ step'[p] = "settled"
            <4>1. ~\E keep \in SUBSET Parts, g \in Gens, d \in BOOLEAN : Start(keep, g, d)
                BY <1>0, <3>2 DEF Start
            <4> QED BY <1>0, <1>3, <3>2, <4>1, StepOfPart DEF StepTaken
        <3> QED BY <3>1, <3>2
    <2>2. HasRow(p) /\ (Archived(p) => Archived(p)' \/ local'[p] # NoBody)
        <3>1. CASE row'[p] = row[p]
            BY <1>0, <3>1 DEF HasRow, Archived
        <3>2. CASE row'[p] # row[p]
            <4>1. RowWritten(p) /\ row'[p] # NoRow
                BY <1>0, <3>2, RowOfPart DEF HasRow
            <4>2. CASE Commits /\ p = cold.part /\ row'[p] = Encoded
                BY <4>2, CommitFacts DEF Archived
            <4>3. ASSUME NEW m \in Migrations, HasRow(p), row'[p].key = PackKey(mig[m].of) PROVE HasRow(p) /\ Archived(p)'
                <5>1. mig[m].of \in Over(Bodies)
                    BY MigFields DEF Types, MigTypes
                <5> QED BY <4>3, <5>1, PackHolds DEF Archived
            <4>4. CASE Rewrites(sweep.part) /\ p = sweep.part
                BY <4>4 DEF Rewrites, SweepUpdate, bodyVars
            <4> QED BY <1>3, <4>1, <4>2, <4>3, <4>4 DEF RowWritten, SameDigests
        <3> QED BY <3>1, <3>2
    <2>3. Archived(p) \/ local[p] # NoBody
        BY <1>0, <2>1, <2>2 DEF BodiesKept, Live, Listed
    <2>4. CASE local[p] # NoBody /\ local'[p] = NoBody
        <3>1. step[p] \notin {"none", "moved", "written"} \/ ~InLane
            BY <2>1 DEF Phases, InLane, Finished
        <3>2. Archived(p) /\ row' = row
            BY <1>0, <2>4, <3>1, BodyGoes
        <3> QED BY <3>2 DEF Archived
    <2> QED BY <2>2, <2>3, <2>4
<1> QED BY <1>1, <1>2, <1>3

LEMMA KeptNext ==
    ASSUME Types, Phases, ArchiveIsOn, BodiesKept, [Next]_vars
    PROVE  BodiesKept'
<1>1. \A p \in Parts : Archived(p)' => \E b \in Bodies : <<p, b>> \in row'[p].key.holds
    BY KeyNext
<1>2. ASSUME NEW p \in Live', Finished' \/ (InLane' /\ step'[p] = "settled")
      PROVE  Archived(p)' \/ local'[p] # NoBody
    BY <1>2, SettledNext
<1>3. ASSUME NEW p \in Parts, InLane', ~plan'.oss, step'[p] \in Begun, age'[p] # Expired
      PROVE  local'[p] # NoBody
    <2>0. step \in [Parts -> StepNames] /\ local \in [Parts -> Contents] /\ FileTypes /\ age[p] # Expired
        BY <1>3, AgeGoesOn DEF Types, FileTypes, BodyTypes
    <2>1. InLane /\ plan' = plan /\ StepTaken(p)
        BY <1>3, StepOfPart DEF Start, Begun, Written
    <2>2. CASE MoveBody(p)
        BY <2>0, <2>2, Forms DEF MoveBody, FileTypes, Body
    <2>3. CASE ~MoveBody(p)
        <3>1. step[p] \in Begun
            BY <1>3, <2>1, <2>3 DEF StepTaken, Begun, Written
        <3>2. local[p] # NoBody /\ ~Archived(p)
            BY <1>3, <2>0, <2>1, <3>1 DEF BodiesKept, ArchiveIsOn
        <3>3. step[p] # "none" /\ step'[p] # "none"
            BY <1>3, <3>1 DEF Begun, Written
        <3> QED BY <1>3, <3>2, <3>3, BodyGoes
    <2> QED BY <2>2, <2>3
<1>4. ASSUME NEW p \in DOMAIN sweep'.due, sweep'.due[p] = Expired PROVE age'[p] = Expired
    <2>1. p \in Parts
        BY TypesNext, SweepFields, Maps DEF Types, SweepTypes
    <2>2. Due(p) = Expired => age[p] = Expired
        BY BoundsAssumption DEF Due, Expired
    <2> QED BY <1>4, <2>1, <2>2, SweepDues, AgeGoesOn DEF BodiesKept
<1> QED BY <1>1, <1>2, <1>3, <1>4 DEF BodiesKept

\* The attempt in the row of a finished file stays what it is.
LEMMA GenStays ==
    ASSUME Types, Phases, GensAgree, [Next]_vars, Finished, NEW p \in Parts, HasRow(p)'
    PROVE  HasRow(p) /\ row'[p].sha.gen = row[p].sha.gen /\ row'[p].object.gen = row[p].object.gen
<1>1. CASE row'[p] = row[p]
    BY <1>1 DEF HasRow
<1>2. ASSUME RowWritten(p) PROVE HasRow(p) /\ row'[p].sha.gen = row[p].sha.gen /\ row'[p].object.gen = row[p].object.gen
    <2>1. ~Publish(p) /\ ~Mark(p)
        BY DEF Publish, Mark, Phases, InLane, Finished
    <2>2. CASE Commits /\ p = cold.part /\ row'[p] = Encoded
        <3>1. HasRow(p) /\ row[p].object.gen = cold.body.gen /\ row[p].object.gen = row[p].sha.gen
            BY <2>2, CommitFacts DEF GensAgree
        <3>2. row'[p].sha.gen = cold.body.gen /\ row'[p].object.gen = cold.body.gen
            BY <2>2, CommitFacts DEF Cold
        <3> QED BY <3>1, <3>2
    <2>3. CASE Rewrites(sweep.part) /\ p = sweep.part
        <3>1. HasRow(p) /\ local[p] # NoBody /\ row'[p].sha = local[p] /\ row'[p].object = row[p].object
            BY <2>3, RewriteFacts, Forms
        <3> QED BY <3>1 DEF GensAgree
    <2> QED BY <1>2, <2>1, <2>2, <2>3 DEF RowWritten, SameDigests, HasRow
<1> QED BY <1>1, <1>2, RowOfPart

\* A key keeps the attempt of its row, and a new one has it.
LEMMA KeyGenNext ==
    ASSUME Types, Phases, GensAgree, [Next]_vars, NEW p \in Parts, Archived(p)'
    PROVE  \E b \in Bodies : <<p, b>> \in row'[p].key.holds /\ b.gen = row'[p].sha.gen
<1> DEFINE Holds == \E b \in Bodies : <<p, b>> \in row'[p].key.holds /\ b.gen = row'[p].sha.gen
<1> SUFFICES Holds
    OBVIOUS
<1>0. /\ row \in [Parts -> Rows] /\ mig \in [Migrations -> MigType] /\ ColdTypes /\ FileTypes
    BY DEF Types, StoreTypes, MigTypes
<1>1. CASE row'[p].key = row[p].key /\ row'[p].sha = row[p].sha
    BY <1>1 DEF Archived, GensAgree
<1>2. ASSUME NEW b, row'[p].sha = b, row'[p].key = KeptKey(p, b) PROVE Holds
    <2>1. row'[p].sha = b /\ (row[p].sha = b => row'[p].key = row[p].key) /\ (row[p].sha # b => row'[p].key = NoKey)
        BY <1>2 DEF KeptKey
    <2>2. row'[p].key = row[p].key /\ row'[p].sha = row[p].sha
        BY <2>1 DEF Archived
    <2> QED BY <1>1, <2>2
<1>3. CASE Mark(p) /\ SameDigests(p) /\ row'[p].key = PartKey(p, Body)
    <2>1. Body \in Bodies /\ Body.gen = plan.gen
        BY <1>0, <1>3, Forms DEF Mark, FileTypes, Body
    <2>2. row[p].sha.gen = plan.gen
        BY <1>3 DEF Mark, InLane, Written, GensAgree, SameDigests
    <2> QED BY <1>3, <2>1, <2>2 DEF PartKey, SameDigests
<1>4. ASSUME NEW m \in Migrations, Marks(m), p \in DOMAIN mig[m].of, SameDigests(p),
             row'[p].key = PackKey(mig[m].of)
      PROVE  Holds
    <2>1. mig[m].of \in Over(Bodies) /\ mig[m].of[p] \in Bodies
        BY <1>0, <1>4, MigFields, Maps
    <2>2. mig[m].of[p].gen = row[p].sha.gen
        BY <1>4 DEF Marks, MigrateMark, GensAgree, SameDigests
    <2>3. <<p, mig[m].of[p]>> \in row'[p].key.holds
        BY <1>4, <2>1, PackHolds
    <2> QED BY <1>4, <2>1, <2>2, <2>3 DEF SameDigests
<1>5. CASE Commits /\ p = cold.part /\ row'[p] = Encoded
    <2>1. Cold(cold.body.gen) \in Bodies /\ row'[p].key = NewKey /\ row'[p].sha = Cold(cold.body.gen)
        BY <1>5, CommitFacts, Forms
    <2> QED BY <1>5, <2>1 DEF NewKey, PartKey
<1>6. CASE row'[p] = NoRow
    BY <1>6 DEF Archived, NoRow
<1> HIDE DEF Holds
<1>7. CASE row'[p] = row[p]
    BY <1>1, <1>7
<1>8. CASE Publish(p) /\ row'[p] = Ingested(p, Body)
    BY <1>2, <1>8 DEF Ingested
<1>9. CASE Rewrites(sweep.part) /\ p = sweep.part
    <2>1. row'[p].sha = local[p] /\ row'[p].key = KeptKey(p, local[p])
        BY <1>9, RewriteFacts
    <2> QED BY <1>2, <2>1
<1>10. CASE RowWritten(p)
    BY <1>3, <1>4, <1>5, <1>6, <1>8, <1>9, <1>10 DEF RowWritten
<1> QED BY <1>7, <1>10, RowOfPart

\* The row and the body of a part that the lane has begun.
LEMMA LaneGensNext ==
    ASSUME Types, Phases, GensAgree, RewritesAlone, [Next]_vars, InLane', NEW p \in Parts
    PROVE  /\ step'[p] \in Written /\ HasRow(p)' => row'[p].sha.gen = plan'.gen /\ row'[p].object.gen = plan'.gen
           /\ step'[p] \in Begun /\ local'[p] # NoBody => local'[p].gen = plan'.gen
<1>0. /\ row \in [Parts -> Rows] /\ local \in [Parts -> Contents] /\ step \in [Parts -> StepNames]
      /\ FileTypes /\ SweepTypes
    BY DEF Types, StoreTypes, BodyTypes, FileTypes
<1>1. CASE \E keep \in SUBSET Parts, g \in Gens, d \in BOOLEAN : Start(keep, g, d)
    BY <1>1 DEF Start, Begun, Written
<1>2. CASE InLane /\ plan' = plan /\ StepTaken(p)
    <2>0. /\ Body.gen = plan.gen /\ plan.gen \in Gens
          /\ ~Finished /\ cold.at = "idle" /\ \A m \in Migrations : mig[m].at = "idle"
        BY <1>0, <1>2, Forms DEF FileTypes, Body, Phases, InLane, Finished
    <2>1. ASSUME step'[p] \in Written, HasRow(p)' PROVE row'[p].sha.gen = plan'.gen /\ row'[p].object.gen = plan'.gen
        <3>1. CASE Publish(p)
            BY <1>0, <1>2, <2>0, <3>1 DEF Publish, Ingested
        <3>2. CASE ~Publish(p)
            <4>1. step[p] \in Written
                BY <1>2, <2>1, <3>2 DEF StepTaken, Written
            <4>2. CASE row'[p] = row[p]
                BY <1>2, <2>1, <4>1, <4>2 DEF GensAgree, HasRow
            <4>3. CASE row'[p] # row[p]
                <5>1. RowWritten(p) /\ row'[p] # NoRow
                    BY <2>1, <4>3, RowOfPart DEF HasRow
                <5>2. ~Commits /\ \A m \in Migrations : ~Marks(m)
                    BY <2>0 DEF Commits, ColdCommit, Marks, MigrateMark
                <5>3. CASE Rewrites(sweep.part) /\ p = sweep.part
                    <6>1. HasRow(p) /\ local[p] # NoBody /\ row'[p].sha = local[p] /\ row'[p].object = row[p].object
                        BY <5>3, RewriteFacts, Forms
                    <6> QED BY <1>2, <4>1, <6>1 DEF GensAgree, Begun
                <5>4. CASE SameDigests(p)
                    BY <1>2, <4>1, <5>4 DEF GensAgree, SameDigests
                <5> QED BY <3>2, <5>1, <5>2, <5>3, <5>4 DEF RowWritten
            <4> QED BY <4>2, <4>3
        <3> QED BY <3>1, <3>2
    <2>2. ASSUME step'[p] \in Begun, local'[p] # NoBody PROVE local'[p].gen = plan'.gen
        <3>1. CASE MoveBody(p)
            BY <1>0, <1>2, <2>0, <3>1 DEF MoveBody
        <3>2. CASE ~MoveBody(p)
            <4>1. step[p] \in Begun
                BY <1>2, <2>2, <3>2 DEF StepTaken, Begun, Written
            <4>2. CASE local'[p] = local[p]
                BY <1>2, <2>2, <4>1, <4>2 DEF GensAgree
            <4>3. CASE SweepReplace /\ p = sweep.part /\ local'[p] = sweep.body
                <5>1. sweep.at = "copied"
                    BY <4>3 DEF SweepReplace
                <5>2. step[p] \in Written
                    BY <4>1, <4>3, <5>1 DEF RewritesAlone, Begun
                <5> QED BY <1>2, <4>3, <5>1, <5>2 DEF GensAgree
            <4> QED BY <2>0, <2>2, <3>2, <4>2, <4>3, BodyEffects DEF ColdSwap
        <3> QED BY <3>1, <3>2
    <2> QED BY <2>1, <2>2
<1> QED BY <1>1, <1>2, StepOfPart

\* What the sweep has read of the body it rewrites.
LEMMA Copied ==
    ASSUME Types, [Next]_vars, sweep'.at = "copied"
    PROVE  \/ sweep' = sweep
           \/ /\ sweep'.part \in DOMAIN sweep.due /\ sweep'.part \in Parts /\ local[sweep'.part] # NoBody
              /\ sweep.due[sweep'.part] \in Cuts
              /\ sweep'.body.cut = sweep.due[sweep'.part] /\ sweep'.body.gen = local[sweep'.part].gen
              /\ UNCHANGED <<fileVars, row, local>>
<1>0. SweepTypes /\ sweep \in SweepType
    BY DEF Types, SweepTypes
<1>1. CASE SweepRead \/ SweepFilter \/ SweepEnd \/ SweepReplace \/ \E p \in Parts : SweepMissing(p)
    <2>1. CASE SweepRead \/ SweepFilter \/ SweepEnd \/ SweepReplace
        BY <1>0, <2>1, IdleTypes DEF SweepRead, SweepFilter, SweepEnd, SweepReplace, SweepType
    <2>2. CASE \E p \in Parts : SweepMissing(p)
        BY <1>0, <2>2, PastTypes DEF SweepMissing, SweepType
    <2> QED BY <1>1, <2>1, <2>2
<1>2. CASE SweepDrop \/ SweepUpdate \/ \E p \in Parts : SweepExpired(p)
    BY <1>0, <1>2, PastTypes DEF SweepDrop, SweepUpdate, SweepExpired
<1>3. ASSUME NEW p \in Parts, SweepCopy(p)
      PROVE  /\ sweep'.part = p /\ p \in DOMAIN sweep.due /\ local[p] # NoBody /\ sweep.due[p] \in Cuts
             /\ sweep'.body.cut = sweep.due[p] /\ sweep'.body.gen = local[p].gen
             /\ UNCHANGED <<fileVars, row, local>>
    <2>1. sweep' = [sweep EXCEPT !.at = "copied", !.part = p, !.body = Kept(local[p].gen, sweep.due[p])] /\ sweep.due[p] # 0
        BY <1>0, <1>3, PastTypes DEF SweepCopy
    <2>2. /\ p \in DOMAIN sweep.due /\ local[p] # NoBody /\ sweep.due[p] # Expired
          /\ UNCHANGED <<fileVars, row, local>>
        BY <1>0, <1>3 DEF SweepCopy, SweepTypes, bodyVars
    <2>3. sweep.due[p] \in Cuts
        <3>1. sweep.due[p] \in Ages
            BY <1>0, <2>2, SweepFields, Maps
        <3> QED BY <2>1, <2>2, <3>1, BoundsAssumption DEF Ages, Cuts, Expired
    <2>4. sweep'.part = p /\ sweep'.body = Kept(local[p].gen, sweep.due[p])
        BY <1>0, <2>1 DEF SweepType
    <2> QED BY <2>2, <2>3, <2>4 DEF Kept
<1>4. CASE Crash
    BY <1>4, IdleTypes DEF Crash
<1>5. CASE sweep' = sweep
    BY <1>5
<1>6. sweep' = sweep \/ Sweep \/ Crash
    BY DEF Next, vars, Lane, IngestFails, Start, MoveBody, WriteVersion, Publish, Upload, UploadFails, Mark,
        Finalize, FailFile, Store, ResumeStored, DeleteRaw, Finish,
        ColdThread, ColdGate, PickRetired, NoRetired, DeleteObject, ForgetRetired, ColdCopy, ColdIdle,
        ColdUpload, ColdCommit, ColdSwap, ColdVersion, Migrate, MigrateRead, MigratePack, MigrateMark, Release, Age,
        GraceEnds, EnableOss
<1> QED BY <1>1, <1>2, <1>3, <1>4, <1>5, <1>6 DEF Sweep

LEMMA CopiedGensNext ==
    ASSUME Types, Phases, GensAgree, RewritesAlone, [Next]_vars, sweep'.at = "copied"
    PROVE  /\ InLane' /\ step'[sweep'.part] \in Written => sweep'.body.gen = plan'.gen
           /\ Finished' /\ HasRow(sweep.part)' => sweep'.body.gen = row'[sweep'.part].sha.gen
<1>0. step \in [Parts -> StepNames] /\ sweep'.part \in Parts
    BY TypesNext DEF Types, SweepTypes, Rewriting, FileTypes
<1> PICK p \in Parts : p = sweep'.part
    BY <1>0
<1>1. CASE local[p] # NoBody /\ sweep'.body.gen = local[p].gen /\ UNCHANGED <<fileVars, row, local>>
    BY <1>0, <1>1 DEF GensAgree, fileVars, InLane, Finished, HasRow, Begun
<1>2. CASE sweep' = sweep
    <2>1. ASSUME InLane', step'[p] \in Written PROVE sweep'.body.gen = plan'.gen
        <3>1. InLane /\ plan' = plan /\ StepTaken(p)
            BY <1>0, <2>1, StepOfPart DEF Start, Written
        <3>2. step[p] \in Written
            BY <1>2, <2>1, <3>1 DEF StepTaken, Written, RewritesAlone
        <3> QED BY <1>2, <3>1, <3>2 DEF GensAgree
    <2>2. ASSUME Finished', HasRow(p)' PROVE sweep'.body.gen = row'[p].sha.gen
        <3>1. CASE Finished
            BY <1>0, <1>2, <2>2, <3>1, GenStays DEF GensAgree
        <3>2. CASE ~Finished
            <4>1. InLane /\ row' = row /\ HasRow(p) /\ step[p] = "settled"
                BY <1>0, <2>2, <3>2, GetsFinished DEF HasRow, Listed
            <4> QED BY <1>0, <1>2, <4>1 DEF GensAgree, Written
        <3> QED BY <3>1, <3>2
    <2> QED BY <2>1, <2>2
<1> QED BY <1>1, <1>2, Copied

\* The bodies of a finished file.
LEMMA FinalGensNext ==
    ASSUME Types, Phases, GensAgree, [Next]_vars, Finished', NEW p \in Parts, HasRow(p)', local'[p] # NoBody
    PROVE  local'[p].gen = row'[p].sha.gen
<1>0. ColdTypes /\ SweepTypes
    BY DEF Types
<1>1. CASE ~Finished
    <2>1. InLane /\ UNCHANGED <<row, local>> /\ HasRow(p) /\ step[p] = "settled"
        BY <1>1, GetsFinished DEF HasRow, Listed
    <2> QED BY <2>1 DEF GensAgree, Written, Begun
<1>2. CASE Finished
    <2>1. HasRow(p) /\ row'[p].sha.gen = row[p].sha.gen
        BY <1>2, GenStays
    <2>2. CASE local'[p] = local[p]
        BY <1>2, <2>1, <2>2 DEF GensAgree
    <2>3. CASE ColdSwap /\ p = cold.part /\ local'[p] = Cold(cold.body.gen)
        BY <2>1, <2>3 DEF ColdSwap, Encoding, GensAgree, Cold
    <2>4. CASE SweepReplace /\ p = sweep.part /\ local'[p] = sweep.body
        BY <1>2, <2>1, <2>4 DEF SweepReplace, GensAgree
    <2>5. ~MoveBody(p)
        BY <1>2 DEF MoveBody, Phases, InLane, Finished
    <2> QED BY <2>2, <2>3, <2>4, <2>5, BodyEffects
<1> QED BY <1>1, <1>2

\* The body that the cold compression thread has encoded.
LEMMA ColdGensNext ==
    ASSUME Types, Phases, GensAgree, [Next]_vars, cold'.at \in Encoding, HasRow(cold.part)'
    PROVE  cold'.body.gen = row'[cold'.part].sha.gen
<1>0. cold \in ColdType /\ ColdTypes /\ cold'.part \in Parts
    BY TypesNext DEF Types, ColdTypes, Coherent
<1>1. ASSUME NEW p \in Parts, ColdCopy(p) PROVE cold'.body.gen = row'[cold'.part].sha.gen
    <2>1. Finished /\ HasRow(p)
        BY <1>1 DEF ColdCopy, Candidate, Archived, HasRow, NoRow, Finished
    <2>2. cold'.part = p /\ cold'.body = row[p].object /\ row' = row
        BY <1>0, <1>1 DEF ColdCopy, ColdType
    <2> QED BY <2>1, <2>2 DEF GensAgree
<1>2. CASE cold.at \in Encoding /\ cold'.part = cold.part /\ cold'.body = cold.body
    <2>1. Finished
        BY <1>2 DEF Phases, Encoding, Finished
    <2> QED BY <1>0, <1>2, <2>1, GenStays DEF GensAgree
<1>3. CASE ColdUpload \/ ColdCommit \/ ColdSwap \/ ColdVersion
    <2>1. cold.at \in Encoding /\ cold'.part = cold.part /\ cold'.body = cold.body
        BY <1>0, <1>3, IdleTypes DEF ColdUpload, ColdCommit, ColdSwap, ColdVersion, ColdType, Encoding
    <2> QED BY <1>2, <2>1
<1>4. CASE ColdGate \/ NoRetired \/ DeleteObject \/ ForgetRetired \/ ColdIdle \/ \E k \in ready : PickRetired(k)
    BY <1>0, <1>4, IdleTypes DEF ColdGate, NoRetired, DeleteObject, ForgetRetired, ColdIdle, PickRetired,
       ColdType, Encoding, IdleCold
<1>5. CASE Crash
    BY <1>5, IdleTypes DEF Crash, Encoding
<1>6. CASE cold' = cold
    BY <1>2, <1>6
<1> QED BY <1>1, <1>3, <1>4, <1>5, <1>6
    DEF Next, vars, Lane, IngestFails, Start, MoveBody, WriteVersion, Publish, Upload, UploadFails, Mark,
        Finalize, FailFile, Store, ResumeStored, DeleteRaw, Finish, ColdThread,
        Migrate, MigrateRead, MigratePack, MigrateMark, Release, Age,
        Sweep, SweepRead, SweepFilter, SweepEnd, SweepDrop, SweepReplace, SweepUpdate, SweepExpired, SweepMissing,
        SweepCopy, GraceEnds, EnableOss

\* The rows that a migration has read.
LEMMA MigGensNext ==
    ASSUME Types, Phases, GensAgree, [Next]_vars, NEW m \in Migrations, mig'[m].at # "idle",
           NEW p \in DOMAIN mig'[m].of, HasRow(p)'
    PROVE  mig'[m].of[p].gen = row'[p].sha.gen
<1>1. CASE MigrateRead(m) /\ mig'[m].of = [q \in Unarchived |-> row[q].sha]
    BY <1>1 DEF MigrateRead
<1>2. CASE mig[m].at # "idle" /\ mig'[m].of = mig[m].of
    <2>1. p \in Parts /\ Finished
        BY <1>2, MigFields, Maps DEF Types, MigTypes, Phases
    <2> QED BY <1>2, <2>1, GenStays DEF GensAgree
<1> QED BY <1>1, <1>2, MigSteps

LEMMA GensNext ==
    ASSUME Types, Phases, GensAgree, RewritesAlone, [Next]_vars
    PROVE  GensAgree'
<1>1. \A p \in Parts : Archived(p)' => \E b \in Bodies : <<p, b>> \in row'[p].key.holds /\ b.gen = row'[p].sha.gen
    BY KeyGenNext
<1>2. \A p \in Parts : InLane' =>
         /\ step'[p] \in Written /\ HasRow(p)' => row'[p].sha.gen = plan'.gen /\ row'[p].object.gen = plan'.gen
         /\ step'[p] \in Begun /\ local'[p] # NoBody => local'[p].gen = plan'.gen
    BY LaneGensNext
<1>3. sweep'.at = "copied" =>
         /\ InLane' /\ step'[sweep'.part] \in Written => sweep'.body.gen = plan'.gen
         /\ Finished' /\ HasRow(sweep.part)' => sweep'.body.gen = row'[sweep'.part].sha.gen
    BY CopiedGensNext
<1>4. \A p \in Parts : Finished' /\ HasRow(p)' /\ local'[p] # NoBody => local'[p].gen = row'[p].sha.gen
    BY FinalGensNext
<1>5. cold'.at \in Encoding /\ HasRow(cold.part)' => cold'.body.gen = row'[cold'.part].sha.gen
    BY ColdGensNext
<1>6. \A m \in Migrations : \A p \in DOMAIN mig'[m].of :
         mig'[m].at # "idle" /\ HasRow(p)' => mig'[m].of[p].gen = row'[p].sha.gen
    BY MigGensNext
<1>7. ASSUME NEW p \in Parts, Finished', HasRow(p)' PROVE row'[p].object.gen = row'[p].sha.gen
    <2>1. CASE Finished
        BY <1>7, <2>1, GenStays DEF GensAgree
    <2>2. CASE ~Finished
        <3>1. InLane /\ row' = row /\ HasRow(p) /\ step[p] = "settled"
            BY <1>7, <2>2, GetsFinished DEF HasRow, Listed
        <3> QED BY <3>1 DEF GensAgree, Written
    <2> QED BY <2>1, <2>2
<1> QED BY <1>1, <1>2, <1>3, <1>4, <1>5, <1>6, <1>7 DEF GensAgree

\* Without an ingest the body that the sweep has put in place does not get raw again.
LEMMA TrimmedNext ==
    ASSUME Types, RewritesAlone', [Next]_vars, sweep.at = "replaced" => local[sweep.part].form # "raw",
           sweep'.at = "replaced"
    PROVE  local'[sweep'.part].form # "raw"
<1>0. SweepTypes /\ sweep \in SweepType /\ local \in [Parts -> Contents] /\ step \in [Parts -> StepNames] /\ FileTypes
    BY DEF Types, SweepTypes, BodyTypes, FileTypes
<1>1. CASE SweepReplace
    BY <1>0, <1>1, Forms DEF SweepReplace, SweepTypes, SweepType, Rewriting
<1>2. CASE sweep' = sweep
    <2>1. sweep.part \in Parts /\ local[sweep.part].form # "raw"
        BY <1>0, <1>2 DEF SweepTypes, Rewriting
    <2>2. ~MoveBody(sweep.part)
        BY <1>0, <1>2, <2>1 DEF RewritesAlone, MoveBody
    <2>3. CASE ColdSwap /\ local'[sweep.part] = Cold(cold.body.gen)
        BY <1>2, <2>3, EncodedBody, Forms DEF ColdSwap, Encoding, Types
    <2> QED BY <1>2, <2>1, <2>2, <2>3, BodyEffects, Forms DEF SweepReplace
<1> QED BY <1>1, <1>2, SweepSteps

-----------------------------------------------------------------------------
(***************************************************************************)
(* Cutoffs and re-encoded bodies.                                           *)
(***************************************************************************)
\* Only a rewriting trims a row, and an ingest begins anew.
LEMMA RowCuts ==
    ASSUME Types, [Next]_vars, NEW p \in Parts
    PROVE  row'[p].cut \in {row[p].cut, 0} \/ (Rewrites(sweep.part) /\ p = sweep.part)
<1>1. CASE row'[p] = row[p]
    BY <1>1
<1>2. CASE RowWritten(p)
    <2>1. NoRow.cut = 0 /\ Ingested(p, Body).cut = 0
        BY DEF NoRow, Ingested
    <2>2. Commits /\ p = cold.part /\ row'[p] = Encoded => row'[p].cut = row[p].cut
        BY CommitFacts
    <2> QED BY <1>2, <2>1, <2>2 DEF RowWritten, SameDigests
<1> QED BY <1>1, <1>2, RowOfPart

\* A rewriting is the last step on its part: the sweep goes past it.
LEMMA RewriteEnds ==
    ASSUME Types, Rewrites(sweep.part)
    PROVE  sweep'.at \notin Rewriting /\ sweep.part \notin DOMAIN sweep'.due
BY PastTypes DEF Rewrites, SweepUpdate, Types, Rewriting

LEMMA CutsNext ==
    ASSUME Types, Phases, CutsGrow, [Next]_vars
    PROVE  CutsGrow'
<1>0. /\ SweepTypes /\ SweepTypes' /\ row \in [Parts -> Rows] /\ local \in [Parts -> Contents]
      /\ \A p \in Parts : row[p].cut \in Nat
      /\ \A p \in DOMAIN sweep.due : p \in Parts /\ sweep.due[p] \in Nat
      /\ DOMAIN sweep'.due \subseteq Parts
    <2>1. Types'
        BY TypesNext
    <2>2. SweepTypes /\ SweepTypes' /\ row \in [Parts -> Rows] /\ local \in [Parts -> Contents]
        BY <2>1 DEF Types, StoreTypes, BodyTypes
    <2>3. \A p \in Parts : row[p].cut \in Nat
        BY <2>2, RowFields, BoundsAssumption
    <2>4. DOMAIN sweep.due \subseteq Parts /\ \A p \in DOMAIN sweep.due : sweep.due[p] \in Ages
        BY <2>2, SweepFields, Maps DEF SweepTypes
    <2>5. sweep' \in SweepType
        BY <2>2 DEF SweepTypes
    <2>6. DOMAIN sweep'.due \subseteq Parts
        <3>1. sweep'.due \in Over(Ages)
            BY <2>5 DEF SweepType
        <3> QED BY <3>1 DEF Over
    <2> QED BY <2>2, <2>3, <2>4, <2>6, BoundsAssumption DEF Ages, Expired
<1>1. ASSUME NEW p \in DOMAIN sweep'.due, sweep'.due[p] > 0 PROVE sweep'.due[p] > row'[p].cut
    <2>0. p \in Parts
        BY <1>0
    <2>1. row'[p].cut \in {row[p].cut, 0}
        BY <2>0, RowCuts, RewriteEnds
    <2>2. CASE p \in DOMAIN sweep.due /\ sweep'.due[p] = sweep.due[p]
        BY <1>0, <1>1, <2>1, <2>2 DEF CutsGrow
    <2>3. CASE sweep'.due[p] = Due(p) /\ UNCHANGED <<row, age>>
        BY <1>1, <2>3 DEF Due
    <2> QED BY <2>2, <2>3, SweepDues
<1>2. ASSUME sweep'.at \in Rewriting PROVE sweep'.body.cut > row'[sweep'.part].cut
    <2>0. sweep'.part \in Parts
        BY <1>0, <1>2 DEF SweepTypes
    <2>1. CASE sweep' = sweep \/ SweepReplace
        <3>1. sweep.at \in Rewriting /\ sweep.part \in Parts /\ sweep.body.cut > row[sweep.part].cut
            BY <1>0, <1>2, <2>1 DEF SweepReplace, Rewriting, CutsGrow, SweepTypes
        <3>2. sweep'.part = sweep.part /\ sweep'.body = sweep.body
            BY <1>0, <2>1 DEF SweepReplace, SweepTypes, SweepType
        <3>3. row'[sweep.part].cut \in {row[sweep.part].cut, 0}
            BY <1>2, <3>1, RowCuts, RewriteEnds
        <3>4. row[sweep.part].cut \in Nat /\ sweep.body.cut \in Nat
            BY <1>0, <3>1, Forms DEF SweepTypes, Cuts
        <3> QED BY <3>1, <3>2, <3>3, <3>4
    <2>2. CASE sweep'.at = "copied" /\ sweep' # sweep
        <3> DEFINE p == sweep'.part
        <3>1. /\ p \in DOMAIN sweep.due /\ p \in Parts /\ sweep.due[p] \in Cuts
              /\ sweep'.body.cut = sweep.due[p] /\ row' = row
            BY <2>2, Copied
        <3>2. sweep.due[p] > 0
            BY <3>1, BoundsAssumption DEF Cuts
        <3>3. sweep.due[p] > row[p].cut
            <4> HIDE DEF p
            <4> QED BY <3>1, <3>2 DEF CutsGrow
        <3> QED BY <3>1, <3>3
    <2> QED BY <1>2, <2>1, <2>2, SweepSteps DEF Rewriting
<1>3. ASSUME sweep'.at = "replaced", local'[sweep'.part].form = "kept" PROVE local'[sweep'.part] = sweep'.body
    <2>1. CASE SweepReplace
        BY <1>0, <2>1 DEF SweepReplace, SweepTypes, SweepType, Rewriting
    <2>2. CASE sweep' = sweep
        <3>1. sweep.part \in Parts /\ sweep.at = "replaced"
            BY <1>0, <1>3, <2>2 DEF SweepTypes, Rewriting
        <3>2. CASE local'[sweep.part] = local[sweep.part]
            BY <1>3, <2>2, <3>1, <3>2 DEF CutsGrow
        <3>3. ASSUME MoveBody(sweep.part) PROVE Body.form = "raw"
            BY <3>3, Forms DEF MoveBody, Types, FileTypes, Body
        <3>4. ASSUME ColdSwap PROVE Cold(cold.body.gen).form = "cold"
            BY <3>4, EncodedBody, Forms DEF ColdSwap, Encoding, Types
        <3>5. ~SweepReplace
            BY <3>1 DEF SweepReplace
        <3> QED BY <1>3, <2>2, <3>1, <3>2, <3>3, <3>4, <3>5, BodyEffects, Forms
    <2> QED BY <1>3, <2>1, <2>2, SweepSteps
<1>4. ASSUME NEW p \in Parts PROVE row'[p].sha.cut <= row'[p].cut
    <2>1. CASE row'[p] = row[p]
        BY <2>1 DEF CutsGrow
    <2>2. CASE row'[p] = NoRow
        BY <2>2, Forms DEF NoRow
    <2>3. CASE Publish(p) /\ row'[p] = Ingested(p, Body)
        <3>1. row'[p].sha.cut = 0 /\ row'[p].cut = 0
            BY <2>3 DEF Ingested, Body, Raw
        <3> QED BY <3>1
    <2>4. CASE SameDigests(p)
        BY <2>4 DEF SameDigests, CutsGrow
    <2>5. CASE Commits /\ p = cold.part /\ row'[p] = Encoded
        <3>1. row'[p].cut = row[p].cut /\ row'[p].sha.cut = 0
            BY <2>5, CommitFacts, Forms
        <3> QED BY <1>0, <3>1
    <2>6. CASE Rewrites(sweep.part) /\ p = sweep.part
        <3>1. /\ sweep.at = "replaced" /\ row'[p].sha = local[p] /\ row'[p].cut = sweep.body.cut
              /\ local[p] \in Bodies /\ sweep.body.cut \in Cuts
            BY <2>6, RewriteFacts
        <3>2. local[p].form = "kept" => local[p] = sweep.body
            BY <2>6, <3>1 DEF CutsGrow
        <3>3. local[p].form # "kept" => local[p].cut = 0
            BY <3>1, Forms
        <3> QED BY <3>1, <3>2, <3>3, BoundsAssumption DEF Cuts
    <2> QED BY <2>1, <2>2, <2>3, <2>4, <2>5, <2>6, RowOfPart DEF RowWritten
<1> QED BY <1>1, <1>2, <1>3, <1>4 DEF CutsGrow

\* How a swap comes about.
LEMMA ColdSteps ==
    ASSUME Types, [Next]_vars, cold'.at \in {"swap", "version"}
    PROVE  \/ cold' = cold
           \/ Commits /\ cold'.part = cold.part
           \/ ColdSwap /\ cold'.part = cold.part
<1>1. cold \in ColdType
    BY DEF Types, ColdTypes
<1>2. CASE ColdCommit
    BY <1>1, <1>2, IdleTypes DEF ColdCommit, Commits, ColdType
<1>3. CASE ColdSwap
    BY <1>1, <1>3 DEF ColdSwap, ColdType
<1>4. ~(ColdGate \/ NoRetired \/ DeleteObject \/ ColdIdle \/ ColdUpload \/ ColdVersion \/ Crash)
    BY <1>1, IdleTypes DEF ColdGate, NoRetired, DeleteObject, ColdIdle, ColdUpload, ColdVersion, Crash, ColdType
<1>5. ~ForgetRetired
    BY IdleTypes, ColdAt DEF ForgetRetired
<1>6. ~(\E k \in ready : PickRetired(k)) /\ ~(\E p \in Parts : ColdCopy(p))
    BY <1>1 DEF PickRetired, ColdCopy, ColdType
<1>7. CASE cold' = cold
    BY <1>7
<1> QED BY <1>2, <1>3, <1>4, <1>5, <1>6, <1>7
    DEF Next, vars, Lane, IngestFails, Start, MoveBody, WriteVersion, Publish, Upload, UploadFails, Mark,
        Finalize, FailFile, Store, ResumeStored, DeleteRaw, Finish, ColdThread,
        Migrate, MigrateRead, MigratePack, MigrateMark, Release, Age, Sweep, SweepRead, SweepFilter, SweepEnd,
        SweepDrop, SweepReplace, SweepUpdate, SweepExpired, SweepMissing, SweepCopy, GraceEnds, EnableOss

LEMMA ColdStaysNext ==
    ASSUME Types, Phases, CutsGrow, ColdStays, RewritesAreCurrent, [Next]_vars
    PROVE  ColdStays'
<1>0. /\ row \in [Parts -> Rows] /\ local \in [Parts -> Contents] /\ ColdTypes /\ SweepTypes /\ FileTypes
      /\ step \in [Parts -> StepNames]
    BY DEF Types, StoreTypes, BodyTypes, FileTypes
<1>1. ASSUME NEW p \in Parts, HasRow(p)', row'[p].sha.form = "cold" PROVE row'[p].object.form = "cold"
    <2>1. CASE row'[p] = row[p]
        BY <1>1, <2>1 DEF ColdStays, HasRow
    <2>2. CASE row'[p] = NoRow
        BY <1>1, <2>2 DEF HasRow
    <2>3. CASE Publish(p) /\ row'[p] = Ingested(p, Body)
        BY <1>1, <2>3 DEF Ingested, Body, Raw
    <2>4. CASE SameDigests(p)
        BY <1>1, <2>4 DEF SameDigests, ColdStays
    <2>5. CASE Commits /\ p = cold.part /\ row'[p] = Encoded
        BY <2>5, CommitFacts
    <2>6. CASE Rewrites(sweep.part) /\ p = sweep.part
        BY <1>1, <2>6, RewriteFacts DEF ColdStays
    <2> QED BY <2>1, <2>2, <2>3, <2>4, <2>5, <2>6, RowOfPart DEF RowWritten
<1>2. ASSUME NEW p \in Parts, HasRow(p)', local'[p].form = "cold" PROVE row'[p].object.form = "cold"
    <2>1. CASE local'[p] # local[p]
        <3>1. ASSUME MoveBody(p) PROVE Body.form = "raw"
            BY <3>1 DEF Body, Raw
        <3>2. ASSUME SweepReplace PROVE sweep.body.form = "kept"
            BY <1>0, <3>2, Forms DEF SweepReplace, SweepTypes, Rewriting
        <3>3. ColdSwap /\ p = cold.part
            BY <1>2, <2>1, <3>1, <3>2, BodyEffects, Forms
        <3>4. row' = row /\ cold.at = "swap"
            BY <3>3 DEF ColdSwap
        <3> QED BY <1>2, <3>3, <3>4 DEF ColdStays, HasRow
    <2>2. CASE local'[p] = local[p] /\ HasRow(p)
        <3>0. row[p].object.form = "cold" /\ local[p].form = "cold"
            BY <1>2, <2>2 DEF ColdStays
        <3>1. CASE row'[p] = row[p]
            BY <3>0, <3>1
        <3>2. CASE row'[p] = NoRow
            BY <1>2, <3>2 DEF HasRow
        <3>3. ~Publish(p)
            BY <3>0 DEF Publish, ColdStays, InLane, Begun
        <3>4. CASE SameDigests(p)
            BY <3>0, <3>4 DEF SameDigests
        <3>5. CASE Commits /\ p = cold.part /\ row'[p] = Encoded
            BY <3>5, CommitFacts
        <3>6. CASE Rewrites(sweep.part) /\ p = sweep.part
            BY <3>0, <3>6, RewriteFacts
        <3> QED BY <3>1, <3>2, <3>3, <3>4, <3>5, <3>6, RowOfPart DEF RowWritten
    <2>3. CASE local'[p] = local[p] /\ ~HasRow(p)
        <3>1. row'[p] # row[p] /\ row'[p] # NoRow
            BY <1>2, <2>3 DEF HasRow
        <3>2. ~(Commits /\ p = cold.part) /\ ~(Rewrites(sweep.part) /\ p = sweep.part)
            BY <2>3, CommitFacts, RewriteFacts
        <3>3. Publish(p)
            BY <2>3, <3>1, <3>2, RowOfPart DEF RowWritten, SameDigests
        <3> QED BY <1>2, <2>3, <3>3 DEF Publish, ColdStays, InLane, Begun
    <2> QED BY <2>1, <2>2, <2>3
<1>3. ASSUME NEW p \in Parts, InLane', step'[p] \in Begun PROVE local'[p].form # "cold"
    <2>1. ~\E keep \in SUBSET Parts, g \in Gens, d \in BOOLEAN : Start(keep, g, d)
        BY <1>3 DEF Start, Begun, Written
    <2>2. InLane /\ StepTaken(p)
        BY <1>3, <2>1, StepOfPart
    <2>3. cold.at = "idle"
        BY <2>2 DEF Phases, InLane
    <2>4. CASE MoveBody(p)
        BY <1>0, <2>4 DEF MoveBody, Body, Raw
    <2>5. CASE ~MoveBody(p)
        <3>1. step[p] \in Begun
            BY <1>3, <2>2, <2>5 DEF StepTaken, Begun, Written
        <3>2. local[p].form # "cold"
            BY <2>2, <3>1 DEF ColdStays
        <3>3. ASSUME SweepReplace PROVE sweep.body.form = "kept"
            BY <1>0, <3>3, Forms DEF SweepReplace, SweepTypes, Rewriting
        <3>4. ~ColdSwap
            BY <2>3 DEF ColdSwap
        <3> QED BY <2>5, <3>2, <3>3, <3>4, BodyEffects, Forms
    <2> QED BY <2>4, <2>5
<1>4. ASSUME cold'.at \in {"swap", "version"}, HasRow(cold.part)' PROVE row'[cold'.part].object.form = "cold"
    <2>1. CASE Commits /\ cold'.part = cold.part
        BY <2>1, CommitFacts
    <2>2. CASE ColdSwap /\ cold'.part = cold.part
        BY <1>4, <2>2 DEF ColdSwap, ColdStays, HasRow
    <2>3. CASE cold' = cold
        <3>1. cold.part \in Parts /\ cold.at \in {"swap", "version"}
            BY <1>0, <1>4, <2>3, EncodedBody DEF Encoding
        <3>2. ~MyLane /\ Finished
            BY <3>1, LanePhases DEF MyLane, Phases, Finished
        <3>3. HasRow(cold.part) /\ (row[cold.part].object.form = "cold" => row'[cold.part].object.form = "cold")
            <4>1. PICK p \in Parts : p = cold.part
                BY <3>1
            <4>2. HasRow(p)'
                BY <1>4, <2>3, <4>1 DEF HasRow
            <4> QED BY <3>2, <4>1, <4>2, RowsWane
        <3> QED BY <2>3, <3>1, <3>3 DEF ColdStays
    <2> QED BY <1>4, <2>1, <2>2, <2>3, ColdSteps
<1>5. ColdStays'
    BY <1>1, <1>2, <1>3, <1>4 DEF ColdStays
<1> QED BY <1>5

-----------------------------------------------------------------------------
(***************************************************************************)
(* The theorems.                                                            *)
(***************************************************************************)
\* Type correctness: of the file's row, its parts' rows and bodies, the store
\* and the locks, whoever runs and whatever fails.
THEOREM BodiesTypeCorrect == Spec => []TypeOK
<1>1. Init => Types
    BY InitTypes
<1>2. Types /\ [Next]_vars => Types'
    BY TypesNext
<1>3. Types => TypeOK
    BY TypesGive
<1> QED BY <1>1, <1>2, <1>3, PTL DEF Spec

LEMMA InitInv == Init => IInv
<1> SUFFICES ASSUME Init PROVE IInv
    OBVIOUS
<1>1. Types
    BY InitTypes
<1>2. /\ job = "idle" /\ state = "new" /\ \A p \in Parts : step[p] = "none" /\ row[p] = NoRow /\ local[p] = NoBody
      /\ retired = {} /\ ready = {} /\ cold.at = "idle" /\ sweep.at = "idle" /\ DOMAIN sweep.due = {}
      /\ \A m \in Migrations : mig[m].at = "idle" /\ DOMAIN mig[m].of = {}
    BY IdleTypes DEF Init
<1>3. NoRow.key = NoKey /\ ~NoKey.pack
    BY KeyTypes DEF NoRow
<1>4. Phases
    BY <1>2 DEF Phases, InLane
<1>5. RewritesAreCurrent
    BY <1>2 DEF RewritesAreCurrent
<1>6. PacksHoldTheirParts /\ RetiredPacks
    BY <1>2, <1>3 DEF PacksHoldTheirParts, RetiredPacks
<1>7. ObjectsExist
    BY <1>2, <1>3 DEF ObjectsExist, ReferencedObjectsExist, Archived
<1>8. CutsGrow /\ ColdStays
    BY <1>2, Forms DEF CutsGrow, ColdStays, Rewriting, HasRow, InLane, NoRow
<1> QED BY <1>1, <1>4, <1>5, <1>6, <1>7, <1>8 DEF IInv

LEMMA NextInv ==
    ASSUME IInv, RewriteIsShort', [Next]_vars
    PROVE  IInv'
BY TypesNext, PhasesNext, CutsNext, ColdStaysNext, RewritesNext, PacksNext, RetiredNext, ObjectsNext DEF IInv

\* The object a row points to is in the store: no migration, re-encoding, release
\* or sweep, in any order and with crashes between any two of their steps, makes
\* the cold compression thread delete it from under the row.
THEOREM NoNamedObjectIsDeleted == Spec /\ []RewriteIsShort => []ReferencedObjectsExist
<1>1. Init => IInv
    BY InitInv
<1>2. IInv /\ RewriteIsShort' /\ [Next]_vars => IInv'
    BY NextInv
<1>3. IInv => ReferencedObjectsExist
    BY DEF IInv, ObjectsExist
<1> QED BY <1>1, <1>2, <1>3, PTL DEF Spec

LEMMA InitHeld == Init => ArchiveIsOn /\ BodiesKept /\ GensAgree
<1> SUFFICES ASSUME Init PROVE ArchiveIsOn /\ BodiesKept /\ GensAgree
    OBVIOUS
<1>1. /\ job = "idle" /\ state = "new" /\ \A p \in Parts : row[p] = NoRow /\ step[p] = "none"
      /\ cold.at = "idle" /\ sweep.at = "idle" /\ DOMAIN sweep.due = {} /\ ~plan.oss
      /\ \A m \in Migrations : mig[m].at = "idle"
    BY IdleTypes DEF Init, IdlePlan
<1>2. \A p \in Parts : ~Archived(p) /\ ~HasRow(p)
    <2>1. NoRow.key = NoKey
        BY DEF NoRow
    <2> QED BY <1>1, <2>1 DEF Archived, HasRow
<1>3. ~InLane /\ ~Finished
    BY <1>1 DEF InLane, Finished
<1>4. ArchiveIsOn
    BY <1>1, <1>2, <1>3 DEF ArchiveIsOn
<1>5. BodiesKept
    BY <1>1, <1>2, <1>3 DEF BodiesKept
<1>6. GensAgree
    BY <1>1, <1>2, <1>3 DEF GensAgree, Encoding
<1> QED BY <1>4, <1>5, <1>6

\* What is kept is on the disk, or in the store under the key of its row.
LEMMA KeptIsHeld ==
    ASSUME ReferencedObjectsExist, BodiesKept
    PROVE  PartsAreHeld
<1> SUFFICES ASSUME Finished, NEW p \in Live, local[p] = NoBody
             PROVE  row[p].key \in objects /\ \E h \in row[p].key.holds : h[1] = p
    BY DEF PartsAreHeld
<1>1. p \in Parts /\ Archived(p)
    BY DEF BodiesKept, Live, Listed
<1>2. row[p].key \in objects
    BY <1>1 DEF ReferencedObjectsExist
<1>3. PICK b \in Bodies : <<p, b>> \in row[p].key.holds
    BY <1>1 DEF BodiesKept
<1> QED BY <1>2, <1>3

LEMMA AgreedIsDurable ==
    ASSUME ReferencedObjectsExist, BodiesKept, GensAgree
    PROVE  RowsAreDurable
<1> SUFFICES ASSUME Finished, NEW p \in Live PROVE HoldsEventsOf(p)
    BY DEF RowsAreDurable
<1>1. p \in Parts /\ HasRow(p)
    BY DEF Live, Listed
<1>2. CASE local[p] # NoBody
    BY <1>1, <1>2 DEF GensAgree, HoldsEventsOf
<1>3. CASE local[p] = NoBody
    <2>1. Archived(p) /\ row[p].key \in objects
        BY <1>1, <1>3 DEF BodiesKept, ReferencedObjectsExist
    <2>2. PICK b \in Bodies : <<p, b>> \in row[p].key.holds /\ b.gen = row[p].sha.gen
        BY <1>1, <2>1 DEF GensAgree
    <2>3. <<p, b>>[1] = p /\ <<p, b>>[2].gen = row[p].sha.gen
        BY <2>2
    <2> QED BY <2>1, <2>2, <2>3 DEF HoldsEventsOf
<1> QED BY <1>2, <1>3

\* No listed part of a finished file that is still within the retention is without a
\* body: releases, sweeps, re-encodings, deletions of retired objects and crashes, in
\* any order, never take away the last one.
THEOREM PartsStayHeld == Spec /\ []RewriteIsShort => []PartsAreHeld
<1> DEFINE HInv == ArchiveIsOn /\ BodiesKept
<1>1. Init => IInv /\ HInv
    BY InitInv, InitHeld
<1>2. IInv /\ HInv /\ RewriteIsShort' /\ [Next]_vars => (IInv /\ HInv)'
    <2> SUFFICES ASSUME IInv, HInv, RewriteIsShort', [Next]_vars PROVE IInv' /\ HInv'
        OBVIOUS
    <2> QED BY NextInv, ArchiveNext, KeptNext DEF IInv
<1>3. IInv /\ HInv => PartsAreHeld
    BY KeptIsHeld DEF IInv, ObjectsExist
<1> QED BY <1>1, <1>2, <1>3, PTL DEF Spec

\* As long as no ingest of a part runs while the sweep rewrites its body, the events of
\* the row's attempt are on the disk or in the store until they expire: the file's
\* rows, its bodies and its objects never drift apart over the attempts of a file.
THEOREM EventsAreDurable == Spec /\ []RewritesAlone => []RowsAreDurable
<1> DEFINE Trimmed == sweep.at = "replaced" => local[sweep.part].form # "raw"
           DInv == IInv /\ ArchiveIsOn /\ BodiesKept /\ GensAgree /\ Trimmed
<1>1. Init => DInv
    BY InitInv, InitHeld, IdleTypes DEF Init
<1>2. DInv /\ RewritesAlone /\ RewritesAlone' /\ [Next]_vars => DInv'
    <2> SUFFICES ASSUME DInv, RewritesAlone, RewritesAlone', [Next]_vars PROVE DInv'
        OBVIOUS
    <2>1. Trimmed'
        BY TrimmedNext DEF IInv
    <2>2. RewriteIsShort'
        BY <2>1 DEF RewriteIsShort
    <2>3. IInv'
        BY <2>2, NextInv
    <2>4. ArchiveIsOn' /\ BodiesKept' /\ GensAgree'
        BY ArchiveNext, KeptNext, GensNext DEF IInv
    <2> QED BY <2>1, <2>3, <2>4
<1>3. DInv => RowsAreDurable
    BY AgreedIsDurable DEF IInv, ObjectsExist
<1> QED BY <1>1, <1>2, <1>3, PTL DEF Spec
=============================================================================
