------------------------- MODULE WebLibraryProofs -------------------------
(***************************************************************************)
(* What is proved of the pages of the software library, for every instance *)
(* of WebLibrary: the inductive invariant of each page, and that the       *)
(* others are at rest while one of them takes steps.                       *)
(***************************************************************************)
EXTENDS WebLibrary, FiniteSetTheorems, SequenceTheorems, WellFoundedInduction, TLAPS

\* A nonempty set of naturals has a least member.
LEMMA LeastMember ==
    ASSUME NEW S \in SUBSET Nat, S # {}
    PROVE  \E n \in S : \A m \in S : n <= m
<1>1. PICK n \in S : \A m \in S : ~(<<m, n>> \in OpToRel(<, Nat))
  BY NatLessThanWellFounded, WFMin
<1>2. ASSUME NEW m \in S PROVE n <= m
  <2>1. ~(m < n)
    BY <1>1 DEF OpToRel
  <2> QED
    BY <2>1
<1> QED
  BY <1>2

-----------------------------------------------------------------------------
(* SoftwareEditor. *)

LEMMA PatchType ==
    /\ \A F \in SUBSET (SW!EditableFields \cup {"catalogs"}) : \A g \in [F -> Values] : g \in SW!Patch
    /\ \A g \in SW!Patch : /\ DOMAIN g \subseteq SW!EditableFields \cup {"catalogs"}
                           /\ g \in [DOMAIN g -> Values]
BY DEF SW!Patch

LEMMA RowFields ==
    ASSUME NEW pkg \in SW!Row
    PROVE  /\ SW!pkgToEditable(pkg) \in [SW!EditableFields -> Values]
           /\ pkg["catalogs"] \in Values
BY DEF SW!Row, SW!pkgToEditable, SW!Restrict

LEMMA PatchedRow ==
    ASSUME NEW pkg \in SW!Row, NEW patch \in SW!Patch
    PROVE  SW!Patched(pkg, patch) \in SW!Row
<1>1. patch \in [DOMAIN patch -> Values]
  BY PatchType
<1> QED
  BY <1>1 DEF SW!Row, SW!Patched

EditorTypes ==
    /\ rows \in [Ids -> SW!Row \cup {None}] /\ cached \in [Ids -> SW!Row \cup {None}]
    /\ stale \subseteq {v \in Ids : cached[v] # None}
    /\ page \in Ids \cup {None} /\ deleting \in Ids \cup {None}
    /\ canWrite \in BOOLEAN /\ editing \in BOOLEAN /\ dirty \in BOOLEAN /\ saveDialogOpen \in BOOLEAN
    /\ form \in [SW!EditableFields -> Values] \cup {None} /\ catalogNames \in Values

\* What the dialog shows is what was edited, and stays so while it is open.
Snapshots == [payload : SW!Patch, catalogChanged : BOOLEAN, after : SW!Patch]
Faithful(r) ==
    /\ DOMAIN r.payload \subseteq SW!EditableFields
    /\ \A f \in DOMAIN r.payload : f \in DOMAIN r.after /\ r.after[f] = r.payload[f]
    /\ DOMAIN r.payload # {} \/ r.catalogChanged
    /\ r.catalogChanged => "catalogs" \in DOMAIN r.after
EditorReview ==
    /\ review = None \/ review \in Snapshots
    /\ review # None => Faithful(review)
    /\ saveDialogOpen => form # None
    /\ saveDialogOpen /\ review # None /\ review.catalogChanged => review.after["catalogs"] = catalogNames

\* What is on its way was reviewed, and a save accounts for all it planned.
GoodPuts ==
    {p \in [vid : Ids, patch : SW!Patch, m : Nat, for : Ids, reviewed : SW!Patch] :
        /\ p.vid # p.for => DOMAIN p.patch \cap VersionSpecific = {}
        /\ \A f \in DOMAIN p.patch : f \in DOMAIN p.reviewed /\ p.reviewed[f] = p.patch[f]}
PutsOf(n) == {p \in GoodPuts : p.m = n}
Mutations == [m : Nat, rest : Seq(SUBSET GoodPuts), plan : SUBSET GoodPuts,
              acked : SUBSET GoodPuts, here : BOOLEAN]
Accounted(s) ==
    /\ s.m <= saves /\ s.rest \in Seq(SUBSET PutsOf(s.m))
    /\ \A p \in s.plan : \/ p \in s.acked
                         \/ p \in puts /\ p.m = s.m
                         \/ \E i \in 1 .. Len(s.rest) : p \in s.rest[i]
EditorSaves ==
    /\ saves \in Nat
    /\ puts \subseteq GoodPuts /\ running \subseteq Mutations
    /\ \A p \in puts : p.m <= saves
    /\ \A s \in running : Accounted(s)
    /\ \A s, t \in running : s.m = t.m => s = t
    /\ \A r \in reported : r.plan \subseteq r.acked

EditorInv == EditorTypes /\ EditorReview /\ EditorSaves

LEMMA EditorInit == ASSUME SW!EditorAssumption, SW!Init PROVE EditorInv
<1>1. EditorTypes
  BY DEF SW!Init, SW!EditorAssumption, EditorTypes, SW!Row
<1>2. EditorReview
  BY DEF SW!Init, EditorReview
<1>3. EditorSaves
  BY DEF SW!Init, EditorSaves
<1> QED
  BY <1>1, <1>2, <1>3 DEF EditorInv

-----------------------------------------------------------------------------
LEMMA SnapshotsShow ==
    ASSUME SW!EditorAssumption, NEW pkg \in SW!Row, NEW edited \in [SW!EditableFields -> Values],
           NEW names \in Values, SW!buildChangeSnapshots(pkg, edited, names) # None
    PROVE  LET r == SW!buildChangeSnapshots(pkg, edited, names)
           IN  /\ r \in Snapshots /\ Faithful(r)
               /\ r.catalogChanged => r.after["catalogs"] = names
<1> DEFINE payload == SW!buildUpdatePayload(SW!pkgToEditable(pkg), edited)
           catalogChanged == pkg["catalogs"] # names
           after == [f \in DOMAIN payload \cup (IF catalogChanged THEN {"catalogs"} ELSE {})
                        |-> IF f = "catalogs" THEN names ELSE payload[f]]
           r == [payload |-> payload, catalogChanged |-> catalogChanged, after |-> after]
<1>1. SW!buildChangeSnapshots(pkg, edited, names) = r /\ (DOMAIN payload # {} \/ catalogChanged)
  BY DEF SW!buildChangeSnapshots
<1>2. /\ DOMAIN payload \subseteq SW!EditableFields /\ payload \in [DOMAIN payload -> Values]
  BY DEF SW!buildUpdatePayload, SW!Restrict
<1>3. "catalogs" \notin SW!EditableFields
  BY DEF SW!EditorAssumption, SW!EditableFields
<1>4. payload \in SW!Patch
  BY <1>2, PatchType
<1>5. /\ DOMAIN after = DOMAIN payload \cup (IF catalogChanged THEN {"catalogs"} ELSE {})
      /\ after \in [DOMAIN after -> Values]
      /\ \A f \in DOMAIN payload : after[f] = payload[f]
      /\ catalogChanged => after["catalogs"] = names
  <2> HIDE DEF payload, catalogChanged
  <2> QED
    BY <1>2, <1>3
<1>6. after \in SW!Patch
  <2> HIDE DEF after
  <2> QED
    BY <1>2, <1>5, PatchType
<1>7. catalogChanged \in BOOLEAN
  OBVIOUS
<1> HIDE DEF payload, catalogChanged, after
<1> QED
  BY <1>1, <1>2, <1>4, <1>5, <1>6, <1>7 DEF Snapshots, Faithful

\* The server's row takes the fields of a PUT.
LEMMA AppliedRows ==
    ASSUME EditorTypes, NEW p \in GoodPuts, NEW ok \in BOOLEAN, SW!Applied(p, ok)
    PROVE  rows' \in [Ids -> SW!Row \cup {None}]
<1>1. p.vid \in Ids /\ p.patch \in SW!Patch
  BY DEF GoodPuts
<1>2. CASE ok /\ rows[p.vid] # None
  <2>1. rows[p.vid] \in SW!Row
    BY <1>1, <1>2 DEF EditorTypes
  <2>2. rows' = [rows EXCEPT ![p.vid] = SW!Patched(rows[p.vid], p.patch)]
    BY <1>2 DEF SW!Applied
  <2>3. SW!Patched(rows[p.vid], p.patch) \in SW!Row
    BY <1>1, <2>1, PatchedRow
  <2> QED
    BY <1>1, <2>2, <2>3 DEF EditorTypes
<1>3. CASE ~(ok /\ rows[p.vid] # None)
  BY <1>3 DEF SW!Applied, EditorTypes
<1> QED
  BY <1>2, <1>3

LEMMA EditorTypesNext == ASSUME SW!EditorAssumption, EditorInv, SW!Next PROVE EditorTypes'
<1>1. EditorTypes /\ None \notin Ids /\ Unset \in Values
  BY DEF EditorInv, SW!EditorAssumption
<1>2. \A v \in Ids : rows[v] # None => rows[v] \in SW!Row
  BY <1>1 DEF EditorTypes
<1>3. \A v \in Ids : cached[v] # None => cached[v] \in SW!Row
  BY <1>1 DEF EditorTypes
<1>4. SW!pkg_ # None => page \in Ids /\ SW!pkg_ \in SW!Row
  BY <1>1, <1>3 DEF SW!pkg_, EditorTypes
<1> USE DEF SW!cacheVars, SW!formVars, SW!reviewVars, SW!requests
<1>5. CASE SW!Leave \/ SW!LoseWrite \/ \E v \in Ids : SW!Open(v)
  BY <1>1, <1>5 DEF SW!Leave, SW!LoseWrite, SW!Open, EditorTypes
<1>6. CASE SW!Fetch
  <2>1. page \in Ids /\ rows[page] \in SW!Row
    BY <1>1, <1>2, <1>6 DEF SW!Fetch, EditorTypes
  <2>2. cached' = [cached EXCEPT ![page] = rows[page]] /\ stale' = stale \ {page}
    BY <1>6 DEF SW!Fetch
  <2>3. cached' \in [Ids -> SW!Row \cup {None}] /\ stale' \subseteq {v \in Ids : cached'[v] # None}
    BY <1>1, <2>1, <2>2 DEF EditorTypes
  <2>4. form' \in [SW!EditableFields -> Values] \cup {None} /\ catalogNames' \in Values
    BY <1>1, <1>6, <2>1, RowFields DEF SW!Fetch, EditorTypes
  <2> QED
    BY <1>1, <1>6, <2>3, <2>4 DEF SW!Fetch, EditorTypes
<1>7. ASSUME NEW v \in Ids, SW!ShowVersion(v) PROVE EditorTypes'
  <2>1. form' \in [SW!EditableFields -> Values] \cup {None} /\ catalogNames' \in Values
    BY <1>1, <1>3, <1>7, RowFields DEF SW!ShowVersion, EditorTypes
  <2> QED
    BY <1>1, <1>7, <2>1 DEF SW!ShowVersion, EditorTypes
<1>8. CASE SW!VersionMenu \/ \E v \in Ids : SW!GoBack(v)
  BY <1>7, <1>8 DEF SW!VersionMenu, SW!handleVersionChange, SW!GoBack
<1>9. ASSUME NEW v \in Ids, SW!Expire(v) \/ SW!Collect(v) PROVE EditorTypes'
  BY <1>1, <1>9 DEF SW!Expire, SW!Collect, EditorTypes
<1>10. CASE SW!handleCancel
  <2>1. form' \in [SW!EditableFields -> Values] /\ catalogNames' \in Values
    BY <1>4, <1>10, RowFields DEF SW!handleCancel, SW!Interactive
  <2> QED
    BY <1>1, <1>10, <2>1 DEF SW!handleCancel, EditorTypes
<1>11. CASE SW!handleSave \/ SW!Edit \/ SW!ConfirmDelete \/ SW!CloseReview
  BY <1>1, <1>11 DEF SW!handleSave, SW!Edit, SW!ConfirmDelete, SW!CloseReview, EditorTypes
<1>12. ASSUME NEW f \in SW!EditableFields, NEW x \in Values, SW!updateField(f, x)
       PROVE  EditorTypes'
  <2>1. form' \in [SW!EditableFields -> Values] \cup {None}
    BY <1>1, <1>12 DEF SW!updateField, EditorTypes
  <2> QED
    BY <1>1, <1>12, <2>1 DEF SW!updateField, EditorTypes
<1>13. ASSUME NEW names \in Values, SW!updateCatalogNames(names) PROVE EditorTypes'
  BY <1>1, <1>13 DEF SW!updateCatalogNames, EditorTypes
<1>14. CASE SW!handleSaveThisVersion \/ SW!handleSaveAllVersions
  BY <1>1, <1>14 DEF SW!handleSaveThisVersion, SW!handleSaveAllVersions, SW!StartSave, EditorTypes
<1>15. ASSUME NEW p \in puts, SW!LatePut(p) \/ \E s \in running : SW!PutFails(p, s)
       PROVE  EditorTypes'
  <2>1. p \in GoodPuts
    BY DEF EditorInv, EditorSaves
  <2>2. rows' \in [Ids -> SW!Row \cup {None}]
    BY <1>1, <1>15, <2>1, AppliedRows DEF SW!LatePut, SW!PutFails
  <2> QED
    BY <1>1, <1>15, <2>2 DEF SW!LatePut, SW!PutFails, EditorTypes
<1>16. ASSUME NEW p \in puts, NEW s \in running, SW!PutSucceeds(p, s) PROVE EditorTypes'
  <2>1. p \in GoodPuts
    BY DEF EditorInv, EditorSaves
  <2>2. rows' \in [Ids -> SW!Row \cup {None}]
    BY <1>1, <1>16, <2>1, AppliedRows DEF SW!PutSucceeds
  <2>3. UNCHANGED <<cached, page, canWrite, form, catalogNames, deleting>>
    BY <1>16 DEF SW!PutSucceeds
  <2>4. \/ UNCHANGED <<stale, editing, dirty, saveDialogOpen>>
        \/ SW!SaveSucceeds(s, p)
    BY <1>16 DEF SW!PutSucceeds, SW!BatchSucceeds
  <2>5. /\ stale' \subseteq {v \in Ids : cached[v] # None}
        /\ editing' \in BOOLEAN /\ dirty' \in BOOLEAN /\ saveDialogOpen' \in BOOLEAN
    BY <1>1, <2>4 DEF SW!SaveSucceeds, EditorTypes
  <2> QED
    BY <1>1, <2>2, <2>3, <2>5 DEF EditorTypes
<1>17. CASE SW!DeleteSucceeds
  <2>1. deleting \in Ids
    BY <1>1, <1>17 DEF SW!DeleteSucceeds, EditorTypes
  <2>2. /\ rows' = [rows EXCEPT ![deleting] = None] /\ cached' = [cached EXCEPT ![deleting] = None]
        /\ stale' = {v \in Ids \ {deleting} : cached[v] # None}
    BY <1>17 DEF SW!DeleteSucceeds
  <2>3. /\ rows' \in [Ids -> SW!Row \cup {None}] /\ cached' \in [Ids -> SW!Row \cup {None}]
        /\ stale' \subseteq {v \in Ids : cached'[v] # None}
    BY <1>1, <2>1, <2>2 DEF EditorTypes
  <2> QED
    BY <1>1, <1>17, <2>3 DEF SW!DeleteSucceeds, EditorTypes
<1>18. CASE SW!DeleteFails
  BY <1>1, <1>18 DEF SW!DeleteFails, EditorTypes
<1>19. ASSUME NEW v \in Ids, NEW f \in SW!EditableFields \cup {"catalogs"}, NEW x \in Values,
              SW!OtherChange(v, f, x)
       PROVE  EditorTypes'
  <2>1. rows[v] \in SW!Row
    BY <1>2, <1>19 DEF SW!OtherChange
  <2>2. [rows[v] EXCEPT ![f] = x] \in SW!Row
    BY <2>1 DEF SW!Row
  <2>3. rows' = [rows EXCEPT ![v] = [rows[v] EXCEPT ![f] = x]]
    BY <1>19 DEF SW!OtherChange
  <2>4. rows' \in [Ids -> SW!Row \cup {None}]
    BY <1>1, <2>2, <2>3 DEF EditorTypes
  <2> QED
    BY <1>1, <1>19, <2>4 DEF SW!OtherChange, EditorTypes
<1>20. SW!Navigation => EditorTypes'
  BY <1>5, <1>6, <1>8, <1>9 DEF SW!Navigation
<1>21. SW!Editing => EditorTypes'
  BY <1>10, <1>11, <1>12, <1>13 DEF SW!Editing, SW!HeaderButtons, SW!EditGeneral,
     SW!EditConfiguration, SW!EditRelationships, SW!EditDetection, SW!EditInstall, SW!EditScripts,
     SW!EditableFields
<1>22. SW!Saving => EditorTypes'
  BY <1>14, <1>15, <1>16, <1>17, <1>18 DEF SW!Saving
<1> QED
  BY <1>19, <1>20, <1>21, <1>22 DEF SW!Next

LEMMA EditorReviewNext == ASSUME SW!EditorAssumption, EditorInv, SW!Next PROVE EditorReview'
<1>1. EditorTypes /\ EditorReview
  BY DEF EditorInv
<1>2. SW!pkg_ # None => page \in Ids /\ SW!pkg_ \in SW!Row
  BY <1>1 DEF SW!pkg_, EditorTypes
<1> USE DEF SW!formVars, SW!reviewVars
<1>3. ASSUME UNCHANGED <<review, saveDialogOpen, form, catalogNames>> PROVE EditorReview'
  BY <1>1, <1>3 DEF EditorReview
<1>4. ASSUME saveDialogOpen' = FALSE, review' = review \/ review' = None PROVE EditorReview'
  BY <1>1, <1>4 DEF EditorReview
<1>5. CASE SW!Fetch
  <2>1. UNCHANGED <<review, saveDialogOpen>>
    BY <1>5 DEF SW!Fetch
  <2>2. UNCHANGED <<form, catalogNames>> \/ form = None
    BY <1>5 DEF SW!Fetch
  <2> QED
    BY <1>1, <1>3, <1>4, <2>1, <2>2 DEF EditorReview, EditorTypes
<1>6. ASSUME NEW v \in Ids, SW!ShowVersion(v) PROVE EditorReview'
  <2>1. UNCHANGED <<review, saveDialogOpen>>
    BY <1>6 DEF SW!ShowVersion
  <2>2. UNCHANGED <<form, catalogNames>> \/ form = None
    BY <1>6 DEF SW!ShowVersion
  <2> QED
    BY <1>1, <1>3, <1>4, <2>1, <2>2 DEF EditorReview, EditorTypes
<1>7. SW!Navigation => EditorReview'
  BY <1>3, <1>4, <1>5, <1>6 DEF SW!Navigation, SW!Leave, SW!LoseWrite, SW!VersionMenu,
     SW!handleVersionChange, SW!GoBack, SW!Open, SW!Expire, SW!Collect
<1>8. CASE SW!handleSave
  <2>1. form \in [SW!EditableFields -> Values] /\ form # None /\ catalogNames \in Values
        /\ SW!pkg_ \in SW!Row
    BY <1>1, <1>2, <1>8 DEF SW!handleSave, SW!Interactive, EditorTypes
  <2> DEFINE r == SW!buildChangeSnapshots(SW!pkg_, form, catalogNames)
  <2>2. form' = form /\ catalogNames' = catalogNames
    BY <1>8 DEF SW!handleSave
  <2>3. CASE r = None
    BY <1>3, <1>8, <2>2, <2>3 DEF SW!handleSave
  <2>4. CASE r # None
    <3>1. review' = r /\ saveDialogOpen' = TRUE
      BY <1>8, <2>4 DEF SW!handleSave
    <3>2. r \in Snapshots /\ Faithful(r) /\ (r.catalogChanged => r.after["catalogs"] = catalogNames)
      BY <2>1, <2>4, SnapshotsShow
    <3> HIDE DEF r
    <3> QED
      BY <2>1, <2>2, <3>1, <3>2 DEF EditorReview, Faithful
  <2> QED
    BY <2>3, <2>4
<1>9. ASSUME SW!Interactive, UNCHANGED <<review, saveDialogOpen>> PROVE EditorReview'
  BY <1>1, <1>4, <1>9 DEF SW!Interactive, EditorTypes
<1>10. SW!Editing => EditorReview'
  BY <1>3, <1>4, <1>8, <1>9 DEF SW!Editing, SW!HeaderButtons, SW!EditGeneral,
     SW!EditConfiguration, SW!EditRelationships, SW!EditDetection, SW!EditInstall, SW!EditScripts,
     SW!updateField, SW!updateCatalogNames, SW!handleCancel, SW!Edit, SW!ConfirmDelete, SW!CloseReview
<1>11. ASSUME NEW p \in puts, NEW s \in running, SW!PutSucceeds(p, s) PROVE EditorReview'
  <2>1. UNCHANGED <<form, catalogNames>>
    BY <1>11 DEF SW!PutSucceeds
  <2>2. UNCHANGED <<review, saveDialogOpen>> \/ SW!SaveSucceeds(s, p)
    BY <1>11 DEF SW!PutSucceeds, SW!BatchSucceeds
  <2> QED
    BY <1>3, <1>4, <2>1, <2>2 DEF SW!SaveSucceeds
<1>12. SW!Saving => EditorReview'
  BY <1>3, <1>4, <1>11 DEF SW!Saving, SW!handleSaveThisVersion, SW!handleSaveAllVersions,
     SW!StartSave, SW!PutFails, SW!LatePut, SW!DeleteSucceeds, SW!DeleteFails
<1> QED
  BY <1>3, <1>7, <1>10, <1>12 DEF SW!Next, SW!OtherChange

-----------------------------------------------------------------------------
\* The batches of a save are made of its reviewed PUTs, and there is one.
LEMMA BatchType ==
    ASSUME NEW S, NEW payload, NEW targets,
           DOMAIN payload # {} => \A v \in targets : SW!Put(v, payload) \in S
    PROVE  /\ SW!Batch(payload, targets) \in Seq(SUBSET S)
           /\ DOMAIN payload # {} => Len(SW!Batch(payload, targets)) = 1
<1>1. CASE DOMAIN payload = {}
  <2>1. SW!Batch(payload, targets) = <<>>
    BY <1>1 DEF SW!Batch
  <2> QED
    BY <1>1, <2>1
<1>2. CASE DOMAIN payload # {}
  <2>1. SW!Batch(payload, targets) = << {SW!Put(v, payload) : v \in targets} >>
    BY <1>2 DEF SW!Batch
  <2>2. {SW!Put(v, payload) : v \in targets} \in SUBSET S
    BY <1>2
  <2> QED
    BY <2>1, <2>2
<1> QED
  BY <1>1, <1>2

LEMMA BatchesType ==
    ASSUME NEW S, NEW payload, NEW targets, NEW specific,
           DOMAIN payload # {} => \A v \in targets : SW!Put(v, payload) \in S,
           DOMAIN specific # {} => SW!Put(page, specific) \in S,
           review.catalogChanged =>
               \A v \in targets : SW!Put(v, [f \in {"catalogs"} |-> catalogNames]) \in S,
           DOMAIN payload # {} \/ review.catalogChanged
    PROVE  /\ SW!Batches(payload, targets, specific) \in Seq(SUBSET S)
           /\ SW!Batches(payload, targets, specific) # <<>>
<1> DEFINE a == SW!Batch(payload, targets)
           b == SW!Batch(specific, {page})
           c == IF review.catalogChanged
                THEN SW!Batch([f \in {"catalogs"} |-> catalogNames], targets) ELSE <<>>
<1>1. a \in Seq(SUBSET S) /\ (DOMAIN payload # {} => Len(a) = 1)
  BY BatchType
<1>2. b \in Seq(SUBSET S)
  BY BatchType
<1>3. c \in Seq(SUBSET S) /\ (review.catalogChanged => Len(c) = 1)
  <2>1. DOMAIN [f \in {"catalogs"} |-> catalogNames] # {}
    OBVIOUS
  <2>2. CASE review.catalogChanged
    BY <2>1, <2>2, BatchType
  <2>3. CASE ~review.catalogChanged
    BY <2>3
  <2> QED
    BY <2>2, <2>3
<1>4. SW!Batches(payload, targets, specific) = (a \o b) \o c
  BY DEF SW!Batches
<1> HIDE DEF a, b, c
<1>5. a \o b \in Seq(SUBSET S) /\ Len(a \o b) = Len(a) + Len(b)
  BY <1>1, <1>2, ConcatProperties
<1>6. (a \o b) \o c \in Seq(SUBSET S) /\ Len((a \o b) \o c) = Len(a) + Len(b) + Len(c)
  BY <1>1, <1>2, <1>3, <1>5, ConcatProperties
<1>7. Len(a) \in Nat /\ Len(b) \in Nat /\ Len(c) \in Nat
  BY <1>1, <1>2, <1>3, LenProperties
<1>8. Len((a \o b) \o c) # 0
  BY <1>1, <1>3, <1>6, <1>7
<1> QED
  BY <1>4, <1>6, <1>8

\* A save starts with its first batch on the way and the others to come.
LEMMA StartStep ==
    ASSUME EditorInv, NEW batches \in Seq(SUBSET PutsOf(saves + 1)), batches # <<>>,
           SW!StartSave(batches)
    PROVE  EditorSaves'
<1>1. EditorSaves /\ saves \in Nat
  BY DEF EditorInv, EditorSaves
<1>n. PICK n \in Nat : n = saves + 1
  BY <1>1
<1>s. PICK s : s = [m |-> n, rest |-> Tail(batches), plan |-> UNION SW!Range(batches),
                    acked |-> {}, here |-> TRUE]
  OBVIOUS
<1>2. /\ saves' = n /\ running' = running \cup {s} /\ puts' = puts \cup Head(batches)
      /\ UNCHANGED reported
  BY <1>n, <1>s DEF SW!StartSave
<1>3. /\ Head(batches) \in SUBSET PutsOf(n) /\ Tail(batches) \in Seq(SUBSET PutsOf(n))
      /\ Len(Tail(batches)) = Len(batches) - 1 /\ Len(batches) \in Nat \ {0}
      /\ Head(batches) = batches[1]
      /\ \A i \in 1 .. Len(Tail(batches)) : Tail(batches)[i] = batches[i + 1]
  <2>1. batches \in Seq(SUBSET PutsOf(n))
    BY <1>n
  <2> QED
    BY <2>1, HeadTailProperties
<1>4. PutsOf(n) \subseteq GoodPuts /\ \A p \in PutsOf(n) : p.m = n
  BY DEF PutsOf
<1>5. \A p \in UNION SW!Range(batches) :
         p \in PutsOf(n) /\ (p \in Head(batches) \/ \E i \in 1 .. Len(Tail(batches)) : p \in Tail(batches)[i])
  <2>n. batches \in Seq(SUBSET PutsOf(n))
    BY <1>n
  <2> SUFFICES ASSUME NEW i \in 1 .. Len(batches), NEW p \in batches[i]
               PROVE  p \in PutsOf(n) /\ (p \in Head(batches) \/ \E k \in 1 .. Len(Tail(batches)) : p \in Tail(batches)[k])
    BY DEF SW!Range
  <2>1. p \in PutsOf(n)
    BY <2>n
  <2>2. CASE i = 1
    BY <1>3, <2>1, <2>2
  <2>3. CASE i # 1
    <3>1. i - 1 \in 1 .. Len(Tail(batches)) /\ Tail(batches)[i - 1] = batches[i]
      BY <1>3, <2>3
    <3> QED
      BY <2>1, <3>1
  <2> QED
    BY <2>2, <2>3
<1>6. Seq(SUBSET PutsOf(n)) \subseteq Seq(SUBSET GoodPuts)
  BY <1>4, SeqMonotonic
<1>7. s \in Mutations
  BY <1>s, <1>3, <1>4, <1>5, <1>6 DEF Mutations
<1>8. puts' \subseteq GoodPuts /\ \A p \in puts' : p.m <= saves'
  <2>1. \A p \in puts : p.m \in Nat /\ p.m <= saves
    BY <1>1 DEF EditorSaves, GoodPuts
  <2> QED
    BY <1>1, <1>n, <1>2, <1>3, <1>4, <2>1 DEF EditorSaves
<1>9. Accounted(s)'
  <2>1. s.m <= saves' /\ s.rest \in Seq(SUBSET PutsOf(s.m))
    BY <1>n, <1>s, <1>2, <1>3
  <2>2. \A p \in s.plan : (p \in puts' /\ p.m = s.m) \/ \E i \in 1 .. Len(s.rest) : p \in s.rest[i]
    BY <1>s, <1>2, <1>4, <1>5
  <2> QED
    BY <2>1, <2>2 DEF Accounted
<1>10. ASSUME NEW t \in running PROVE Accounted(t)' /\ t.m # n
  <2>1. Accounted(t) /\ t.m \in Nat
    BY <1>1 DEF EditorSaves, Mutations
  <2>2. t.m <= saves /\ t.rest \in Seq(SUBSET PutsOf(t.m))
    BY <2>1 DEF Accounted
  <2>3. \A p \in t.plan : \/ p \in t.acked
                          \/ p \in puts' /\ p.m = t.m
                          \/ \E i \in 1 .. Len(t.rest) : p \in t.rest[i]
    BY <1>2, <2>1 DEF Accounted
  <2>4. t.m <= saves' /\ t.m # n
    BY <1>1, <1>n, <1>2, <2>1, <2>2
  <2> QED
    BY <2>2, <2>3, <2>4 DEF Accounted
<1>11. s.m = n
  BY <1>s
<1> QED
  BY <1>1, <1>2, <1>n, <1>7, <1>8, <1>9, <1>10, <1>11 DEF EditorSaves

\* The reviewed PUTs of the dialog that is open.
LEMMA ReviewedPuts ==
    ASSUME SW!EditorAssumption, EditorInv, saveDialogOpen, review # None, page \in Ids,
           NEW v \in Ids, NEW payload \in SW!Patch,
           DOMAIN payload \subseteq DOMAIN review.after,
           \A f \in DOMAIN payload : review.after[f] = payload[f],
           v # page => DOMAIN payload \cap VersionSpecific = {}
    PROVE  SW!Put(v, payload) \in PutsOf(saves + 1)
<1>1. review.after \in SW!Patch /\ saves \in Nat
  BY DEF EditorInv, EditorReview, EditorSaves, Snapshots
<1> QED
  BY <1>1 DEF SW!Put, PutsOf, GoodPuts

LEMMA SaveStep ==
    ASSUME SW!EditorAssumption, EditorInv, review # None,
           SW!handleSaveThisVersion \/ SW!handleSaveAllVersions
    PROVE  EditorSaves'
<1>1. saveDialogOpen /\ page \in Ids
  BY DEF EditorInv, EditorTypes, SW!handleSaveThisVersion, SW!handleSaveAllVersions,
         SW!StartSave, SW!pkg_
<1>2. /\ review.payload \in SW!Patch /\ DOMAIN review.payload \subseteq SW!EditableFields
      /\ review.payload \in [DOMAIN review.payload -> Values]
      /\ \A f \in DOMAIN review.payload : f \in DOMAIN review.after /\ review.after[f] = review.payload[f]
      /\ DOMAIN review.payload # {} \/ review.catalogChanged
      /\ review.catalogChanged => /\ "catalogs" \in DOMAIN review.after
                                  /\ review.after["catalogs"] = catalogNames
  BY <1>1, PatchType DEF EditorInv, EditorReview, Snapshots, Faithful
<1>3. ASSUME NEW F \in SUBSET DOMAIN review.payload, NEW v \in Ids,
             v # page => F \cap VersionSpecific = {}
      PROVE  SW!Put(v, SW!Restrict(review.payload, F)) \in PutsOf(saves + 1)
  <2> DEFINE g == SW!Restrict(review.payload, F)
  <2>1. /\ DOMAIN g = F /\ g \in [F -> Values] /\ \A f \in F : g[f] = review.payload[f]
    BY <1>2 DEF SW!Restrict
  <2>2. g \in SW!Patch
    BY <1>2, <2>1, PatchType
  <2> HIDE DEF g
  <2>3. SW!Put(v, g) \in PutsOf(saves + 1)
    BY <1>1, <1>2, <1>3, <2>1, <2>2, ReviewedPuts
  <2> QED
    BY <2>3 DEF g
<1>4. ASSUME review.catalogChanged, NEW v \in Ids
      PROVE  SW!Put(v, [f \in {"catalogs"} |-> catalogNames]) \in PutsOf(saves + 1)
  <2> DEFINE g == [f \in {"catalogs"} |-> catalogNames]
  <2>1. DOMAIN g = {"catalogs"} /\ g \in [{"catalogs"} -> Values] /\ g["catalogs"] = catalogNames
    BY DEF EditorInv, EditorTypes
  <2>2. g \in SW!Patch
    BY <2>1, PatchType
  <2>3. "catalogs" \notin VersionSpecific
    BY DEF SW!EditorAssumption
  <2> HIDE DEF g
  <2>4. SW!Put(v, g) \in PutsOf(saves + 1)
    BY <1>1, <1>2, <1>4, <2>1, <2>2, <2>3, ReviewedPuts
  <2> QED
    BY <2>4 DEF g
<1>5. CASE SW!handleSaveThisVersion
  <2> DEFINE b == SW!Batches(review.payload, {page}, SW!NoPatch)
  <2>1. SW!Put(page, review.payload) \in PutsOf(saves + 1)
    BY <1>1, <1>2, ReviewedPuts
  <2>2. DOMAIN SW!NoPatch = {}
    BY DEF SW!NoPatch
  <2>3. b \in Seq(SUBSET PutsOf(saves + 1)) /\ b # <<>>
    BY <1>1, <1>2, <1>4, <2>1, <2>2, BatchesType
  <2>4. SW!StartSave(b)
    BY <1>5 DEF SW!handleSaveThisVersion
  <2> HIDE DEF b
  <2> QED
    BY <2>3, <2>4, StartStep
<1>6. CASE SW!handleSaveAllVersions
  <2> DEFINE own == SW!versionSpecificPayload(review.payload)
             common == SW!filterSharedPayload(review.payload)
             b == SW!Batches(common, Ids, own)
  <2>1. DOMAIN common # {} \/ review.catalogChanged
    BY <1>6 DEF SW!handleSaveAllVersions, SW!canApplyToAllVersions
  <2>2. \A v \in Ids : SW!Put(v, common) \in PutsOf(saves + 1)
    BY <1>3 DEF SW!filterSharedPayload
  <2>3. SW!Put(page, own) \in PutsOf(saves + 1)
    BY <1>1, <1>3 DEF SW!versionSpecificPayload
  <2>4. SW!StartSave(b)
    BY <1>6 DEF SW!handleSaveAllVersions
  <2> HIDE DEF own, common
  <2>5. b \in Seq(SUBSET PutsOf(saves + 1)) /\ b # <<>>
    BY <1>4, <2>1, <2>2, <2>3, BatchesType
  <2> HIDE DEF b
  <2> QED
    BY <2>4, <2>5, StartStep
<1> QED
  BY <1>5, <1>6

\* An answered PUT is acknowledged, and the next batch follows the last of one.
LEMMA AnswerStep ==
    ASSUME EditorInv, NEW p \in puts, NEW s \in running, SW!PutSucceeds(p, s)
    PROVE  EditorSaves'
<1>1. EditorSaves /\ saves' = saves /\ saves \in Nat
  BY DEF EditorInv, EditorSaves, SW!PutSucceeds, SW!counters
<1>2. s \in Mutations /\ s.m <= saves /\ s.rest \in Seq(SUBSET PutsOf(s.m)) /\ p.m = s.m
      /\ p \in GoodPuts
  BY <1>1 DEF EditorSaves, Accounted, SW!PutSucceeds
<1>3. \A t \in running \ {s} : Accounted(t) /\ t.m # s.m
  BY <1>1 DEF EditorSaves
<1>4. \A q \in s.plan : \/ q \in s.acked \cup {p}
                        \/ q \in puts \ {p} /\ q.m = s.m
                        \/ \E i \in 1 .. Len(s.rest) : q \in s.rest[i]
  BY <1>1 DEF EditorSaves, Accounted
<1>5. \A q \in PutsOf(s.m) : q \in GoodPuts /\ q.m = s.m
  BY DEF PutsOf
<1>6. ASSUME NEW t \in running \ {s}, puts \ {p} \subseteq puts' PROVE Accounted(t)'
  <2>1. Accounted(t) /\ t.m # p.m
    BY <1>2, <1>3
  <2>2. \A q \in t.plan : \/ q \in t.acked
                          \/ q \in puts' /\ q.m = t.m
                          \/ \E i \in 1 .. Len(t.rest) : q \in t.rest[i]
    BY <1>6, <2>1 DEF Accounted
  <2> QED
    BY <1>1, <2>1, <2>2 DEF Accounted
<1>7. CASE ~SW!LastOfBatch(p)
  <2>1. PICK t : t = [s EXCEPT !.acked = @ \cup {p}]
    OBVIOUS
  <2>2. running' = (running \ {s}) \cup {t} /\ puts' = puts \ {p} /\ reported' = reported
    BY <1>7, <2>1 DEF SW!PutSucceeds
  <2>3. t \in Mutations /\ t.m = s.m /\ t.rest = s.rest /\ t.plan = s.plan /\ t.acked = s.acked \cup {p}
    BY <1>2, <2>1 DEF Mutations
  <2>4. Accounted(t)'
    BY <1>1, <1>2, <1>4, <2>2, <2>3 DEF Accounted
  <2> QED
    BY <1>1, <1>3, <1>6, <2>2, <2>3, <2>4 DEF EditorSaves
<1>8. CASE SW!LastOfBatch(p) /\ s.rest # <<>>
  <2>1. PICK t : t = [s EXCEPT !.rest = Tail(@), !.acked = @ \cup {p}]
    OBVIOUS
  <2>2. /\ running' = (running \ {s}) \cup {t} /\ reported' = reported
        /\ puts' = (puts \ {p}) \cup Head(s.rest)
    BY <1>8, <2>1 DEF SW!PutSucceeds, SW!BatchSucceeds
  <2>3. /\ Head(s.rest) \in SUBSET PutsOf(s.m) /\ Tail(s.rest) \in Seq(SUBSET PutsOf(s.m))
        /\ Len(Tail(s.rest)) = Len(s.rest) - 1 /\ Head(s.rest) = s.rest[1]
        /\ \A i \in 1 .. Len(Tail(s.rest)) : Tail(s.rest)[i] = s.rest[i + 1]
        /\ Len(s.rest) \in Nat
    BY <1>2, <1>8, HeadTailProperties, LenProperties
  <2>4. Tail(s.rest) \in Seq(SUBSET GoodPuts)
    BY <1>5, <2>3, SeqMonotonic
  <2>5. /\ t \in Mutations /\ t.m = s.m /\ t.rest = Tail(s.rest) /\ t.plan = s.plan
        /\ t.acked = s.acked \cup {p}
    BY <1>2, <2>1, <2>4 DEF Mutations
  <2>6. \A q \in s.plan : \/ q \in s.acked \cup {p}
                          \/ q \in puts' /\ q.m = s.m
                          \/ \E i \in 1 .. Len(Tail(s.rest)) : q \in Tail(s.rest)[i]
    <3> SUFFICES ASSUME NEW i \in 1 .. Len(s.rest), NEW q \in s.rest[i]
                 PROVE  \/ q \in puts' /\ q.m = s.m
                        \/ \E k \in 1 .. Len(Tail(s.rest)) : q \in Tail(s.rest)[k]
      BY <1>4, <2>2
    <3>1. CASE i = 1
      BY <1>5, <2>2, <2>3, <3>1
    <3>2. CASE i # 1
      <4>1. i - 1 \in 1 .. Len(Tail(s.rest)) /\ Tail(s.rest)[i - 1] = s.rest[i]
        BY <2>3, <3>2
      <4> QED
        BY <4>1
    <3> QED
      BY <3>1, <3>2
  <2>7. Accounted(t)'
    BY <1>1, <1>2, <2>3, <2>5, <2>6 DEF Accounted
  <2>8. puts' \subseteq GoodPuts /\ \A q \in puts' : q.m <= saves'
    BY <1>1, <1>2, <1>5, <2>2, <2>3 DEF EditorSaves
  <2> QED
    BY <1>1, <1>3, <1>6, <2>2, <2>5, <2>7, <2>8 DEF EditorSaves
<1>9. CASE SW!LastOfBatch(p) /\ s.rest = <<>>
  <2>1. /\ running' = running \ {s} /\ puts' = puts \ {p}
        /\ reported' = {[plan |-> s.plan, acked |-> s.acked \cup {p}]}
    BY <1>9 DEF SW!PutSucceeds, SW!SaveSucceeds
  <2>2. \A q \in puts : q.m = s.m => q = p
    BY <1>2, <1>9 DEF SW!LastOfBatch
  <2>3. s.plan \subseteq s.acked \cup {p}
    BY <1>4, <1>9, <2>2
  <2> QED
    BY <1>1, <1>3, <1>6, <2>1, <2>3 DEF EditorSaves
<1> QED
  BY <1>7, <1>8, <1>9

LEMMA EditorSavesNext == ASSUME SW!EditorAssumption, EditorInv, SW!Next PROVE EditorSaves'
<1>1. EditorSaves /\ saves \in Nat
  BY DEF EditorInv, EditorSaves
<1>2. ASSUME UNCHANGED <<running, puts, reported, saves>> PROVE EditorSaves'
  BY <1>1, <1>2 DEF EditorSaves, Accounted
<1> USE DEF SW!requests, SW!counters
<1>3. CASE SW!Leave
  <2>1. /\ running' = {[s EXCEPT !.here = FALSE] : s \in running}
        /\ UNCHANGED <<puts, reported, saves>>
    BY <1>3 DEF SW!Leave, SW!Event
  <2>2. ASSUME NEW s \in running
        PROVE  LET t == [s EXCEPT !.here = FALSE]
               IN  /\ t \in Mutations /\ t.m = s.m /\ t.rest = s.rest
                   /\ t.plan = s.plan /\ t.acked = s.acked
    BY <1>1 DEF EditorSaves, Mutations
  <2>3. running' \subseteq Mutations
    BY <2>1, <2>2
  <2>4. ASSUME NEW t \in running' PROVE Accounted(t)'
    <3>1. PICK s \in running : t = [s EXCEPT !.here = FALSE]
      BY <2>1
    <3>2. Accounted(s) /\ t.m = s.m /\ t.rest = s.rest /\ t.plan = s.plan /\ t.acked = s.acked
      BY <1>1, <2>2, <3>1 DEF EditorSaves
    <3> QED
      BY <2>1, <3>2 DEF Accounted
  <2>5. ASSUME NEW t1 \in running', NEW t2 \in running', t1.m = t2.m PROVE t1 = t2
    <3>1. PICK s1 \in running : t1 = [s1 EXCEPT !.here = FALSE]
      BY <2>1
    <3>2. PICK s2 \in running : t2 = [s2 EXCEPT !.here = FALSE]
      BY <2>1
    <3>3. s1.m = s2.m
      BY <2>2, <2>5, <3>1, <3>2
    <3>4. s1 = s2
      BY <1>1, <3>3 DEF EditorSaves
    <3> QED
      BY <3>1, <3>2, <3>4
  <2> QED
    BY <1>1, <2>1, <2>3, <2>4, <2>5 DEF EditorSaves
<1>4. SW!Navigation => EditorSaves'
  BY <1>2, <1>3 DEF SW!Navigation, SW!LoseWrite, SW!VersionMenu, SW!handleVersionChange,
     SW!GoBack, SW!ShowVersion, SW!Open, SW!Expire, SW!Collect, SW!Fetch, SW!Event
<1>5. SW!Editing => EditorSaves'
  BY <1>2 DEF SW!Editing, SW!HeaderButtons, SW!EditGeneral,
     SW!EditConfiguration, SW!EditRelationships, SW!EditDetection, SW!EditInstall, SW!EditScripts,
     SW!updateField, SW!updateCatalogNames, SW!handleCancel, SW!handleSave, SW!Edit,
     SW!ConfirmDelete, SW!CloseReview
<1>6. ASSUME NEW p \in puts, puts' = puts \ {p}, UNCHANGED <<reported, saves>>,
             running' = {s \in running : s.m # p.m}
      PROVE  EditorSaves'
  <2>1. ASSUME NEW s \in running, s.m # p.m PROVE Accounted(s)'
    <3>1. Accounted(s)
      BY <1>1 DEF EditorSaves
    <3> QED
      BY <1>6, <2>1, <3>1 DEF Accounted
  <2> QED
    BY <1>1, <1>6, <2>1 DEF EditorSaves
<1>7. ASSUME NEW p \in puts, NEW s \in running, SW!PutFails(p, s) PROVE EditorSaves'
  <2>1. running' = {t \in running : t.m # p.m}
    BY <1>1, <1>7 DEF SW!PutFails, EditorSaves
  <2> QED
    BY <1>6, <1>7, <2>1 DEF SW!PutFails
<1>8. ASSUME NEW p \in puts, SW!LatePut(p) PROVE EditorSaves'
  <2>1. running' = {t \in running : t.m # p.m}
    BY <1>8 DEF SW!LatePut
  <2> QED
    BY <1>6, <1>8, <2>1 DEF SW!LatePut
<1>9. SW!Saving => EditorSaves'
  BY <1>2, <1>7, <1>8, SaveStep, AnswerStep DEF SW!Saving, SW!DeleteSucceeds, SW!DeleteFails
<1> QED
  BY <1>2, <1>4, <1>5, <1>9 DEF SW!Next, SW!OtherChange, SW!Event

LEMMA EditorNext == ASSUME SW!EditorAssumption, EditorInv, SW!Next PROVE EditorInv'
BY EditorTypesNext, EditorReviewNext, EditorSavesNext DEF EditorInv

LEMMA EditorImply ==
    ASSUME EditorInv
    PROVE  /\ SW!TypeOK /\ SW!WrittenWasReviewed /\ SW!SiblingsKeepInstallerFields
           /\ SW!ReportedMeansWritten
<1>1. EditorTypes /\ puts \subseteq GoodPuts /\ \A r \in reported : r.plan \subseteq r.acked
  BY DEF EditorInv, EditorSaves
<1>2. SW!TypeOK
  BY <1>1 DEF SW!TypeOK, EditorTypes, GoodPuts
<1> QED
  BY <1>1, <1>2 DEF GoodPuts, SW!WrittenWasReviewed, SW!SiblingsKeepInstallerFields,
                    SW!ReportedMeansWritten

-----------------------------------------------------------------------------
(* SoftwareList.                                                           *)

ListServer ==
    pkginfos \in [Software -> [category : {None, Category}, catalogs : SUBSET {Catalog},
                               is_deleted : BOOLEAN]]
ListPage ==
    /\ listState \in SL!SoftwarePageListState
    /\ SL!PageIsOfTheseFilters
Listed(l) ==
    \E k, d : /\ l \in [key : {k}, data : {d}, fresh : BOOLEAN, overtaken : BOOLEAN]
             /\ d.rows \subseteq Software
Fetched(f) ==
    /\ f \in [key : {f.key}, data : {f.data}, overtaken : BOOLEAN]
    /\ f.data # None => f.data.rows \subseteq Software
ListTicks ==
    /\ \A l \in listings : Listed(l)
    /\ \A f \in fetches : Fetched(f)
    /\ rowSelection \subseteq Software
ListDialogs ==
    /\ bulkDialog \in {None, "category", "catalogs", "delete"} /\ bulkForm \in SL!BulkForm
    /\ bulkCall \in SL!BulkUpdates \cup {None}
    /\ deleteCalls \subseteq Software
\* Also an answer on its way is true, unless an invalidation overtook it.
ListTrue ==
    /\ SL!FreshListingsAreTrue
    /\ ~foreign /\ deleteCalls = {} /\ (bulkCall = None \/ ~bulkCall.done)
           => \A f \in fetches : f.data # None /\ ~f.overtaken => f.data = SL!PaginatedResponse(f.key)
ListInv == ListServer /\ ListPage /\ ListTicks /\ ListDialogs /\ ListTrue

LEMMA ListInit == ASSUME SL!SoftwareListAssumption, SL!Init PROVE ListInv
<1> USE DEF SL!Init
<1>1. ListServer
  BY DEF ListServer
<1>2. ListPage
  <2>1. SL!NoFilters \in SL!Filters
    BY DEF SL!NoFilters, SL!Filters
  <2>2. SL!DefaultPageSize \in PageSizes
    BY DEF SL!SoftwareListAssumption, SL!DefaultPageSize
  <2>3. listState \in SL!SoftwarePageListState /\ listState.page = 1
    BY <2>1, <2>2 DEF SL!SoftwarePageListState
  <2> QED
    BY <2>3 DEF ListPage, SL!PageIsOfTheseFilters
<1>3. ListTicks /\ ListDialogs /\ ListTrue
  BY DEF ListTicks, ListDialogs, SL!BulkForm, SL!EmptyForm, SL!FreshListingsAreTrue, ListTrue
<1> QED
  BY <1>1, <1>2, <1>3 DEF ListInv

LEMMA SameAnswers ==
    UNCHANGED pkginfos => \A s : SL!PaginatedResponse(s)' = SL!PaginatedResponse(s)
BY DEF SL!PaginatedResponse, SL!Matches

\* A later page is turned to; every other step starts at the first.
LEMMA PageStep ==
    ASSUME SL!SoftwareListAssumption, ListPage,
           NEW s \in SL!SoftwarePageListState, listState' = SL!FirstPage(s)
    PROVE  ListPage'
BY DEF ListPage, SL!FirstPage, SL!SoftwarePageListState, SL!PageIsOfTheseFilters

LEMMA NewFilters ==
    ASSUME ListPage,
           NEW f \in SL!SearchBox \cup SL!FilterSheet \cup SL!activeFilters
                       \cup {SL!ClearFilters} \cup SL!makeSoftwareListColumns
    PROVE  f \in SL!Filters
<1>1. listState.filters \in SL!Filters
  BY DEF ListPage, SL!SoftwarePageListState
<1>2. \A g \in SL!Filters, k \in SL!FilterFields, b \in BOOLEAN : [g EXCEPT ![k] = b] \in SL!Filters
  BY DEF SL!Filters
<1>3. {"search", "category", "catalog", "deploymentStatus", "allVersions"} \subseteq SL!FilterFields
  BY DEF SL!FilterFields
<1>4. SL!NoFilters \in SL!Filters /\ listState.filters["search"] \in BOOLEAN
  BY <1>1, <1>3 DEF SL!NoFilters, SL!Filters
<1>5. CASE f \in SL!SearchBox \cup SL!FilterSheet
  BY <1>1, <1>2, <1>3, <1>5 DEF SL!SearchBox, SL!FilterSheet
<1>6. CASE f \in SL!activeFilters
  BY <1>1, <1>2, <1>6 DEF SL!activeFilters
<1>7. CASE f = SL!ClearFilters
  BY <1>2, <1>3, <1>4, <1>7 DEF SL!ClearFilters
<1>8. CASE f \in SL!makeSoftwareListColumns
  BY <1>1, <1>2, <1>3, <1>8 DEF SL!makeSoftwareListColumns
<1> QED
  BY <1>5, <1>6, <1>7, <1>8

LEMMA ShownAreItems == ASSUME ListTicks PROVE SL!Shown \subseteq Software
BY DEF ListTicks, Listed, SL!Shown, SL!Cached, SL!Listing

\* Once nothing is fresh and what was answered is overtaken, nothing has to be true.
LEMMA NothingFresh ==
    ASSUME ListTicks, listings' = SL!Invalidated, fetches' = SL!Refetched
    PROVE  ListTrue' /\ (\A l \in listings' : Listed(l)) /\ (\A f \in fetches' : Fetched(f))
<1>1. ASSUME NEW l \in listings PROVE Listed([l EXCEPT !.fresh = FALSE]) /\ ~[l EXCEPT !.fresh = FALSE].fresh
  <2>1. PICK k, d : /\ l \in [key : {k}, data : {d}, fresh : BOOLEAN, overtaken : BOOLEAN]
                    /\ d.rows \subseteq Software
    BY DEF ListTicks, Listed
  <2>2. /\ [l EXCEPT !.fresh = FALSE] \in [key : {k}, data : {d}, fresh : BOOLEAN, overtaken : BOOLEAN]
        /\ ~[l EXCEPT !.fresh = FALSE].fresh
    BY <2>1
  <2> QED
    BY <2>1, <2>2 DEF Listed
<1>2. \A l \in listings' : Listed(l) /\ ~l.fresh
  BY <1>1 DEF SL!Invalidated
<1> DEFINE sentAnew(f) == [key |-> f.key, data |-> None, overtaken |-> FALSE]
           goesOn(f) == [f EXCEPT !.overtaken = @ \/ f.data # None]
<1>3. ASSUME NEW f \in fetches
      PROVE  /\ Fetched(sentAnew(f)) /\ sentAnew(f).data = None
             /\ Fetched(goesOn(f)) /\ (goesOn(f).data # None => goesOn(f).overtaken)
  <2>1. /\ f \in [key : {f.key}, data : {f.data}, overtaken : BOOLEAN]
        /\ f.data # None => f.data.rows \subseteq Software
    BY DEF ListTicks, Fetched
  <2>2. sentAnew(f) \in [key : {f.key}, data : {None}, overtaken : BOOLEAN]
    BY <2>1
  <2>3. Fetched(sentAnew(f))
    BY <2>2 DEF Fetched
  <2>4. /\ goesOn(f) \in [key : {f.key}, data : {f.data}, overtaken : BOOLEAN]
        /\ goesOn(f).data # None => goesOn(f).overtaken
    BY <2>1
  <2>5. Fetched(goesOn(f))
    BY <2>1, <2>4 DEF Fetched
  <2> QED
    BY <2>3, <2>4, <2>5
<1>4. \A f \in fetches' : \E g \in fetches : f = sentAnew(g) \/ f = goesOn(g)
  BY DEF SL!Refetched
<1>5. \A f \in fetches' : Fetched(f) /\ (f.data # None => f.overtaken)
  <2> HIDE DEF sentAnew, goesOn
  <2> QED
    BY <1>3, <1>4
<1> QED
  BY <1>2, <1>5 DEF SL!FreshListingsAreTrue, ListTrue

LEMMA ListNext == ASSUME SL!SoftwareListAssumption, ListInv, SL!Next PROVE ListInv'
<1>1. ListServer /\ ListPage /\ ListTicks /\ ListDialogs /\ ListTrue
  BY DEF ListInv
<1>2. UNCHANGED pkginfos => ListServer'
  BY <1>1 DEF ListServer
<1>3. UNCHANGED <<listState, pagedUnder>> => ListPage'
  BY <1>1 DEF ListPage, SL!PageIsOfTheseFilters
<1>4. ASSUME UNCHANGED SL!cacheVars, rowSelection' \subseteq Software PROVE ListTicks'
  BY <1>1, <1>4 DEF ListTicks, SL!cacheVars
<1>5. UNCHANGED SL!bulkVars => ListDialogs'
  BY <1>1 DEF ListDialogs, SL!bulkVars
<1>6. ASSUME UNCHANGED <<pkginfos, SL!cacheVars>>,
             ~foreign' => ~foreign,
             ~foreign' /\ deleteCalls' = {} => deleteCalls = {},
             ~foreign' /\ (bulkCall' = None \/ ~bulkCall'.done) => bulkCall = None \/ ~bulkCall.done
      PROVE  ListTrue'
  BY <1>1, <1>6, SameAnswers DEF SL!cacheVars, ListTrue, SL!FreshListingsAreTrue
<1>7. rowSelection \subseteq Software /\ SL!Shown \subseteq Software
  BY <1>1, ShownAreItems DEF ListTicks
<1>8. SUFFICES ListServer' /\ ListPage' /\ ListTicks' /\ ListDialogs' /\ ListTrue'
  BY DEF ListInv
<1> DEFINE Kept == ListServer' /\ ListPage' /\ ListTicks' /\ ListDialogs' /\ ListTrue'
<1>9. ASSUME SL!FetchList \/ \E f \in fetches : SL!ServerAnswers(f) \/ SL!FetchArrives(f) \/ SL!FetchFails(f)
      PROVE  Kept
  <2>1. UNCHANGED <<pkginfos, foreign, bulkCall, deleteCalls, rowSelection>>
    BY <1>9 DEF SL!FetchList, SL!ServerAnswers, SL!FetchArrives, SL!FetchFails, SL!bulkVars
  <2>2. ListServer' /\ ListPage' /\ ListDialogs'
    BY <1>2, <1>3, <1>5, <1>9
       DEF SL!FetchList, SL!ServerAnswers, SL!FetchArrives, SL!FetchFails
  <2>3. \A s : SL!PaginatedResponse(s)' = SL!PaginatedResponse(s)
    BY <2>1, SameAnswers
  <2> DEFINE InTrust == ~foreign /\ deleteCalls = {} /\ (bulkCall = None \/ ~bulkCall.done)
             Holds(f) == f.data # None /\ ~f.overtaken => f.data = SL!PaginatedResponse(f.key)
             HoldsListed(l) == l.fresh /\ ~l.overtaken => l.data = SL!PaginatedResponse(l.key)
  <2>4. InTrust' = InTrust
    BY <2>1
  <2>5. InTrust => (\A l \in listings : HoldsListed(l)) /\ (\A f \in fetches : Holds(f))
    BY <1>1 DEF ListTrue, SL!FreshListingsAreTrue
  <2>6. SUFFICES /\ \A l \in listings' : Listed(l) /\ (InTrust => HoldsListed(l))
                 /\ \A f \in fetches' : Fetched(f) /\ (InTrust => Holds(f))
    BY <1>1, <2>1, <2>2, <2>3, <2>4 DEF ListTrue, SL!FreshListingsAreTrue, ListTicks
  <2>7. /\ \A l \in listings : Listed(l) /\ (InTrust => HoldsListed(l))
        /\ \A f \in fetches : Fetched(f) /\ (InTrust => Holds(f))
    BY <1>1, <2>5 DEF ListTicks
  <2>8. CASE SL!FetchList
    <3> DEFINE new == [key |-> listState, data |-> None, overtaken |-> FALSE]
    <3>1. new.data = None
      OBVIOUS
    <3>2. new \in [key : {listState}, data : {None}, overtaken : BOOLEAN]
      OBVIOUS
    <3>3. Fetched(new)
      BY <3>2 DEF Fetched
    <3>4. listings' = listings /\ fetches' = fetches \cup {new}
      BY <2>8 DEF SL!FetchList
    <3> HIDE DEF new, InTrust
    <3> QED
      BY <2>7, <3>1, <3>3, <3>4
  <2>9. ASSUME NEW f \in fetches, SL!ServerAnswers(f)
        PROVE  /\ \A l \in listings' : Listed(l) /\ (InTrust => HoldsListed(l))
               /\ \A g \in fetches' : Fetched(g) /\ (InTrust => Holds(g))
    <3> DEFINE new == [f EXCEPT !.data = SL!PaginatedResponse(f.key)]
    <3>1. f \in [key : {f.key}, data : {f.data}, overtaken : BOOLEAN]
      BY <2>7 DEF Fetched
    <3>2. SL!PaginatedResponse(f.key).rows \subseteq Software
      BY DEF SL!PaginatedResponse
    <3>3. /\ new \in [key : {f.key}, data : {SL!PaginatedResponse(f.key)}, overtaken : BOOLEAN]
          /\ new.data = SL!PaginatedResponse(new.key)
      BY <3>1
    <3>4. Fetched(new)
      BY <3>2, <3>3 DEF Fetched
    <3>5. listings' = listings /\ fetches' = (fetches \ {f}) \cup {new}
      BY <2>9 DEF SL!ServerAnswers
    <3> HIDE DEF new, InTrust
    <3> QED
      BY <2>7, <3>3, <3>4, <3>5
  <2>10. ASSUME NEW f \in fetches, SL!FetchArrives(f)
         PROVE  /\ \A l \in listings' : Listed(l) /\ (InTrust => HoldsListed(l))
                /\ \A g \in fetches' : Fetched(g) /\ (InTrust => Holds(g))
    <3> DEFINE new == [key |-> f.key, data |-> f.data, fresh |-> TRUE, overtaken |-> f.overtaken]
    <3>1. f.data # None
      BY <2>10 DEF SL!FetchArrives
    <3>2. f.data.rows \subseteq Software /\ f.overtaken \in BOOLEAN
      BY <2>7, <3>1 DEF Fetched
    <3>3. new \in [key : {f.key}, data : {f.data}, fresh : BOOLEAN, overtaken : BOOLEAN]
      BY <3>2
    <3>4. Listed(new)
      BY <3>2, <3>3 DEF Listed
    <3>5. InTrust => HoldsListed(new)
      BY <2>7, <3>1
    <3>6. fetches' \subseteq fetches /\ listings' \subseteq listings \cup {new}
      BY <2>10 DEF SL!FetchArrives
    <3> HIDE DEF new, InTrust, HoldsListed
    <3> QED
      BY <2>7, <3>4, <3>5, <3>6
  <2>11. ASSUME NEW f \in fetches, SL!FetchFails(f)
         PROVE  /\ \A l \in listings' : Listed(l) /\ (InTrust => HoldsListed(l))
                /\ \A g \in fetches' : Fetched(g) /\ (InTrust => Holds(g))
    <3>1. fetches' \subseteq fetches /\ listings' = listings
      BY <2>11 DEF SL!FetchFails
    <3> QED
      BY <2>7, <3>1
  <2> QED
    BY <1>9, <2>8, <2>9, <2>10, <2>11
<1>10. ASSUME NEW f \in SL!SearchBox \cup SL!FilterSheet \cup SL!activeFilters
                           \cup {SL!ClearFilters} \cup SL!makeSoftwareListColumns,
              SL!ChangeFilters(f)
       PROVE  Kept
  <2>1. [listState EXCEPT !.filters = f] \in SL!SoftwarePageListState
    BY <1>1, NewFilters DEF ListPage, SL!SoftwarePageListState
  <2>2. ListPage'
    BY <1>1, <1>10, <2>1, PageStep DEF SL!ChangeFilters
  <2> QED
    BY <1>2, <1>4, <1>5, <1>6, <1>7, <1>10, <2>2 DEF SL!ChangeFilters, SL!bulkVars
<1>11. ASSUME NEW p \in SL!PageButtons, SL!TurnPage(p) PROVE Kept
  <2>1. p \in Nat \ {0}
    BY <1>1 DEF SL!PageButtons, ListPage, SL!SoftwarePageListState
  <2>2. ListPage'
    BY <1>1, <1>11, <2>1 DEF SL!TurnPage, ListPage, SL!SoftwarePageListState, SL!PageIsOfTheseFilters
  <2> QED
    BY <1>2, <1>4, <1>5, <1>6, <1>7, <1>11, <2>2 DEF SL!TurnPage, SL!bulkVars
<1>12. ASSUME NEW n \in PageSizes, SL!SetPageSize(n) PROVE Kept
  <2>1. [listState EXCEPT !.pageSize = n] \in SL!SoftwarePageListState
    BY <1>1 DEF ListPage, SL!SoftwarePageListState
  <2>2. ListPage'
    BY <1>1, <1>12, <2>1, PageStep DEF SL!SetPageSize
  <2> QED
    BY <1>2, <1>4, <1>5, <1>6, <1>7, <1>12, <2>2 DEF SL!SetPageSize, SL!bulkVars
<1>13. ASSUME NEW order \in {"asc", "desc"}, SL!SortBy(order) PROVE Kept
  <2>1. [listState EXCEPT !.sorting = order] \in SL!SoftwarePageListState
    BY <1>1 DEF ListPage, SL!SoftwarePageListState
  <2>2. ListPage'
    BY <1>1, <1>13, <2>1, PageStep DEF SL!SortBy
  <2> QED
    BY <1>2, <1>4, <1>5, <1>6, <1>7, <1>13, <2>2 DEF SL!SortBy, SL!bulkVars
<1>14. CASE SL!TickRows
  <2>1. rowSelection' \subseteq Software
    BY <1>7, <1>14 DEF SL!TickRows, SL!toggleAllPageRowsSelected, SL!toggleSelected
  <2> QED
    BY <1>2, <1>3, <1>4, <1>5, <1>6, <1>14, <2>1 DEF SL!TickRows, SL!bulkVars
<1>15. ASSUME NEW b \in SL!SelectionBar, SL!PressBar(b) PROVE Kept
  <2>1. ListDialogs'
    BY <1>1, <1>15 DEF SL!PressBar, SL!SelectionBar, ListDialogs, SL!EmptyForm, SL!BulkForm
  <2>2. rowSelection' \subseteq Software
    BY <1>7, <1>15 DEF SL!PressBar
  <2> QED
    BY <1>2, <1>3, <1>4, <1>6, <1>15, <2>1, <2>2 DEF SL!PressBar
<1>16. ASSUME NEW f \in SL!BulkForm, SL!FillBulkForm(f) PROVE Kept
  <2>1. ListDialogs'
    BY <1>1, <1>16 DEF SL!FillBulkForm, ListDialogs
  <2> QED
    BY <1>2, <1>3, <1>4, <1>6, <1>7, <1>16, <2>1 DEF SL!FillBulkForm, SL!tableVars
<1>17. CASE SL!CloseDialog
  <2>1. ListDialogs'
    BY <1>1, <1>17 DEF SL!CloseDialog, ListDialogs
  <2> QED
    BY <1>2, <1>3, <1>4, <1>6, <1>7, <1>17, <2>1 DEF SL!CloseDialog, SL!tableVars
<1>18. CASE SL!ApplyBulk
  <2>1. bulkCall' \in SL!BulkUpdates
    <3>1. bulkForm.category \in {None, Category} /\ bulkForm.catalogs \in SUBSET {Catalog}
      BY <1>1 DEF ListDialogs, SL!BulkForm
    <3>2. \/ \E c \in {None, Category} :
                bulkCall' = [ids |-> rowSelection, field |-> "category", value |-> c, done |-> FALSE]
          \/ \E c \in SUBSET {Catalog} :
                bulkCall' = [ids |-> rowSelection, field |-> "catalogs", value |-> c, done |-> FALSE]
      BY <1>18, <3>1 DEF SL!ApplyBulk
    <3> QED
      <4>1. ASSUME NEW c \in {None, Category}
            PROVE  [ids |-> rowSelection, field |-> "category", value |-> c, done |-> FALSE] \in
                     [ids : SUBSET Software, field : {"category"}, value : {None, Category}, done : BOOLEAN]
        BY <1>7
      <4>2. ASSUME NEW c \in SUBSET {Catalog}
            PROVE  [ids |-> rowSelection, field |-> "catalogs", value |-> c, done |-> FALSE] \in
                     [ids : SUBSET Software, field : {"catalogs"}, value : SUBSET {Catalog}, done : BOOLEAN]
        BY <1>7
      <4> QED
        BY <3>2, <4>1, <4>2 DEF SL!BulkUpdates
  <2>2. ListDialogs'
    BY <1>1, <1>18, <2>1 DEF SL!ApplyBulk, ListDialogs
  <2> QED
    BY <1>2, <1>3, <1>4, <1>6, <1>7, <1>18, <2>2 DEF SL!ApplyBulk, SL!tableVars
<1>19. CASE SL!BulkCommits
  <2>1. bulkCall \in SL!BulkUpdates /\ None \notin SL!BulkUpdates
    BY <1>1, <1>19 DEF SL!BulkCommits, ListDialogs, SL!SoftwareListAssumption
  <2>2. bulkCall' \in SL!BulkUpdates /\ bulkCall'.done
    BY <1>19, <2>1 DEF SL!BulkCommits, SL!BulkUpdates
  <2>3. ListDialogs'
    BY <1>1, <1>19, <2>2 DEF SL!BulkCommits, ListDialogs
  <2>4. ListServer'
    <3>1. /\ bulkCall.field \in {"category", "catalogs"}
          /\ bulkCall.field = "category" => bulkCall.value \in {None, Category}
          /\ bulkCall.field = "catalogs" => bulkCall.value \in SUBSET {Catalog}
      BY <2>1 DEF SL!BulkUpdates
    <3> QED
      BY <1>1, <1>19, <3>1 DEF SL!BulkCommits, SL!bulk_update_pkginfo, ListServer
  <2>5. ListTrue'
    BY <2>1, <2>2 DEF ListTrue, SL!FreshListingsAreTrue
  <2> QED
    BY <1>3, <1>4, <1>7, <1>19, <2>3, <2>4, <2>5 DEF SL!BulkCommits, SL!tableVars
<1>20. CASE SL!BulkSucceeds
  <2>1. ListDialogs'
    BY <1>1, <1>20 DEF SL!BulkSucceeds, ListDialogs, SL!EmptyForm, SL!BulkForm
  <2>2. ListTicks' /\ ListTrue'
    BY <1>1, <1>20, NothingFresh DEF SL!BulkSucceeds, ListTicks
  <2> QED
    BY <1>2, <1>3, <1>20, <2>1, <2>2 DEF SL!BulkSucceeds
<1>21. CASE SL!BulkFails
  <2>1. ListDialogs'
    BY <1>1, <1>21 DEF SL!BulkFails, ListDialogs
  <2> QED
    BY <1>2, <1>3, <1>4, <1>6, <1>7, <1>21, <2>1 DEF SL!BulkFails, SL!tableVars
<1>22. CASE SL!ConfirmDelete
  <2>1. ListDialogs'
    BY <1>1, <1>7, <1>22 DEF SL!ConfirmDelete, ListDialogs
  <2> QED
    BY <1>2, <1>3, <1>4, <1>6, <1>7, <1>22, <2>1 DEF SL!ConfirmDelete, SL!tableVars
<1>23. ASSUME SL!AllDeleted
       PROVE  ListTicks' /\ ListTrue'
              /\ bulkDialog' \in {None, "category", "catalogs", "delete"}
  BY <1>1, <1>23, NothingFresh DEF SL!AllDeleted, ListTicks, ListDialogs
<1>24. CASE SL!DeleteNothing
  <2>1. ListDialogs'
    BY <1>1, <1>23, <1>24 DEF SL!DeleteNothing, ListDialogs
  <2> QED
    BY <1>2, <1>3, <1>23, <1>24, <2>1 DEF SL!DeleteNothing
<1>25. ASSUME NEW i \in deleteCalls, SL!DeleteSucceeds(i) PROVE Kept
  <2>1. ListServer'
    BY <1>1, <1>25 DEF SL!DeleteSucceeds, ListServer
  <2>2. ListDialogs'
    BY <1>1, <1>23, <1>25 DEF SL!DeleteSucceeds, ListDialogs
  <2>3. CASE SL!AllDeleted
    BY <1>3, <1>23, <1>25, <2>1, <2>2, <2>3 DEF SL!DeleteSucceeds
  <2>4. CASE ~SL!AllDeleted
    <3>1. UNCHANGED <<SL!cacheVars, rowSelection>>
      BY <1>25, <2>4 DEF SL!DeleteSucceeds
    <3>2. ListTrue'
      BY <1>25, <2>4 DEF SL!DeleteSucceeds, ListTrue, SL!FreshListingsAreTrue
    <3> QED
      BY <1>3, <1>4, <1>7, <1>25, <2>1, <2>2, <3>1, <3>2 DEF SL!DeleteSucceeds
  <2> QED
    BY <2>3, <2>4
<1>26. ASSUME NEW i \in deleteCalls, SL!DeleteFails(i) PROVE Kept
  <2>1. ListDialogs'
    BY <1>1, <1>26 DEF SL!DeleteFails, ListDialogs
  <2> QED
    BY <1>2, <1>3, <1>4, <1>6, <1>7, <1>26, <2>1 DEF SL!DeleteFails, SL!tableVars
<1>27. ASSUME NEW filtered \in BOOLEAN, SL!OpenPage(filtered) PROVE Kept
  <2>1. ListDialogs'
    BY <1>27 DEF SL!OpenPage, ListDialogs, SL!EmptyForm, SL!BulkForm
  <2>2. ListPage'
    <3>1. CASE listState' = listState
      BY <1>3, <1>27, <3>1 DEF SL!OpenPage
    <3>2. CASE listState' = SL!FirstPage([listState EXCEPT !.filters["deploymentStatus"] = TRUE])
      <4>1. [listState.filters EXCEPT !["deploymentStatus"] = TRUE] \in SL!Filters
        BY <1>1 DEF ListPage, SL!SoftwarePageListState, SL!Filters, SL!FilterFields
      <4>2. [listState EXCEPT !.filters["deploymentStatus"] = TRUE] \in SL!SoftwarePageListState
        BY <1>1, <4>1 DEF ListPage, SL!SoftwarePageListState
      <4> QED
        BY <1>1, <3>2, <4>2, PageStep
    <3> QED
      BY <1>27, <3>1, <3>2 DEF SL!OpenPage
  <2> QED
    BY <1>2, <1>4, <1>6, <1>27, <2>1, <2>2 DEF SL!OpenPage
<1>28. CASE SL!LoseWrite
  BY <1>2, <1>3, <1>4, <1>5, <1>6, <1>28 DEF SL!LoseWrite, SL!bulkVars
<1>29. ASSUME NEW i \in Software, SL!OtherDeletes(i) PROVE Kept
  <2>1. ListServer'
    BY <1>1, <1>29 DEF SL!OtherDeletes, ListServer
  <2>2. ListTrue'
    BY <1>29 DEF SL!OtherDeletes, ListTrue, SL!FreshListingsAreTrue
  <2> QED
    BY <1>3, <1>4, <1>5, <1>7, <1>29, <2>1, <2>2 DEF SL!OtherDeletes, SL!tableVars
<1> QED
  BY <1>9, <1>10, <1>11, <1>12, <1>13, <1>14, <1>15, <1>16, <1>17, <1>18, <1>19, <1>20, <1>21,
     <1>22, <1>24, <1>25, <1>26, <1>27, <1>28, <1>29 DEF SL!Next

LEMMA ListTypes == ASSUME ListInv PROVE SL!ListTypeOK
BY DEF ListInv, ListServer, ListPage, ListTicks, ListDialogs, SL!ListTypeOK

-----------------------------------------------------------------------------
(* RolloutCard.  What the service functions return is ShardRolloutProofs'. *)

SR == INSTANCE ShardRolloutProofs WITH
        Pkg <- {}, Title <- {}, name <- [x \in {} |-> x], Tickers <- {}, Operators <- {},
        DaysChoices <- {}, PolicyChoices <- {}, EnabledChoices <- {}, OverrideChoices <- {},
        ConditionChoices <- {}, MaxRequests <- 0,
        today <- day, prefs <- Prefs, present <- {}, pkgs <- <<>>, prodLink <- <<>>,
        txn <- <<>>, requests <- 0

LEMMA ServiceAssumptions == SR!NullAssumption /\ SR!ConstantsAssumption
<1>1. SR!NullAssumption
  BY InstanceAssumptions DEF SR!NullAssumption
<1>2. SR!ConstantsAssumption
  BY InstanceAssumptions DEF SR!ConstantsAssumption, RC!CardAssumption
<1> QED
  BY <1>1, <1>2

LEMMA SameRows == RC!Row = SR!Row /\ RC!Preferences = SR!Preferences /\ RC!Percent = SR!Percent
BY DEF RC!Row, SR!Row, RC!Preferences, SR!Preferences, RC!Percent, SR!Percent,
       RC!ShardRolloutStatus, SR!ShardRolloutStatus, RC!ShardOverride, SR!ShardOverride,
       RC!Condition, SR!Condition, RC!NetNewShardPolicy, SR!NetNewShardPolicy

LEMMA SameService ==
    ASSUME NEW r, NEW p, NEW now, NEW percent, NEW prod
    PROVE  /\ RC!compute_shard_percent(r, p, now) = SR!compute_shard_percent(r, p, now)
           /\ RC!start_shard_rollout(r, p, now) = SR!start_shard_rollout(r, p, now)
           /\ RC!pause_shard_rollout(r) = SR!pause_shard_rollout(r)
           /\ RC!complete_shard_rollout(r, now) = SR!complete_shard_rollout(r, now)
           /\ RC!set_shard_percent_override(r, percent, now) = SR!set_shard_percent_override(r, percent, now)
           /\ RC!clear_shard_percent_override(r, p, now) = SR!clear_shard_percent_override(r, p, now)
           /\ RC!tick_one_pkg(r, prod, p, now) = SR!tick_one_pkg(r, prod, p, now)
           /\ RC!maybe_init_shard(r, prod, None, TRUE, p, now) = SR!maybe_init_shard(r, prod, None, TRUE, p, now)
BY DEF RC!compute_shard_percent, SR!compute_shard_percent,
       RC!start_shard_rollout, SR!start_shard_rollout, RC!ScheduledRow, SR!ScheduledRow,
       RC!ApplyShardFields, SR!ApplyShardFields, RC!ApplyShardPercent, SR!ApplyShardPercent,
       RC!installable_condition_for_percent, SR!installable_condition_for_percent,
       RC!pause_shard_rollout, SR!pause_shard_rollout,
       RC!complete_shard_rollout, SR!complete_shard_rollout,
       RC!set_shard_percent_override, SR!set_shard_percent_override,
       RC!clear_shard_percent_override, SR!clear_shard_percent_override,
       RC!tick_one_pkg, SR!tick_one_pkg, RC!Tickable, SR!Tickable,
       RC!maybe_init_shard, SR!maybe_init_shard, RC!init_shard_rollout, SR!init_shard_rollout,
       RC!ResetRow, SR!ResetRow

LEMMA RowTypes ==
    ASSUME NEW r \in RC!Row, NEW p \in RC!Preferences, NEW now \in Nat,
           NEW percent \in RC!Percent, NEW prod \in BOOLEAN
    PROVE  /\ RC!start_shard_rollout(r, p, now) \in RC!Row
           /\ RC!pause_shard_rollout(r) \in RC!Row
           /\ RC!complete_shard_rollout(r, now) \in RC!Row
           /\ RC!set_shard_percent_override(r, percent, now) \in RC!Row
           /\ RC!clear_shard_percent_override(r, p, now) \in RC!Row
           /\ RC!tick_one_pkg(r, prod, p, now) \in RC!Row
           /\ RC!maybe_init_shard(r, prod, None, TRUE, p, now) \in RC!Row
<1>1. r \in SR!Row /\ p \in SR!Preferences /\ percent \in SR!Percent
  BY SameRows
<1>2. /\ SR!start_shard_rollout(r, p, now) \in SR!Row
      /\ SR!complete_shard_rollout(r, now) \in SR!Row
      /\ SR!set_shard_percent_override(r, percent, now) \in SR!Row
      /\ SR!clear_shard_percent_override(r, p, now) \in SR!Row
  BY <1>1, ServiceAssumptions, SR!StartType, SR!CompleteType, SR!PinType, SR!UnpinType
<1>3. SR!pause_shard_rollout(r) \in SR!Row
  BY <1>1, ServiceAssumptions, SR!PauseType, SR!Hundred
<1>4. SR!tick_one_pkg(r, prod, p, now) \in SR!Row
  BY <1>1, ServiceAssumptions, SR!TickRow
<1>5. SR!maybe_init_shard(r, prod, None, TRUE, p, now) \in SR!Row
  BY <1>1, ServiceAssumptions, SR!InitType
<1> QED
  BY <1>2, <1>3, <1>4, <1>5, SameRows, SameService

LEMMA ScheduledPercent ==
    ASSUME NEW started \in Nat, NEW days \in 1 .. 30, NEW now \in Nat
    PROVE  RC!compute_shard_percent(started, days, now) \in RC!Percent
<1>1. SR!compute_shard_percent(started, days, now) \in SR!Percent
  BY ServiceAssumptions, SR!PercentType
<1> QED
  BY <1>1, SameRows, SameService

\* What the requests and the tick do to the pin and to the state.
LEMMA RequestEffects ==
    ASSUME NEW r \in RC!Row, NEW p, NEW now
    PROVE  /\ LET started == RC!start_shard_rollout(r, p, now)
              IN  /\ started.shard_percent_override = r.shard_percent_override
                  /\ started.shard_rollout_status \in {"active", "complete"}
           /\ LET paused == RC!pause_shard_rollout(r)
              IN  /\ paused.shard_percent_override = r.shard_percent_override
                  /\ paused.shard_rollout_status = "paused"
           /\ LET complete == RC!complete_shard_rollout(r, now)
              IN  /\ complete.shard_percent_override = None
                  /\ complete.shard_rollout_status = "complete"
           /\ RC!clear_shard_percent_override(r, p, now).shard_percent_override = None
<1>1. LET started == RC!start_shard_rollout(r, p, now)
      IN  /\ started.shard_percent_override = r.shard_percent_override
          /\ started.shard_rollout_status \in {"active", "complete"}
  BY DEF RC!start_shard_rollout, RC!ScheduledRow, RC!ApplyShardFields, RC!Row
<1>2. LET paused == RC!pause_shard_rollout(r)
      IN  /\ paused.shard_percent_override = r.shard_percent_override
          /\ paused.shard_rollout_status = "paused"
  BY DEF RC!pause_shard_rollout, RC!Row
<1>3. LET complete == RC!complete_shard_rollout(r, now)
      IN  /\ complete.shard_percent_override = None
          /\ complete.shard_rollout_status = "complete"
  BY DEF RC!complete_shard_rollout, RC!ApplyShardFields, RC!Row
<1>4. RC!clear_shard_percent_override(r, p, now).shard_percent_override = None
  BY DEF RC!clear_shard_percent_override, RC!ApplyShardPercent, RC!Row
<1> QED
  BY <1>1, <1>2, <1>3, <1>4

LEMMA PinEffect ==
    ASSUME NEW r \in RC!Row, NEW percent \in RC!Percent, NEW now
    PROVE  LET pinned == RC!set_shard_percent_override(r, percent, now)
           IN  \/ pinned.shard_percent_override = percent
               \/ pinned.shard_percent_override = None /\ pinned.shard_rollout_status = "complete"
BY DEF RC!set_shard_percent_override, RC!ApplyShardPercent, RC!Row, RC!Percent

LEMMA TickEffect ==
    ASSUME NEW r \in RC!Row, NEW prod, NEW p, NEW now
    PROVE  LET ticked == RC!tick_one_pkg(r, prod, p, now)
           IN  /\ ticked.shard_percent_override = r.shard_percent_override
               /\ \/ ticked.shard_rollout_status = r.shard_rollout_status
                  \/ r.shard_rollout_status = "active" /\ ticked.shard_rollout_status = "complete"
BY DEF RC!tick_one_pkg, RC!Tickable, RC!Row

\* A status the row has left for good, as long as only the card writes: the
\* next answer is another one.
LeftBehind(before, now) ==
    \/ before = "pending_approval" /\ now \in {"active", "complete"}
    \/ before = "active" /\ now \in {"paused", "complete"}
    \/ before = "paused" /\ now = "complete"

\* The pin is shown, or was dropped in a step the next status tells of.
PinSettles ==
    \/ RC!ShowsPin(row.shard_percent_override)
    \/ /\ overrideEnabled /\ row.shard_percent_override = None
       /\ LeftBehind(st.shard_rollout_status, row.shard_rollout_status)

\* What a request on its way will settle.
PinWillSettle(r) ==
    \/ /\ r.kind = "start" /\ st.shard_rollout_status = "pending_approval" /\ PinSettles
    \/ /\ r.kind = "pause" /\ st.shard_rollout_status = "active" /\ PinSettles
    \/ /\ r.kind = "complete" /\ PinSettles
       /\ st.shard_rollout_status \in {"pending_approval", "active", "paused"}
    \/ r.kind = "override" /\ r.percent = None /\ ~overrideEnabled
    \/ /\ r.kind = "override" /\ r.percent \in RC!Percent /\ r.percent # None
       /\ overrideEnabled /\ overrideValue = r.percent
       /\ st.shard_rollout_status \in {"active", "paused"}

CardTypes ==
    /\ row \in RC!Row /\ day \in 0 .. MaxDay
    /\ inProduction \in BOOLEAN /\ stStale \in BOOLEAN /\ overrideEnabled \in BOOLEAN
    /\ changed \in BOOLEAN /\ overrideValue \in 0 .. 100
    /\ pinHistory \in {"synced", "asked", "crossed"}
    /\ request = None \/ request \in RC!CardRequest
CardStatus ==
    st # None =>
        /\ st.deployment_status = "sharding" => st.shard_rollout_status = "active"
        /\ st.deployment_status = "paused" => st.shard_rollout_status = "paused"
        /\ st.deployment_status = "pending_rollout" => st.shard_rollout_status = "pending_approval"
        /\ st.deployment_status \in
              {"not_in_production", "paused", "pending_rollout", "sharding", "fully_deployed"}
        /\ ~changed => /\ st.active => inProduction
                       /\ st.deployment_status # "not_in_production" => inProduction
        /\ ~changed /\ ~stStale => /\ st.shard_percent_override = row.shard_percent_override
                                   /\ st.shard_rollout_status = row.shard_rollout_status
CardPin ==
    st # None =>
        /\ pinHistory = "synced" => RC!ShowsPin(st.shard_percent_override)
        /\ pinHistory = "asked" =>
              \/ RC!ShowsPin(st.shard_percent_override)
              \/ IF RC!busy THEN PinWillSettle(request) ELSE PinSettles
CardInv == CardTypes /\ cardForeign \in Nat /\ CardStatus /\ CardPin

LEMMA CardInit == ASSUME RC!CardAssumption, RC!Init PROVE CardInv
<1>1. RC!FreshRow \in RC!Row
  BY DEF RC!FreshRow, RC!Row, RC!ShardRolloutStatus, RC!Condition
<1>2. row = RC!maybe_init_shard(RC!FreshRow, TRUE, None, TRUE, Prefs, 0)
  BY DEF RC!Init, RC!maybe_init_shard, RC!FreshRow
<1>3. 0 \in RC!Percent
  BY DEF RC!Percent
<1>4. row \in RC!Row
  BY <1>1, <1>2, <1>3, RowTypes DEF RC!CardAssumption
<1>5. day \in 0 .. MaxDay /\ overrideValue \in 0 .. 100 /\ cardForeign \in Nat
  BY DEF RC!Init, RC!CardAssumption
<1>6. CardTypes
  BY <1>4, <1>5 DEF RC!Init, CardTypes
<1>7. CardStatus /\ CardPin
  BY DEF RC!Init, CardStatus, CardPin
<1> QED
  BY <1>5, <1>6, <1>7 DEF CardInv

LEMMA AnswerType ==
    ASSUME RC!CardAssumption, CardTypes
    PROVE  /\ RC!ShardStatus.shard_percent_override = row.shard_percent_override
           /\ RC!ShardStatus.shard_rollout_status = row.shard_rollout_status
           /\ RC!ShardStatus.shard_percent \in RC!Percent \cup {None}
           /\ RC!ShardStatus.scheduled_shard_percent \in RC!Percent \cup {None}
           /\ RC!ShardStatus.active => inProduction
           /\ \/ /\ RC!ShardStatus.deployment_status = "not_in_production"
              \/ /\ RC!ShardStatus.deployment_status = "sharding"
                 /\ inProduction /\ row.shard_rollout_status = "active"
              \/ /\ RC!ShardStatus.deployment_status = "paused"
                 /\ inProduction /\ row.shard_rollout_status = "paused"
              \/ /\ RC!ShardStatus.deployment_status = "pending_rollout"
                 /\ inProduction /\ row.shard_rollout_status = "pending_approval"
              \/ RC!ShardStatus.deployment_status = "fully_deployed" /\ inProduction
<1>1. /\ row.shard_percent_override \in RC!Percent \cup {None}
      /\ row.shard_percent \in RC!Percent \cup {None}
      /\ row.shard_started_at \in Nat \cup {None}
  BY DEF CardTypes, RC!Row
<1>2. row.shard_started_at # None =>
         RC!compute_shard_percent(row.shard_started_at, Prefs.days, day) \in RC!Percent
  BY <1>1, ScheduledPercent DEF CardTypes, RC!CardAssumption, RC!Preferences
<1>3. RC!effective_shard_percent(row, Prefs, day) \in RC!Percent \cup {None}
  BY <1>1, <1>2 DEF RC!effective_shard_percent
<1>4. RC!ShardStatus.deployment_status = RC!ReportedStatus(row, inProduction, Prefs, day)
  BY DEF RC!ShardStatus
<1>5. \/ /\ RC!ShardStatus.deployment_status = "not_in_production"
      \/ /\ RC!ShardStatus.deployment_status = "sharding"
         /\ inProduction /\ row.shard_rollout_status = "active"
      \/ /\ RC!ShardStatus.deployment_status = "paused"
         /\ inProduction /\ row.shard_rollout_status = "paused"
      \/ /\ RC!ShardStatus.deployment_status = "pending_rollout"
         /\ inProduction /\ row.shard_rollout_status = "pending_approval"
      \/ RC!ShardStatus.deployment_status = "fully_deployed" /\ inProduction
  BY <1>4 DEF RC!ReportedStatus, RC!derive_deployment_status
<1> QED
  BY <1>1, <1>2, <1>3, <1>5 DEF RC!ShardStatus

\* A status that is loaded is the row's, and shown unless it is the old one.
LEMMA FetchStep == ASSUME RC!CardAssumption, CardInv, RC!FetchStatus PROVE CardInv'
<1>1. CardTypes /\ CardPin
  BY DEF CardInv
<1> DEFINE new == RC!ShardStatus
<1>2. st' = new /\ stStale' = FALSE /\ changed' = FALSE
      /\ UNCHANGED <<row, inProduction, day, cardForeign, request>>
  BY DEF RC!FetchStatus
<1>3. CASE st = new
  <2>1. UNCHANGED <<st, overrideEnabled, overrideValue, pinHistory>>
    BY <1>2, <1>3 DEF RC!FetchStatus, RC!pinVars
  <2>2. CardTypes'
    BY <1>1, <1>2, <2>1 DEF CardTypes
  <2>3. CardStatus'
    BY <1>1, <1>2, AnswerType DEF CardStatus
  <2>4. CardPin'
    BY <1>1, <1>2, <2>1 DEF CardPin, RC!ShowsPin, PinSettles, PinWillSettle, LeftBehind, RC!busy
  <2> QED
    BY <1>2, <2>2, <2>3, <2>4 DEF CardInv
<1>4. CASE st # new
  <2>1. /\ overrideEnabled' = (new.shard_percent_override # None)
        /\ overrideValue' = RC!FirstSet(new.shard_percent_override, new.shard_percent,
                                        new.scheduled_shard_percent)
        /\ pinHistory' = "synced"
    BY <1>4 DEF RC!FetchStatus, RC!SyncOverride
  <2>2. new.shard_percent_override \in RC!Percent \cup {None}
    BY <1>1, AnswerType DEF CardTypes, RC!Row
  <2>3. overrideValue' \in 0 .. 100
    BY <1>1, <2>1, <2>2, AnswerType DEF RC!FirstSet, RC!Percent
  <2>4. CardTypes'
    BY <1>1, <1>2, <2>1, <2>3 DEF CardTypes
  <2>5. CardStatus'
    BY <1>1, <1>2, AnswerType DEF CardStatus
  <2>6. CardPin'
    BY <1>2, <2>1 DEF CardPin, RC!ShowsPin, RC!FirstSet
  <2> QED
    BY <1>2, <2>4, <2>5, <2>6 DEF CardInv
<1> QED
  BY <1>3, <1>4

\* A button or the pin sends what is shown, and keeps what it settles in view.
LEMMA SendStep ==
    ASSUME RC!CardAssumption, CardInv, NEW r \in RC!CardRequest, RC!Send(r),
           overrideEnabled' \in BOOLEAN, overrideValue' \in 0 .. 100,
           pinHistory' \in {"synced", "asked", "crossed"},
           pinHistory' = "synced" => RC!ShowsPin(st.shard_percent_override)',
           pinHistory' = "asked" =>
               \/ RC!ShowsPin(st.shard_percent_override)' \/ PinWillSettle(r)'
    PROVE  CardInv'
<1>1. UNCHANGED <<row, inProduction, day, cardForeign, changed, st, stStale>> /\ request' = r
      /\ r # None
  BY DEF RC!Send, RC!serverVars, RC!CardAssumption
<1>2. CardTypes'
  BY <1>1 DEF CardInv, CardTypes
<1>3. CardStatus'
  BY <1>1 DEF CardInv, CardStatus
<1>4. CardPin'
  BY <1>1 DEF CardPin, RC!busy, PinWillSettle, PinSettles, RC!ShowsPin, LeftBehind
<1> QED
  BY <1>1, <1>2, <1>3, <1>4 DEF CardInv

\* A request the server took: the row changes, and the status is out of date.
LEMMA TakenStep ==
    ASSUME RC!CardAssumption, CardInv, RC!busy, row' = RC!Handled(request), request' = None,
           stStale' \in BOOLEAN, changed' \in BOOLEAN, changed' = FALSE => changed = FALSE,
           stStale' \/ changed',
           UNCHANGED <<inProduction, day, cardForeign, st, overrideEnabled, overrideValue, pinHistory>>
    PROVE  CardInv'
<1>1. CardTypes /\ CardStatus /\ CardPin /\ cardForeign \in Nat
  BY DEF CardInv
<1>2. request \in RC!CardRequest
  BY <1>1 DEF CardTypes, RC!busy
<1>3. st' = st
  OBVIOUS
<1>4. request \in RC!CardRequest /\ row \in RC!Row /\ day \in Nat
      /\ Prefs \in RC!Preferences
  BY <1>1, <1>2, <1>3 DEF CardTypes, RC!CardAssumption
<1>5. row' \in RC!Row
  <2>1. 0 \in RC!Percent /\ TRUE \in BOOLEAN
    BY DEF RC!Percent
  <2>2. CASE request.kind \in {"start", "pause", "complete"}
    BY <1>3, <1>4, <2>1, <2>2, RowTypes DEF RC!Handled
  <2>3. CASE request.kind = "override" /\ request.percent = None
    BY <1>3, <1>4, <2>1, <2>3, RowTypes DEF RC!Handled
  <2>4. CASE request.kind = "override" /\ request.percent # None
    <3>1. request.percent \in RC!Percent
      BY <1>4, <2>4 DEF RC!CardRequest
    <3>2. row' = RC!set_shard_percent_override(row, request.percent, day)
      BY <1>3, <2>4 DEF RC!Handled
    <3> QED
      BY <1>4, <2>1, <3>1, <3>2, RowTypes
  <2> QED
    BY <1>4, <2>2, <2>3, <2>4 DEF RC!CardRequest
<1>6. CardTypes'
  BY <1>1, <1>3, <1>5 DEF CardTypes
<1>7. CardStatus'
  BY <1>1, <1>3 DEF CardStatus
<1>8. ASSUME st # None, pinHistory = "asked",
             ~RC!ShowsPin(st.shard_percent_override)
      PROVE  PinSettles'
  <2>1. PinWillSettle(request)
    BY <1>1, <1>3, <1>8 DEF CardPin
  <2>2. CASE request.kind = "start"
    <3>1. PinSettles /\ st.shard_rollout_status = "pending_approval"
      BY <2>1, <2>2 DEF PinWillSettle
    <3>2. row' = RC!start_shard_rollout(row, Prefs, day)
      BY <1>3, <2>2 DEF RC!Handled
    <3>3. row'.shard_percent_override = row.shard_percent_override
          /\ row'.shard_rollout_status \in {"active", "complete"}
      BY <1>4, <3>2, RequestEffects
    <3> QED
      BY <1>3, <3>1, <3>3 DEF PinSettles, RC!ShowsPin, LeftBehind
  <2>3. CASE request.kind = "pause"
    <3>1. PinSettles /\ st.shard_rollout_status = "active"
      BY <2>1, <2>3 DEF PinWillSettle
    <3>2. row' = RC!pause_shard_rollout(row)
      BY <1>3, <2>3 DEF RC!Handled
    <3>3. row'.shard_percent_override = row.shard_percent_override
          /\ row'.shard_rollout_status = "paused"
      BY <1>4, <3>2, RequestEffects
    <3> QED
      BY <1>3, <3>1, <3>3 DEF PinSettles, RC!ShowsPin, LeftBehind
  <2>4. CASE request.kind = "complete"
    <3>1. PinSettles /\ st.shard_rollout_status \in {"pending_approval", "active", "paused"}
      BY <2>1, <2>4 DEF PinWillSettle
    <3>2. row' = RC!complete_shard_rollout(row, day)
      BY <1>3, <2>4 DEF RC!Handled
    <3>3. row'.shard_percent_override = None /\ row'.shard_rollout_status = "complete"
      BY <1>4, <3>2, RequestEffects
    <3> QED
      BY <1>3, <3>1, <3>3 DEF PinSettles, RC!ShowsPin, LeftBehind
  <2>5. CASE request.kind = "override" /\ request.percent = None
    <3>1. ~overrideEnabled
      BY <2>1, <2>5 DEF PinWillSettle
    <3>2. row' = RC!clear_shard_percent_override(row, Prefs, day)
      BY <1>3, <2>5 DEF RC!Handled
    <3>3. row'.shard_percent_override = None
      BY <1>4, <3>2, RequestEffects
    <3> QED
      BY <1>3, <3>1, <3>3 DEF PinSettles, RC!ShowsPin
  <2>6. CASE request.kind = "override" /\ request.percent # None
    <3>1. /\ request.percent \in RC!Percent
          /\ overrideEnabled /\ overrideValue = request.percent
          /\ st.shard_rollout_status \in {"active", "paused"}
      BY <2>1, <2>6 DEF PinWillSettle
    <3>2. row' = RC!set_shard_percent_override(row, request.percent, day)
      BY <1>3, <2>6 DEF RC!Handled
    <3>3. \/ row'.shard_percent_override = request.percent
          \/ row'.shard_percent_override = None /\ row'.shard_rollout_status = "complete"
      BY <1>4, <3>1, <3>2, PinEffect
    <3> QED
      BY <1>3, <2>6, <3>1, <3>3 DEF PinSettles, RC!ShowsPin, LeftBehind
  <2> QED
    BY <1>4, <2>2, <2>3, <2>4, <2>5, <2>6 DEF RC!CardRequest
<1>9. CardPin'
  BY <1>1, <1>3, <1>8 DEF CardPin, RC!busy, RC!ShowsPin
<1> QED
  BY <1>1, <1>3, <1>6, <1>7, <1>9 DEF CardInv

LEMMA CardNext == ASSUME RC!CardAssumption, CardInv, RC!Next PROVE CardInv'
<1>1. CardTypes /\ CardStatus /\ CardPin /\ cardForeign \in Nat
  BY DEF CardInv
<1>2. RC!busy => request \in RC!CardRequest
  BY <1>1 DEF CardTypes, RC!busy
<1>3. CASE RC!FetchStatus
  BY <1>3, FetchStep
<1>4. CASE RC!ExpireStatus
  <2>1. UNCHANGED <<row, inProduction, day, cardForeign, changed, st, overrideEnabled,
                    overrideValue, request, pinHistory>> /\ stStale' = TRUE
    BY <1>4 DEF RC!ExpireStatus, RC!serverVars, RC!pinVars
  <2>2. CardTypes'
    BY <1>1, <2>1 DEF CardTypes
  <2>3. CardStatus'
    BY <1>1, <2>1 DEF CardStatus
  <2>4. CardPin'
    BY <1>1, <2>1 DEF CardPin, RC!ShowsPin, PinSettles, PinWillSettle, LeftBehind, RC!busy
  <2> QED
    BY <1>1, <2>1, <2>2, <2>3, <2>4 DEF CardInv
<1>5. ASSUME NEW k \in {"start", "pause", "complete"},
             RC!Send([kind |-> k, percent |-> None]), UNCHANGED <<RC!pinVars, pinHistory>>,
             k = "start" => RC!ClickStart, k = "pause" => RC!ClickPause,
             k = "complete" => RC!ClickComplete
      PROVE  CardInv'
  <2> DEFINE r == [kind |-> k, percent |-> None]
  <2>1. r \in RC!CardRequest /\ r.kind = k
    BY DEF RC!CardRequest
  <2>2. UNCHANGED <<row, st, overrideEnabled, overrideValue, pinHistory>> /\ ~RC!busy /\ st # None
    BY <1>5 DEF RC!Send, RC!pinVars, RC!serverVars
  <2>3. /\ k = "start" => st.shard_rollout_status = "pending_approval"
        /\ k = "pause" => st.shard_rollout_status = "active"
        /\ k = "complete" => st.shard_rollout_status \in {"pending_approval", "active", "paused"}
    BY <1>1, <1>5, <2>2 DEF RC!ClickStart, RC!ClickPause, RC!ClickComplete, RC!canStart,
                            RC!canPause, RC!canComplete, CardStatus
  <2>4. ASSUME pinHistory = "asked" PROVE RC!ShowsPin(st.shard_percent_override)' \/ PinWillSettle(r)'
    <3>1. RC!ShowsPin(st.shard_percent_override) \/ PinSettles
      BY <1>1, <2>2, <2>4 DEF CardPin
    <3>2. RC!ShowsPin(st.shard_percent_override) => RC!ShowsPin(st.shard_percent_override)'
      BY <2>2 DEF RC!ShowsPin
    <3>3. PinSettles => PinSettles'
      BY <2>2 DEF PinSettles, RC!ShowsPin, LeftBehind
    <3> QED
      BY <2>1, <2>2, <2>3, <3>1, <3>2, <3>3 DEF PinWillSettle
  <2>5. overrideEnabled' \in BOOLEAN /\ overrideValue' \in 0 .. 100
        /\ pinHistory' \in {"synced", "asked", "crossed"}
    BY <1>1, <2>2 DEF CardTypes
  <2>6. pinHistory' = "synced" => RC!ShowsPin(st.shard_percent_override)'
    BY <1>1, <2>2 DEF CardPin, RC!ShowsPin
  <2>7. pinHistory' = "asked" => RC!ShowsPin(st.shard_percent_override)' \/ PinWillSettle(r)'
    BY <2>2, <2>4
  <2> HIDE DEF r
  <2> QED
    BY <1>5, <2>1, <2>5, <2>6, <2>7, SendStep DEF r
<1>6. CASE RC!TogglePin
  <2>1. overrideEnabled \in BOOLEAN /\ overrideValue \in RC!Percent /\ None \notin RC!Percent
    BY <1>1, ServiceAssumptions DEF CardTypes, RC!Percent, SR!NullAssumption
  <2>2. [kind |-> "override", percent |-> IF overrideEnabled THEN None ELSE overrideValue]
           \in RC!CardRequest
    BY <2>1 DEF RC!CardRequest
  <2>3. PICK r \in RC!CardRequest :
           r = [kind |-> "override", percent |-> IF overrideEnabled THEN None ELSE overrideValue]
    BY <2>2
  <2>4. /\ RC!Send(r) /\ overrideEnabled' = ~overrideEnabled /\ overrideValue' = overrideValue
        /\ st' = st /\ pinHistory' = "asked"
    BY <1>6, <2>3 DEF RC!TogglePin, RC!Send
  <2>5. st.shard_rollout_status \in {"active", "paused"}
    BY <1>1, <1>6 DEF RC!TogglePin, RC!showShardOverride, CardStatus
  <2>6. CASE overrideEnabled
    <3>1. r.kind = "override" /\ r.percent = None /\ ~overrideEnabled'
      BY <2>3, <2>4, <2>6
    <3>2. PinWillSettle(r)'
      BY <3>1 DEF PinWillSettle
    <3> QED
      BY <1>1, <2>4, <3>1, <3>2, SendStep DEF CardTypes
  <2>7. CASE ~overrideEnabled
    <3>1. r.kind = "override" /\ r.percent = overrideValue /\ overrideEnabled' = TRUE
      BY <2>3, <2>4, <2>7
    <3>2. r.percent \in RC!Percent /\ r.percent # None
      BY <2>1, <3>1
    <3>3. PinWillSettle(r)'
      BY <2>4, <2>5, <3>1, <3>2 DEF PinWillSettle
    <3> QED
      BY <1>1, <2>4, <3>1, <3>3, SendStep DEF CardTypes
  <2> QED
    BY <2>1, <2>6, <2>7
<1>7. ASSUME NEW pct \in Pins, RC!CommitSlider(pct) PROVE CardInv'
  <2> DEFINE r == [kind |-> "override", percent |-> pct]
  <2>1. /\ RC!Send(r) /\ overrideEnabled' = overrideEnabled /\ overrideValue' = pct
        /\ st' = st /\ overrideEnabled /\ pinHistory' = "asked"
    BY <1>7 DEF RC!CommitSlider, RC!Send
  <2>2. pct \in 1 .. 100
    BY DEF RC!CardAssumption
  <2>3. r \in RC!CardRequest
    BY <2>2 DEF RC!CardRequest, RC!Percent
  <2>4. st.shard_rollout_status \in {"active", "paused"}
    BY <1>1, <1>7 DEF RC!CommitSlider, RC!showShardOverride, CardStatus
  <2>5. None \notin 0 .. 100
    BY ServiceAssumptions DEF SR!NullAssumption
  <2>6. PinWillSettle(r)'
    BY <2>1, <2>2, <2>4, <2>5 DEF PinWillSettle, RC!Percent
  <2>7. overrideEnabled' \in BOOLEAN /\ overrideValue' \in 0 .. 100
    BY <1>1, <2>1, <2>2 DEF CardTypes
  <2> HIDE DEF r
  <2> QED
    BY <2>1, <2>3, <2>6, <2>7, SendStep
<1>8. CASE RC!RequestSucceeds
  <2>1. /\ RC!busy /\ row' = RC!Handled(request) /\ request' = None /\ stStale' = TRUE
        /\ UNCHANGED <<inProduction, day, cardForeign, changed, st, overrideEnabled,
                       overrideValue, pinHistory>>
    BY <1>8 DEF RC!RequestSucceeds, RC!pinVars
  <2>2. changed \in BOOLEAN
    BY <1>1 DEF CardTypes
  <2> QED
    BY <2>1, <2>2, TakenStep
<1>12. CASE RC!AnswerIsLost
  <2>1. /\ RC!busy /\ row' = RC!Handled(request) /\ request' = None /\ changed' = TRUE
        /\ UNCHANGED <<inProduction, day, cardForeign, st, stStale, overrideEnabled,
                       overrideValue, pinHistory>>
    BY <1>12 DEF RC!AnswerIsLost, RC!pinVars
  <2>2. stStale \in BOOLEAN
    BY <1>1 DEF CardTypes
  <2> QED
    BY <2>1, <2>2, TakenStep
<1>9. CASE RC!RequestFails
  <2>1. /\ request' = None /\ RC!busy
        /\ pinHistory' = IF request.kind = "override" THEN RC!Crossed ELSE pinHistory
        /\ UNCHANGED <<row, inProduction, day, cardForeign, changed, st, stStale,
                       overrideEnabled, overrideValue>>
    BY <1>9 DEF RC!RequestFails, RC!serverVars, RC!pinVars
  <2>2. CardTypes' /\ CardStatus'
    BY <1>1, <2>1 DEF CardTypes, CardStatus, RC!Crossed
  <2>3. ASSUME st # None, pinHistory' = "synced" PROVE RC!ShowsPin(st.shard_percent_override)
    BY <1>1, <2>1, <2>3 DEF CardPin, RC!Crossed
  <2>4. ASSUME st # None, pinHistory' = "asked"
        PROVE  RC!ShowsPin(st.shard_percent_override) \/ PinSettles
    <3>1. pinHistory = "asked" /\ request.kind # "override"
      BY <2>1, <2>4 DEF RC!Crossed
    <3> QED
      BY <1>1, <2>1, <2>4, <3>1 DEF CardPin, PinWillSettle
  <2>5. CardPin'
    BY <2>1, <2>3, <2>4 DEF CardPin, PinSettles, RC!ShowsPin, LeftBehind, RC!busy
  <2> QED
    BY <1>1, <2>1, <2>2, <2>5 DEF CardInv
<1>10. CASE RC!ForeignCatalogs \/ RC!ForeignRequest
  <2>1. /\ cardForeign' = cardForeign + 1 /\ changed' = TRUE /\ day' = day
        /\ UNCHANGED <<st, stStale, overrideEnabled, overrideValue, request>>
        /\ pinHistory' = IF RC!busy /\ request.kind = "override" THEN pinHistory ELSE RC!Crossed
    BY <1>10 DEF RC!ForeignCatalogs, RC!ForeignRequest, RC!Foreign, RC!pinVars
  <2>2. row \in RC!Row /\ day \in Nat /\ Prefs \in RC!Preferences /\ inProduction \in BOOLEAN
    BY <1>1 DEF CardTypes, RC!CardAssumption
  <2>3. Pins \subseteq RC!Percent /\ 0 \in RC!Percent
    BY DEF RC!CardAssumption, RC!Percent
  <2>4. row' \in RC!Row /\ inProduction' \in BOOLEAN
    <3>1. CASE RC!ForeignCatalogs
      <4>1. inProduction' = ~inProduction
            /\ row' = RC!maybe_init_shard(row, inProduction', None, TRUE, Prefs, day)
        BY <3>1 DEF RC!ForeignCatalogs
      <4> QED
        BY <2>2, <2>3, <4>1, RowTypes
    <3>2. CASE RC!ForeignRequest
      BY <2>2, <2>3, <3>2, RowTypes DEF RC!ForeignRequest
    <3> QED
      BY <1>10, <3>1, <3>2
  <2>5. CardTypes'
    BY <1>1, <2>1, <2>4 DEF CardTypes, RC!Crossed
  <2>6. CardStatus'
    BY <1>1, <2>1 DEF CardStatus
  <2>7. ASSUME st # None, pinHistory' = "synced" PROVE RC!ShowsPin(st.shard_percent_override)
    BY <1>1, <2>1, <2>7 DEF CardPin, RC!Crossed
  <2>8. ASSUME st # None, pinHistory' = "asked"
        PROVE  RC!ShowsPin(st.shard_percent_override) \/ (RC!busy /\ PinWillSettle(request)')
    <3>1. pinHistory = "asked" /\ RC!busy /\ request.kind = "override"
      BY <2>1, <2>8 DEF RC!Crossed
    <3> QED
      BY <1>1, <2>1, <2>8, <3>1 DEF CardPin, PinWillSettle
  <2>9. CardPin'
    BY <2>1, <2>7, <2>8 DEF CardPin, RC!ShowsPin, RC!busy
  <2> QED
    BY <1>1, <2>1, <2>5, <2>6, <2>9 DEF CardInv
<1>11. CASE RC!Tick
  <2>1. /\ day < MaxDay /\ day' = day + 1 /\ changed' = TRUE
        /\ row' = RC!tick_one_pkg(row, inProduction, Prefs, day')
        /\ UNCHANGED <<inProduction, cardForeign, st, stStale, overrideEnabled, overrideValue,
                       request, pinHistory>>
    BY <1>11 DEF RC!Tick, RC!cardVars, RC!pinVars
  <2>2. row \in RC!Row /\ day' \in Nat /\ Prefs \in RC!Preferences /\ inProduction \in BOOLEAN
        /\ 0 \in RC!Percent
    BY <1>1, <2>1 DEF CardTypes, RC!CardAssumption, RC!Percent
  <2>3. row' \in RC!Row
    BY <2>1, <2>2, RowTypes
  <2>4. /\ row'.shard_percent_override = row.shard_percent_override
        /\ \/ row'.shard_rollout_status = row.shard_rollout_status
           \/ row.shard_rollout_status = "active" /\ row'.shard_rollout_status = "complete"
    BY <2>1, <2>2, TickEffect
  <2>5. CardTypes'
    BY <1>1, <2>1, <2>3 DEF CardTypes, RC!CardAssumption
  <2>6. CardStatus'
    BY <1>1, <2>1 DEF CardStatus
  <2>7. PinSettles => PinSettles'
    BY <2>1, <2>4 DEF PinSettles, RC!ShowsPin, LeftBehind
  <2>8. CardPin'
    BY <1>1, <2>1, <2>7 DEF CardPin, RC!busy, PinWillSettle, RC!ShowsPin
  <2> QED
    BY <1>1, <2>1, <2>5, <2>6, <2>8 DEF CardInv
<1> QED
  <2>1. RC!ClickStart => CardInv'
    BY <1>5 DEF RC!ClickStart
  <2>2. RC!ClickPause => CardInv'
    BY <1>5 DEF RC!ClickPause
  <2>3. RC!ClickComplete => CardInv'
    BY <1>5 DEF RC!ClickComplete
  <2> QED
    BY <1>3, <1>4, <1>6, <1>7, <1>8, <1>9, <1>10, <1>11, <1>12, <2>1, <2>2, <2>3 DEF RC!Next

LEMMA CardImply ==
    ASSUME RC!CardAssumption, CardInv
    PROVE  RC!CardTypeOK /\ RC!PinIsShown
<1>1. RC!CardTypeOK
  BY DEF RC!CardTypeOK, CardInv, CardTypes, RC!busy, RC!CardRequest
<1>2. CardTypes /\ CardStatus /\ CardPin
  BY DEF CardInv
<1>3. ASSUME st # None, pinHistory # "crossed", ~RC!busy, ~changed, ~stStale
      PROVE  RC!ShowsPin(row.shard_percent_override)
  <2>1. /\ st.shard_percent_override = row.shard_percent_override
        /\ st.shard_rollout_status = row.shard_rollout_status
    BY <1>2, <1>3 DEF CardStatus
  <2>2. RC!ShowsPin(st.shard_percent_override) \/ PinSettles
    BY <1>2, <1>3 DEF CardPin, CardTypes
  <2> QED
    BY <2>1, <2>2 DEF PinSettles, LeftBehind
<1>4. RC!PinIsShown
  BY <1>2, <1>3 DEF RC!PinIsShown, CardPin
<1> QED
  BY <1>1, <1>4

-----------------------------------------------------------------------------
(* WorkflowPanel.                                                          *)

ChannelSteps == [Channels -> Seq(WF!PromotionStep) \cup {None}]
PrefsPatch ==
    {[channel |-> c] : c \in Channels \cup {None}}
    \cup {[policy |-> p] : p \in WF!Policies} \cup {[days |-> d] : d \in 1 .. MaxDays}
StepsCall == [id : Channels, steps : Seq(WF!PromotionStep), of : Channels]

WorkflowServer == workflow \in WF!WorkflowPreferencesRead /\ channels \in ChannelSteps
WorkflowShown ==
    /\ prefsCached = None \/ prefsCached \in WF!WorkflowPreferencesRead
    /\ channelsCached = None \/ channelsCached \in ChannelSteps
    /\ workflowStale \subseteq WF!Queries /\ shardDays \in 1 .. MaxDays
WorkflowDialogs ==
    /\ \/ editChannel = None
       \/ /\ editChannel \in [id : Channels, steps : Seq(WF!PromotionStep)]
          /\ draftsOf = editChannel.id
    /\ stepDrafts \in Seq(WF!StepDraft)
    /\ newChannel \in Channels \cup {None, ""}
WorkflowCalls ==
    /\ prefsCall = None \/ prefsCall \in PrefsPatch
    /\ stepsCall = None \/ (stepsCall \in StepsCall /\ stepsCall.of = stepsCall.id)
    /\ removeCall \in Channels \cup {None} /\ createCalls \in Seq(Channels)
WorkflowInv == WorkflowServer /\ WorkflowShown /\ WorkflowDialogs /\ WorkflowCalls

LEMMA WorkflowInit == ASSUME WF!WorkflowAssumption, WF!Init PROVE WorkflowInv
<1> USE DEF WF!Init
<1>1. WorkflowServer
  <2>1. workflow \in WF!WorkflowPreferencesRead
    BY DEF WF!WorkflowAssumption, WF!FreshPreferences, WF!WorkflowPreferencesRead, WF!Policies
  <2>2. channels \in [Channels -> {<<s>> : s \in WF!PromotionStep} \cup {None}]
    OBVIOUS
  <2>3. \A s \in WF!PromotionStep : <<s>> \in Seq(WF!PromotionStep)
    OBVIOUS
  <2> QED
    BY <2>1, <2>2, <2>3 DEF WorkflowServer, ChannelSteps
<1>2. WorkflowShown /\ WorkflowDialogs /\ WorkflowCalls
  BY DEF WF!WorkflowAssumption, WorkflowShown, WorkflowDialogs, WorkflowCalls
<1> QED
  BY <1>1, <1>2 DEF WorkflowInv

\* A patch sets one preference.
LEMMA OnePreference ==
    ASSUME NEW r \in WF!WorkflowPreferencesRead, NEW patch \in PrefsPatch
    PROVE  /\ WF!Patched(r, patch) \in WF!WorkflowPreferencesRead
           /\ \E key : \A k \in DOMAIN r : k # key => WF!Patched(r, patch)[k] = r[k]
<1> USE DEF WF!WorkflowPreferencesRead, WF!Patched
<1>1. ASSUME NEW c \in Channels \cup {None}, patch = [channel |-> c]
      PROVE  /\ WF!Patched(r, patch) \in WF!WorkflowPreferencesRead
             /\ \A k \in DOMAIN r : k # "channel" => WF!Patched(r, patch)[k] = r[k]
  BY <1>1
<1>2. ASSUME NEW p \in WF!Policies, patch = [policy |-> p]
      PROVE  /\ WF!Patched(r, patch) \in WF!WorkflowPreferencesRead
             /\ \A k \in DOMAIN r : k # "policy" => WF!Patched(r, patch)[k] = r[k]
  BY <1>2
<1>3. ASSUME NEW d \in 1 .. MaxDays, patch = [days |-> d]
      PROVE  /\ WF!Patched(r, patch) \in WF!WorkflowPreferencesRead
             /\ \A k \in DOMAIN r : k # "days" => WF!Patched(r, patch)[k] = r[k]
  BY <1>3
<1> QED
  BY <1>1, <1>2, <1>3 DEF PrefsPatch

LEMMA StepsShown ==
    ASSUME WorkflowDialogs, NEW c, WF!ShowSteps(c), UNCHANGED newChannel,
           c = None \/ c \in [id : Channels, steps : Seq(WF!PromotionStep)]
    PROVE  WorkflowDialogs'
<1>1. CASE c = None
  <2>1. editChannel' = None /\ stepDrafts' = <<>> /\ newChannel' = newChannel
    BY <1>1 DEF WF!ShowSteps, WF!SeedSteps
  <2>2. <<>> \in Seq(WF!StepDraft)
    OBVIOUS
  <2> QED
    BY <2>1, <2>2 DEF WorkflowDialogs
<1>2. CASE c # None
  <2>1. Seq(WF!PromotionStep) \subseteq Seq(WF!StepDraft)
    <3>1. WF!PromotionStep \subseteq WF!StepDraft
      BY DEF WF!PromotionStep, WF!StepDraft
    <3> QED
      BY <3>1, SeqMonotonic
  <2> QED
    BY <1>2, <2>1 DEF WF!ShowSteps, WF!SeedSteps, WorkflowDialogs
<1> QED
  BY <1>1, <1>2

\* Whatever is done to the drafts, they stay drafts.
LEMMA DraftsStay ==
    ASSUME WorkflowDialogs, WF!AddStep \/ \E i \in DOMAIN stepDrafts : WF!UpdateStep(i)
                              \/ \E j \in DOMAIN stepDrafts : WF!handleStepsDragEnd(i, j)
    PROVE  WorkflowDialogs'
<1>1. ASSUME NEW s \in Seq(WF!StepDraft), WF!EditDrafts(s) PROVE WorkflowDialogs'
  BY <1>1 DEF WF!EditDrafts, WorkflowDialogs
<1>2. stepDrafts \in Seq(WF!StepDraft)
  BY DEF WorkflowDialogs
<1>3. CASE WF!AddStep
  <2>1. Append(stepDrafts, WF!newStepDraft) \in Seq(WF!StepDraft)
    BY <1>2 DEF WF!newStepDraft, WF!StepDraft
  <2> QED
    BY <1>1, <1>3, <2>1 DEF WF!AddStep
<1>4. ASSUME NEW i \in DOMAIN stepDrafts
      PROVE  /\ WF!RemoveAt(stepDrafts, i) \in Seq(WF!StepDraft)
             /\ Len(WF!RemoveAt(stepDrafts, i)) = Len(stepDrafts) - 1
  BY <1>2, SubSeqProperties, ConcatProperties DEF WF!RemoveAt
<1>5. ASSUME NEW i \in DOMAIN stepDrafts, WF!UpdateStep(i) PROVE WorkflowDialogs'
  <2>1. ASSUME NEW c \in StepCatalogs \cup {None}
        PROVE  /\ [stepDrafts EXCEPT ![i].source = c] \in Seq(WF!StepDraft)
               /\ [stepDrafts EXCEPT ![i].target = c] \in Seq(WF!StepDraft)
    <3>1. stepDrafts[i] \in WF!StepDraft
      BY <1>2
    <3>2. /\ [stepDrafts[i] EXCEPT !.source = c] \in WF!StepDraft
          /\ [stepDrafts[i] EXCEPT !.target = c] \in WF!StepDraft
      BY <3>1 DEF WF!StepDraft
    <3> QED
      BY <1>2, <3>2, ExceptSeq
  <2> QED
    BY <1>1, <1>4, <1>5, <2>1 DEF WF!UpdateStep
<1>6. ASSUME NEW i \in DOMAIN stepDrafts, NEW j \in DOMAIN stepDrafts, WF!handleStepsDragEnd(i, j)
      PROVE  WorkflowDialogs'
  <2> DEFINE rest == WF!RemoveAt(stepDrafts, i)
  <2>1. rest \in Seq(WF!StepDraft) /\ Len(rest) = Len(stepDrafts) - 1 /\ stepDrafts[i] \in WF!StepDraft
    BY <1>2, <1>4
  <2> HIDE DEF rest
  <2>2. SubSeq(rest, 1, j - 1) \in Seq(WF!StepDraft) /\ SubSeq(rest, j, Len(rest)) \in Seq(WF!StepDraft)
    BY <1>2, <2>1, SubSeqProperties
  <2>3. WF!InsertAt(rest, j, stepDrafts[i]) \in Seq(WF!StepDraft)
    BY <2>1, <2>2 DEF WF!InsertAt
  <2> QED
    BY <1>1, <1>6, <2>3 DEF WF!handleStepsDragEnd, rest
<1> QED
  BY <1>3, <1>5, <1>6

LEMMA WorkflowNext == ASSUME WF!WorkflowAssumption, WorkflowInv, WF!Next PROVE WorkflowInv'
<1>1. WorkflowServer /\ WorkflowShown /\ WorkflowDialogs /\ WorkflowCalls
  BY DEF WorkflowInv
<1>2. UNCHANGED <<workflow, channels>> => WorkflowServer'
  BY <1>1 DEF WorkflowServer
<1>3. UNCHANGED <<WF!cached, shardDays>> => WorkflowShown'
  BY <1>1 DEF WorkflowShown, WF!cached
<1>4. UNCHANGED WF!dialogs => WorkflowDialogs'
  BY <1>1 DEF WorkflowDialogs, WF!dialogs
<1>5. UNCHANGED WF!calls => WorkflowCalls'
  BY <1>1 DEF WorkflowCalls, WF!calls
<1>6. SUFFICES WorkflowServer' /\ WorkflowShown' /\ WorkflowDialogs' /\ WorkflowCalls'
  BY DEF WorkflowInv
<1> DEFINE Kept == WorkflowServer' /\ WorkflowShown' /\ WorkflowDialogs' /\ WorkflowCalls'
<1>7. CASE WF!LoadPrefs
  BY <1>1, <1>2, <1>4, <1>5, <1>7 DEF WF!LoadPrefs, WorkflowShown, WorkflowServer, WF!WorkflowPreferencesRead
<1>8. CASE WF!LoadChannels
  BY <1>1, <1>2, <1>4, <1>5, <1>8 DEF WF!LoadChannels, WorkflowShown, WorkflowServer
<1>9. CASE WF!patchPrefs
  <2>1. prefsCall' \in PrefsPatch /\ shardDays' \in 1 .. MaxDays
    BY <1>1, <1>9 DEF WF!patchPrefs, WF!PreferenceControls, WF!ShardDaysSlider, WF!PatchBody,
                      PrefsPatch, WorkflowShown
  <2>2. WorkflowCalls'
    BY <1>1, <1>9, <2>1 DEF WF!patchPrefs, WorkflowCalls
  <2>3. WorkflowShown'
    BY <1>1, <1>9, <2>1 DEF WF!patchPrefs, WorkflowShown, WF!cached
  <2> QED
    BY <1>2, <1>4, <1>9, <2>2, <2>3 DEF WF!patchPrefs
<1>10. CASE WF!PrefsPatched
  <2>1. prefsCall \in PrefsPatch
    BY <1>1, <1>10 DEF WF!PrefsPatched, WorkflowCalls
  <2>2. WorkflowServer'
    BY <1>1, <1>10, <2>1, OnePreference DEF WF!PrefsPatched, WorkflowServer
  <2>3. WorkflowShown'
    BY <1>1, <1>10 DEF WF!PrefsPatched, WorkflowShown, WF!Queries
  <2>4. WorkflowCalls'
    BY <1>1, <1>10 DEF WF!PrefsPatched, WorkflowCalls
  <2> QED
    BY <1>4, <1>10, <2>2, <2>3, <2>4 DEF WF!PrefsPatched
<1>11. CASE WF!PrefsRefused \/ WF!StepsRefused
  <2>1. WorkflowCalls'
    BY <1>1, <1>11 DEF WF!PrefsRefused, WF!StepsRefused, WorkflowCalls
  <2> QED
    BY <1>2, <1>3, <1>4, <1>11, <2>1 DEF WF!PrefsRefused, WF!StepsRefused
<1>12. ASSUME NEW c \in Channels, WF!EditSteps(c) PROVE Kept
  <2>1. channelsCached[c] \in Seq(WF!PromotionStep)
    BY <1>1, <1>12 DEF WF!EditSteps, WF!ListedChannels, WorkflowShown, ChannelSteps
  <2>2. WorkflowDialogs'
    BY <1>1, <1>12, <2>1, StepsShown DEF WF!EditSteps
  <2> QED
    BY <1>2, <1>3, <1>5, <1>12, <2>2 DEF WF!EditSteps
<1>13. ASSUME NEW c \in Channels, WF!RemoveChannel(c) PROVE Kept
  <2>1. WorkflowCalls'
    BY <1>1, <1>13 DEF WF!RemoveChannel, WorkflowCalls
  <2> QED
    BY <1>2, <1>3, <1>4, <1>13, <2>1 DEF WF!RemoveChannel
<1>14. ASSUME NEW c \in Channels, WF!TypeName(c) PROVE Kept
  <2>1. WorkflowDialogs'
    BY <1>1, <1>14 DEF WF!TypeName, WorkflowDialogs
  <2> QED
    BY <1>2, <1>3, <1>5, <1>14, <2>1 DEF WF!TypeName
<1>15. CASE WF!AddStep \/ \E i \in DOMAIN stepDrafts : WF!UpdateStep(i)
                           \/ \E j \in DOMAIN stepDrafts : WF!handleStepsDragEnd(i, j)
  <2>1. WorkflowDialogs'
    BY <1>1, <1>15, DraftsStay
  <2>2. \E s : WF!EditDrafts(s)
    BY <1>15 DEF WF!AddStep, WF!UpdateStep, WF!handleStepsDragEnd
  <2> QED
    BY <1>2, <1>3, <1>5, <2>1, <2>2 DEF WF!EditDrafts
<1>16. CASE WF!CloseSteps
  <2>1. WorkflowDialogs'
    BY <1>1, <1>16, StepsShown DEF WF!CloseSteps
  <2> QED
    BY <1>2, <1>3, <1>5, <1>16, <2>1 DEF WF!CloseSteps
<1>17. CASE WF!SaveSteps
  <2>1. stepDrafts \in Seq(WF!PromotionStep)
    <3>1. stepDrafts \in Seq(WF!StepDraft)
      BY <1>1 DEF WorkflowDialogs
    <3>2. \A i \in DOMAIN stepDrafts : stepDrafts[i] \in WF!PromotionStep
      <4>1. ASSUME NEW i \in DOMAIN stepDrafts
            PROVE  stepDrafts[i] \in WF!StepDraft /\ WF!Complete(stepDrafts[i])
        BY <1>17, <3>1 DEF WF!SaveSteps
      <4> QED
        BY <4>1 DEF WF!Complete, WF!PromotionStep, WF!StepDraft
    <3> QED
      BY <3>1, <3>2
  <2>2. stepsCall' \in StepsCall /\ stepsCall'.of = stepsCall'.id
    BY <1>1, <1>17, <2>1 DEF WF!SaveSteps, StepsCall, WorkflowDialogs
  <2>3. WorkflowCalls'
    BY <1>1, <1>17, <2>2 DEF WF!SaveSteps, WorkflowCalls
  <2> QED
    BY <1>2, <1>3, <1>4, <1>17, <2>3 DEF WF!SaveSteps
<1>18. CASE WF!StepsSaved
  <2>1. WorkflowDialogs'
    BY <1>1, <1>18, StepsShown DEF WF!StepsSaved
  <2>2. WorkflowServer'
    BY <1>1, <1>18 DEF WF!StepsSaved, WorkflowServer, WorkflowCalls, StepsCall, ChannelSteps
  <2>3. WorkflowShown'
    BY <1>1, <1>18 DEF WF!StepsSaved, WorkflowShown, WF!Queries
  <2>4. WorkflowCalls'
    BY <1>1, <1>18 DEF WF!StepsSaved, WorkflowCalls
  <2> QED
    BY <2>1, <2>2, <2>3, <2>4
<1>19. CASE WF!OpenAddChannel \/ WF!CloseAddChannel
  <2>1. WorkflowDialogs'
    BY <1>1, <1>19 DEF WF!OpenAddChannel, WF!CloseAddChannel, WorkflowDialogs
  <2> QED
    BY <1>2, <1>3, <1>5, <1>19, <2>1 DEF WF!OpenAddChannel, WF!CloseAddChannel
<1>20. ASSUME NEW key, WF!CreateChannel(key) PROVE Kept
  <2>1. newChannel \in Channels
    BY <1>1, <1>20 DEF WF!CreateChannel, WorkflowDialogs
  <2>2. createCalls' \in Seq(Channels)
    BY <1>1, <1>20, <2>1, AppendProperties DEF WF!CreateChannel, WorkflowCalls
  <2>3. WorkflowCalls'
    BY <1>1, <1>20, <2>2 DEF WF!CreateChannel, WorkflowCalls
  <2> QED
    BY <1>2, <1>3, <1>4, <1>20, <2>3 DEF WF!CreateChannel
<1>21. CASE WF!ChannelCreated
  <2>1. Head(createCalls) \in Channels /\ Tail(createCalls) \in Seq(Channels)
    BY <1>1, <1>21 DEF WF!ChannelCreated, WorkflowCalls
  <2>2. WorkflowServer'
    <3>1. [channels EXCEPT ![Head(createCalls)] = <<>>] \in ChannelSteps
      <4>1. <<>> \in Seq(WF!PromotionStep)
        OBVIOUS
      <4> QED
        BY <1>1, <2>1, <4>1 DEF WorkflowServer, ChannelSteps
    <3> QED
      BY <1>1, <1>21, <3>1 DEF WF!ChannelCreated, WorkflowServer
  <2>3. WorkflowShown'
    BY <1>1, <1>21 DEF WF!ChannelCreated, WorkflowShown
  <2>4. WorkflowDialogs'
    BY <1>1, <1>21 DEF WF!ChannelCreated, WorkflowDialogs
  <2>5. WorkflowCalls'
    BY <1>1, <1>21, <2>1 DEF WF!ChannelCreated, WorkflowCalls
  <2> QED
    BY <2>2, <2>3, <2>4, <2>5
<1>22. ASSUME NEW c \in Channels, WF!Forget(c) PROVE WorkflowServer'
  BY <1>1, <1>22 DEF WF!Forget, WorkflowServer, ChannelSteps, WF!WorkflowPreferencesRead
<1>23. CASE WF!ChannelRemoved
  <2>1. removeCall \in Channels
    BY <1>1, <1>23 DEF WF!ChannelRemoved, WorkflowCalls
  <2>2. WorkflowServer'
    BY <1>2, <1>22, <1>23, <2>1 DEF WF!ChannelRemoved
  <2>3. WorkflowShown'
    BY <1>1, <1>23 DEF WF!ChannelRemoved, WorkflowShown
  <2>4. WorkflowCalls'
    BY <1>1, <1>23 DEF WF!ChannelRemoved, WorkflowCalls
  <2> QED
    BY <1>4, <1>23, <2>2, <2>3, <2>4 DEF WF!ChannelRemoved
<1>24. CASE WF!OtherWorkflow
  <2>1. ASSUME NEW p \in WF!Policies, NEW d \in 1 .. MaxDays,
               workflow' = [workflow EXCEPT !.policy = p, !.days = d], UNCHANGED channels
        PROVE  WorkflowServer'
    BY <1>1, <2>1 DEF WorkflowServer, WF!WorkflowPreferencesRead
  <2>2. WorkflowServer'
    BY <1>22, <1>24, <2>1 DEF WF!OtherWorkflow
  <2> QED
    BY <1>3, <1>4, <1>5, <1>24, <2>2 DEF WF!OtherWorkflow
<1> QED
  BY <1>7, <1>8, <1>9, <1>10, <1>11, <1>12, <1>13, <1>14, <1>15, <1>16, <1>17, <1>18, <1>19,
     <1>20, <1>21, <1>23, <1>24 DEF WF!Next

\* The preferences that a patch changes are at most the one it sets.
LEMMA WorkflowCounted == \A S : WF!Cardinality(S) = Cardinality(S)
BY DEF Cardinality, WF!Cardinality, IsFiniteSet, WF!IsFiniteSet

LEMMA PatchStep ==
    ASSUME WorkflowInv, WF!PrefsPatched
    PROVE  WF!Cardinality({k \in DOMAIN workflow : workflow'[k] # workflow[k]}) <= 1
<1> DEFINE D == {k \in DOMAIN workflow : workflow'[k] # workflow[k]}
<1>1. workflow \in WF!WorkflowPreferencesRead /\ prefsCall \in PrefsPatch
      /\ workflow' = WF!Patched(workflow, prefsCall)
  BY DEF WorkflowInv, WorkflowServer, WorkflowCalls, WF!PrefsPatched
<1>2. PICK key : \A k \in DOMAIN workflow : k # key => workflow'[k] = workflow[k]
  BY <1>1, OnePreference
<1>3. D = {} \/ D = {key}
  BY <1>2
<1> HIDE DEF D
<1>4. Cardinality({}) = 0 /\ Cardinality({key}) = 1
  BY FS_EmptySet, FS_Singleton
<1>5. Cardinality(D) <= 1
  BY <1>3, <1>4
<1> QED
  BY <1>5, WorkflowCounted DEF D

LEMMA WorkflowTypes == ASSUME WorkflowInv PROVE WF!WorkflowTypeOK
BY DEF WorkflowInv, WorkflowServer, WorkflowShown, WorkflowDialogs, ChannelSteps, WF!WorkflowTypeOK

-----------------------------------------------------------------------------
(* CatalogsPage.                                                           *)

CatalogRow == [id : Catalogs, fields : CA!CatalogFields]
Creation == [id : Catalogs, fields : CA!CatalogFields, saw : (SUBSET Catalogs) \cup {None}]
Saving == [id : Catalogs, fields : CA!CatalogFields, loaded : CA!CatalogFields \cup {None}, open : BOOLEAN]
CatalogsInv ==
    /\ catalogs \in [Catalogs -> CA!CatalogFields \cup {None}]
    /\ CA!OneQuarantine
    /\ catalogsShown = None \/ catalogsShown \subseteq CatalogRow
    /\ viewCatalog \in CatalogRow \cup {None} /\ edit \in CA!CatalogFields
    /\ CA!UntouchedFormIsTheCatalogs
    /\ createForm \in CatalogRow \cup {None} /\ creating \subseteq Creation
    /\ \A n \in creating : n.saw # None => n.id \notin n.saw
    /\ deleteCatalog \in Catalogs \cup {None} /\ deletingCatalog \in Catalogs \cup {None}
    /\ updating \subseteq Saving

LEMMA CatalogsInit == ASSUME CA!Init PROVE CatalogsInv
BY DEF CA!Init, CatalogsInv, CA!Existing, CA!Plain, CA!CatalogFields, CA!OneQuarantine,
       CA!UntouchedFormIsTheCatalogs

\* What is left of the catalogs when one is written and the flags of some are cleared.
LEMMA Cleared ==
    ASSUME CatalogsInv, NEW c \in Catalogs, NEW f \in CA!CatalogFields, NEW S,
           catalogs' = CA!ClearFlags([catalogs EXCEPT ![c] = f], S), c \notin S
    PROVE  /\ catalogs' \in [Catalogs -> CA!CatalogFields \cup {None}]
           /\ catalogs'[c] = f
           /\ \A x \in CA!Existing' : catalogs'[x].is_quarantine =>
                 x \notin S /\ (x # c => x \in CA!Existing /\ catalogs[x].is_quarantine)
<1> DEFINE all == [catalogs EXCEPT ![c] = f]
<1>1. all \in [Catalogs -> CA!CatalogFields \cup {None}] /\ all[c] = f
  BY DEF CatalogsInv
<1>2. \A x \in Catalogs : x # c => all[x] = catalogs[x]
  BY DEF CatalogsInv
<1> HIDE DEF all
<1>3. catalogs' = [x \in Catalogs |-> IF x \in S /\ all[x] # None
                                      THEN [all[x] EXCEPT !.is_quarantine = FALSE] ELSE all[x]]
  BY DEF CA!ClearFlags, all
<1>4. ASSUME NEW x \in Catalogs
      PROVE  /\ catalogs'[x] \in CA!CatalogFields \cup {None}
             /\ x \notin S => catalogs'[x] = all[x]
             /\ x \in S /\ catalogs'[x] # None => ~catalogs'[x].is_quarantine
  <2>1. catalogs'[x] = IF x \in S /\ all[x] # None
                       THEN [all[x] EXCEPT !.is_quarantine = FALSE] ELSE all[x]
    BY <1>3
  <2>2. all[x] \in CA!CatalogFields \cup {None}
    BY <1>1
  <2>3. all[x] # None => /\ [all[x] EXCEPT !.is_quarantine = FALSE] \in CA!CatalogFields
                         /\ ~[all[x] EXCEPT !.is_quarantine = FALSE].is_quarantine
    BY <2>2 DEF CA!CatalogFields
  <2> QED
    BY <2>1, <2>2, <2>3
<1>5. catalogs' \in [Catalogs -> CA!CatalogFields \cup {None}]
  BY <1>3, <1>4
<1> QED
  BY <1>1, <1>2, <1>4, <1>5 DEF CA!Existing

\* Only the flag of the request, or one the catalog has, is written.
LEMMA SavedOne ==
    ASSUME CatalogsInv, NEW c \in Catalogs, NEW f \in CA!CatalogFields, NEW flagged \in BOOLEAN,
           CA!SavedCatalog(c, f, flagged),
           f.is_quarantine /\ ~flagged => catalogs[c] # None /\ catalogs[c].is_quarantine
    PROVE  catalogs' \in [Catalogs -> CA!CatalogFields \cup {None}] /\ CA!OneQuarantine'
<1>1. CASE flagged
  <2> DEFINE S == Catalogs \ {c}
  <2>1. catalogs' = CA!ClearFlags([catalogs EXCEPT ![c] = f], S) /\ c \notin S
    BY <1>1 DEF CA!SavedCatalog
  <2> HIDE DEF S
  <2>2. /\ catalogs' \in [Catalogs -> CA!CatalogFields \cup {None}]
        /\ \A x \in CA!Existing' : catalogs'[x].is_quarantine => x \notin S
    BY <2>1, Cleared
  <2> QED
    BY <2>2 DEF CA!OneQuarantine, CA!Existing, S
<1>2. CASE ~flagged
  <2>1. catalogs' = [catalogs EXCEPT ![c] = f] /\ UNCHANGED overlapped
    BY <1>2 DEF CA!SavedCatalog
  <2>2. catalogs' \in [Catalogs -> CA!CatalogFields \cup {None}]
    BY <2>1 DEF CatalogsInv
  <2>3. ASSUME NEW x \in CA!Existing', catalogs'[x].is_quarantine
        PROVE  x \in CA!Existing /\ catalogs[x].is_quarantine
    BY <1>2, <2>1, <2>3 DEF CatalogsInv, CA!Existing
  <2> QED
    BY <2>1, <2>2, <2>3 DEF CatalogsInv, CA!OneQuarantine
<1> QED
  BY <1>1, <1>2

\* A flagged catalog that is created is alone with those it did not see.
LEMMA CreatedOne ==
    ASSUME CatalogsInv, NEW new \in creating, CA!CreateCommits(new)
    PROVE  catalogs' \in [Catalogs -> CA!CatalogFields \cup {None}] /\ CA!OneQuarantine'
<1>1. new.id \in Catalogs /\ new.fields \in CA!CatalogFields /\ new.id \notin new.saw
  BY DEF CatalogsInv, Creation, CA!CreateCommits
<1>2. CASE new.fields.is_quarantine
  <2>1. /\ catalogs' = CA!ClearFlags([catalogs EXCEPT ![new.id] = new.fields], new.saw)
        /\ overlapped' = {p \in overlapped : p \cap new.saw = {}}
                             \cup {{new.id, c} : c \in CA!Existing \ new.saw}
    BY <1>2 DEF CA!CreateCommits
  <2>2. /\ catalogs' \in [Catalogs -> CA!CatalogFields \cup {None}]
        /\ \A x \in CA!Existing' : catalogs'[x].is_quarantine =>
              x \notin new.saw /\ (x # new.id => x \in CA!Existing /\ catalogs[x].is_quarantine)
    BY <1>1, <2>1, Cleared
  <2>3. ASSUME NEW x \in CA!Existing', NEW y \in CA!Existing',
               catalogs'[x].is_quarantine, catalogs'[y].is_quarantine, x # y
        PROVE  {x, y} \in overlapped'
    <3>1. CASE x = new.id
      <4>1. y \in CA!Existing \ new.saw
        BY <2>2, <2>3, <3>1
      <4> QED
        BY <2>1, <3>1, <4>1
    <3>2. CASE y = new.id
      <4>1. x \in CA!Existing \ new.saw /\ {x, y} = {new.id, x}
        BY <2>2, <2>3, <3>2
      <4> QED
        BY <2>1, <4>1
    <3>3. CASE x # new.id /\ y # new.id
      <4>1. /\ x \in CA!Existing /\ catalogs[x].is_quarantine /\ x \notin new.saw
            /\ y \in CA!Existing /\ catalogs[y].is_quarantine /\ y \notin new.saw
        BY <2>2, <2>3, <3>3
      <4>2. {x, y} \in overlapped
        BY <2>3, <4>1 DEF CatalogsInv, CA!OneQuarantine
      <4>3. {x, y} \cap new.saw = {}
        BY <4>1
      <4> QED
        BY <2>1, <4>2, <4>3
    <3> QED
      BY <3>1, <3>2, <3>3
  <2> QED
    BY <2>2, <2>3 DEF CA!OneQuarantine
<1>3. CASE ~new.fields.is_quarantine
  <2>1. catalogs' = [catalogs EXCEPT ![new.id] = new.fields] /\ UNCHANGED overlapped
    BY <1>3 DEF CA!CreateCommits
  <2>2. catalogs' \in [Catalogs -> CA!CatalogFields \cup {None}]
    BY <1>1, <2>1 DEF CatalogsInv
  <2>3. ASSUME NEW x \in CA!Existing', catalogs'[x].is_quarantine
        PROVE  x \in CA!Existing /\ catalogs[x].is_quarantine
    BY <1>1, <1>3, <2>1, <2>3 DEF CatalogsInv, CA!Existing
  <2> QED
    BY <2>1, <2>2, <2>3 DEF CatalogsInv, CA!OneQuarantine
<1> QED
  BY <1>2, <1>3

LEMMA DetailShown ==
    ASSUME CatalogsInv, NEW r \in CatalogRow \cup {None}, CA!ShowDetail(r)
    PROVE  viewCatalog' \in CatalogRow \cup {None} /\ edit' \in CA!CatalogFields
           /\ CA!UntouchedFormIsTheCatalogs'
BY DEF CatalogsInv, CatalogRow, CA!ShowDetail, CA!UntouchedFormIsTheCatalogs

LEMMA CatalogsNext == ASSUME CA!CatalogsAssumption, CatalogsInv, CA!Next PROVE CatalogsInv'
<1> DEFINE Server == catalogs \in [Catalogs -> CA!CatalogFields \cup {None}] /\ CA!OneQuarantine
           Detail == /\ viewCatalog \in CatalogRow \cup {None} /\ edit \in CA!CatalogFields
                     /\ CA!UntouchedFormIsTheCatalogs
           Dialogs == /\ catalogsShown = None \/ catalogsShown \subseteq CatalogRow
                      /\ createForm \in CatalogRow \cup {None}
                      /\ deleteCatalog \in Catalogs \cup {None}
           Calls == /\ creating \subseteq Creation /\ deletingCatalog \in Catalogs \cup {None}
                    /\ \A n \in creating : n.saw # None => n.id \notin n.saw
                    /\ updating \subseteq Saving
<1>1. Server /\ Detail /\ Dialogs /\ Calls
  BY DEF CatalogsInv
<1>2. UNCHANGED <<catalogs, overlapped>> => Server'
  BY <1>1 DEF CA!Existing, CA!OneQuarantine
<1>3. UNCHANGED <<viewCatalog, edit, typed>> => Detail'
  BY <1>1 DEF CA!UntouchedFormIsTheCatalogs
<1>4. SUFFICES Server' /\ Detail' /\ Dialogs' /\ Calls'
  BY DEF CatalogsInv
<1> HIDE DEF Server, Detail
<1>5. CASE CA!LoadCatalogs
  <2>1. catalogsShown' \subseteq CatalogRow
    BY <1>1, <1>5 DEF CA!LoadCatalogs, CA!CatalogRead, CA!Existing, CatalogRow, Server
  <2> QED
    BY <1>1, <1>2, <1>3, <1>5, <2>1 DEF CA!LoadCatalogs, CA!detail, CA!requests, CA!marks
<1>6. ASSUME NEW b \in CA!CatalogCards, CA!PressCard(b) PROVE Server' /\ Detail' /\ Dialogs' /\ Calls'
  <2>1. b.row \in CatalogRow
    BY <1>1 DEF CA!CatalogCards
  <2>2. Detail'
    BY <1>3, <1>6, <2>1, DetailShown DEF CA!PressCard, CA!detail, Detail
  <2> QED
    BY <1>1, <1>2, <1>6, <2>1, <2>2 DEF CA!PressCard, CA!lists, CA!requests, CatalogRow, CA!marks
<1>7. CASE CA!CloseDialogs
  <2>1. Detail'
    BY <1>7, DetailShown DEF CA!CloseDialogs, Detail
  <2>2. updating' \subseteq Saving
    <3>1. ASSUME NEW u \in updating PROVE [u EXCEPT !.open = FALSE] \in Saving
      BY <1>1 DEF Saving
    <3> QED
      BY <1>7, <3>1 DEF CA!CloseDialogs
  <2> QED
    BY <1>1, <1>2, <1>7, <2>1, <2>2 DEF CA!CloseDialogs, CA!lists, CA!marks
<1>8. CASE CA!OpenCreate
  <2>1. createForm' \in CatalogRow
    BY <1>8 DEF CA!OpenCreate, CatalogRow
  <2>2. Dialogs' /\ Calls'
    BY <1>1, <1>8, <2>1 DEF CA!OpenCreate, CA!lists, CA!requests
  <2> QED
    BY <1>2, <1>3, <1>8, <2>2 DEF CA!OpenCreate, CA!detail, CA!marks
<1>9. CASE CA!handleCreate
  <2> DEFINE new == [id |-> createForm.id, fields |-> createForm.fields, saw |-> None]
  <2>1. new \in Creation /\ new.saw = None
    BY <1>1, <1>9 DEF CA!handleCreate, CatalogRow, Creation
  <2>2. creating' = creating \cup {new}
    BY <1>9 DEF CA!handleCreate
  <2> HIDE DEF new
  <2>3. Calls'
    BY <1>1, <1>9, <2>1, <2>2 DEF CA!handleCreate
  <2> QED
    BY <1>1, <1>2, <1>3, <1>9, <2>3 DEF CA!handleCreate, CA!lists, CA!detail, CA!marks
<1>10. ASSUME NEW new \in creating, CA!CreateCommits(new) PROVE Server' /\ Detail' /\ Dialogs' /\ Calls'
  <2>1. Server'
    BY <1>10, CreatedOne DEF Server
  <2> QED
    BY <1>1, <1>3, <1>10, <2>1 DEF CA!CreateCommits, CA!detail
<1>17. ASSUME NEW new \in creating, CA!CreateFlushes(new) PROVE Server' /\ Detail' /\ Dialogs' /\ Calls'
  <2> DEFINE sees == [new EXCEPT !.saw = CA!Existing]
  <2>1. CASE catalogs[new.id] = None
    <3>1. new \in Creation
      BY <1>1
    <3>2. CA!Existing \in SUBSET Catalogs /\ new.id \notin CA!Existing
      BY <2>1 DEF CA!Existing
    <3>3. sees \in Creation /\ sees.id \notin sees.saw
      BY <3>1, <3>2 DEF Creation
    <3>4. creating' = (creating \ {new}) \cup {sees}
      BY <1>17, <2>1 DEF CA!CreateFlushes
    <3> HIDE DEF sees
    <3>5. Calls'
      BY <1>1, <1>17, <3>3, <3>4 DEF CA!CreateFlushes
    <3> QED
      BY <1>1, <1>2, <1>3, <1>17, <3>5 DEF CA!CreateFlushes, CA!lists, CA!detail, CA!marks
  <2>2. CASE catalogs[new.id] # None
    <3>1. creating' \subseteq creating
      BY <1>17, <2>2 DEF CA!CreateFlushes
    <3> QED
      BY <1>1, <1>2, <1>3, <1>17, <3>1 DEF CA!CreateFlushes, CA!lists, CA!detail, CA!marks
  <2> QED
    BY <2>1, <2>2
<1>18. ASSUME NEW new \in creating, CA!CreateFails(new) PROVE Server' /\ Detail' /\ Dialogs' /\ Calls'
  BY <1>1, <1>2, <1>3, <1>18 DEF CA!CreateFails, CA!lists, CA!detail, CA!marks
<1>11. CASE CA!ConfirmDelete
  BY <1>1, <1>2, <1>3, <1>11 DEF CA!ConfirmDelete, CA!lists, CA!detail, CA!marks
<1>12. CASE CA!Deleted
  <2>1. Server'
    <3>1. CASE catalogs' = [catalogs EXCEPT ![deletingCatalog] = None] /\ UNCHANGED overlapped
      BY <1>1, <3>1 DEF Server, CA!Existing, CA!OneQuarantine
    <3> QED
      BY <1>2, <1>12, <3>1 DEF CA!Deleted, CA!marks
  <2> QED
    BY <1>1, <1>3, <1>12, <2>1 DEF CA!Deleted, CA!detail
<1>13. ASSUME NEW f \in CA!CatalogFields, CA!EditCatalog(f) PROVE Server' /\ Detail' /\ Dialogs' /\ Calls'
  <2>1. Detail'
    BY <1>1, <1>13 DEF CA!EditCatalog, Detail, CA!UntouchedFormIsTheCatalogs
  <2> QED
    BY <1>1, <1>2, <1>13, <2>1 DEF CA!EditCatalog, CA!lists, CA!requests, CA!marks
<1>14. CASE CA!handleSave
  <2>1. [id |-> viewCatalog.id, fields |-> edit, loaded |-> None, open |-> TRUE] \in Saving
    BY <1>1, <1>14 DEF CA!handleSave, CatalogRow, Saving, Detail
  <2> QED
    BY <1>1, <1>2, <1>3, <1>14, <2>1 DEF CA!handleSave, CA!lists, CA!detail, CA!marks
<1>15. ASSUME NEW u \in updating, CA!UpdateCommits(u) PROVE Server' /\ Detail' /\ Dialogs' /\ Calls'
  <2>1. /\ u.id \in Catalogs /\ u.fields \in CA!CatalogFields /\ u.loaded \in CA!CatalogFields
        /\ catalogs[u.id] \in CA!CatalogFields
    BY <1>1, <1>15 DEF CA!UpdateCommits, Saving, Server
  <2>2. CA!Sent(u) \in CA!CatalogFields
    BY <2>1 DEF CA!Sent, CA!CatalogFields
  <2>3. /\ CA!Flushed(u) \in CA!CatalogFields
        /\ CA!Flushed(u).is_quarantine /\ ~CA!Sent(u).is_quarantine => catalogs[u.id].is_quarantine
    BY <2>1, <2>2 DEF CA!Flushed, CA!CatalogFields
  <2>4. CA!Sent(u).is_quarantine \in BOOLEAN
    BY <2>2 DEF CA!CatalogFields
  <2>5. Server'
    BY <1>15, <2>1, <2>3, <2>4, SavedOne DEF CA!UpdateCommits, Server
  <2>6. Detail'
    <3>1. [id |-> u.id, fields |-> CA!Sent(u)] \in CatalogRow
      BY <2>1, <2>2 DEF CatalogRow
    <3> QED
      BY <1>3, <1>15, <3>1, DetailShown DEF CA!UpdateCommits, CA!detail, Detail
  <2> QED
    BY <1>1, <1>15, <2>5, <2>6 DEF CA!UpdateCommits
<1>16. ASSUME NEW c \in Catalogs, CA!OtherCatalogs(c) PROVE Server' /\ Detail' /\ Dialogs' /\ Calls'
  <2>1. PICK f \in CA!CatalogFields : CA!SavedCatalog(c, f, f.is_quarantine)
    BY <1>16 DEF CA!OtherCatalogs
  <2>2. f.is_quarantine \in BOOLEAN
    BY DEF CA!CatalogFields
  <2>3. Server'
    BY <2>1, <2>2, SavedOne DEF Server
  <2> QED
    BY <1>1, <1>3, <1>16, <2>3 DEF CA!OtherCatalogs, CA!lists, CA!detail, CA!requests
<1>19. ASSUME NEW u \in updating, CA!UpdateLoads(u) PROVE Server' /\ Detail' /\ Dialogs' /\ Calls'
  <2>1. u \in Saving /\ catalogs[u.id] \in CA!CatalogFields
    BY <1>1, <1>19 DEF CA!UpdateLoads, Server, Saving
  <2>2. [u EXCEPT !.loaded = catalogs[u.id]] \in Saving
    BY <2>1 DEF Saving
  <2>3. updating' \subseteq Saving
    BY <1>1, <1>19, <2>2 DEF CA!UpdateLoads
  <2> QED
    BY <1>1, <1>2, <1>3, <1>19, <2>3 DEF CA!UpdateLoads, CA!lists, CA!detail, CA!marks
<1>20. ASSUME NEW u \in updating, CA!UpdateFails(u) PROVE Server' /\ Detail' /\ Dialogs' /\ Calls'
  BY <1>1, <1>2, <1>3, <1>20 DEF CA!UpdateFails, CA!lists, CA!detail, CA!marks
<1> QED
  BY <1>5, <1>6, <1>7, <1>8, <1>9, <1>10, <1>11, <1>12, <1>13, <1>14, <1>15, <1>16, <1>17, <1>18,
     <1>19, <1>20 DEF CA!Next

LEMMA CatalogsImply ==
    ASSUME CatalogsInv
    PROVE  CA!CatalogsTypeOK /\ CA!OneQuarantine /\ CA!UntouchedFormIsTheCatalogs
BY DEF CatalogsInv, CatalogRow, CA!CatalogsTypeOK

-----------------------------------------------------------------------------
(* UploadDialog: names are sequences of tokens. *)

Separators == {".", "_", "-"}
AnyToken == UD!Token \cup {"uploaded"}
NameStart(x, i) == UD!StripRight(SubSeq(x, 1, i - 1), Separators)

LEMMA ExtremeMembers ==
    ASSUME NEW n \in Nat, NEW S \in SUBSET (1 .. n), S # {}
    PROVE  /\ UD!LeastOf(S) \in S /\ \A j \in S : UD!LeastOf(S) <= j
           /\ UD!GreatestOf(S) \in S /\ \A j \in S : j <= UD!GreatestOf(S)
<1>1. \E i \in S : \A j \in S : i <= j
  BY LeastMember
<1>2. \E i \in S : \A j \in S : j <= i
  <2> DEFINE back == {n - i : i \in S}
  <2>1. back \in SUBSET Nat /\ back # {}
    <3>1. \A i \in S : n - i \in Nat
      OBVIOUS
    <3> QED
      BY <3>1
  <2>2. PICK b \in back : \A c \in back : b <= c
    <3> HIDE DEF back
    <3> QED
      BY <2>1, LeastMember
  <2>3. PICK i \in S : b = n - i
    BY <2>2
  <2>4. ASSUME NEW j \in S PROVE j <= i
    <3>1. n - j \in back
      OBVIOUS
    <3>2. n - i <= n - j
      BY <2>2, <2>3, <3>1
    <3> QED
      BY <3>2
  <2> QED
    BY <2>4
<1> QED
  BY <1>1, <1>2 DEF UD!LeastOf, UD!GreatestOf

\* What is kept of a name whose end is cut.
LEMMA StripEnd ==
    ASSUME NEW T, NEW s \in Seq(T), NEW C
    PROVE  LET y == UD!StripRight(s, C)
           IN  /\ y \in Seq(T) /\ Len(y) \in 0 .. Len(s)
               /\ \A k \in 1 .. Len(y) : y[k] = s[k]
               /\ \A k \in (Len(y) + 1) .. Len(s) : s[k] \in C
<1>1. Len(s) \in Nat /\ DOMAIN s = 1 .. Len(s) /\ \A k \in 1 .. Len(s) : s[k] \in T
  OBVIOUS
<1>2. CASE UD!Keep(s, C) = {}
  <2>1. UD!StripRight(s, C) = <<>> /\ <<>> \in Seq(T) /\ Len(<<>>) = 0
    BY <1>2 DEF UD!StripRight
  <2>2. \A k \in 1 .. Len(s) : s[k] \in C
    BY <1>1, <1>2 DEF UD!Keep
  <2> QED
    BY <1>1, <2>1, <2>2
<1>3. CASE UD!Keep(s, C) # {}
  <2> DEFINE m == UD!GreatestOf(UD!Keep(s, C))
  <2>1. UD!Keep(s, C) \in SUBSET (1 .. Len(s))
    BY <1>1 DEF UD!Keep
  <2>2. m \in UD!Keep(s, C) /\ \A j \in UD!Keep(s, C) : j <= m
    BY <1>1, <1>3, <2>1, ExtremeMembers
  <2>3. UD!StripRight(s, C) = SubSeq(s, 1, m)
    BY <1>3 DEF UD!StripRight
  <2>4. m \in 1 .. Len(s)
    BY <2>1, <2>2
  <2> HIDE DEF m
  <2>5. /\ SubSeq(s, 1, m) \in Seq(T)
        /\ Len(SubSeq(s, 1, m)) = IF 1 <= m THEN m - 1 + 1 ELSE 0
        /\ \A i \in 1 .. m - 1 + 1 : SubSeq(s, 1, m)[i] = s[1 + i - 1]
    BY <1>1, <2>4, SubSeqProperties
  <2>6. ASSUME NEW k \in (m + 1) .. Len(s) PROVE s[k] \in C
    <3>1. k \in DOMAIN s /\ ~(k <= m)
      BY <1>1, <2>4
    <3> QED
      BY <2>2, <3>1 DEF UD!Keep
  <2> DEFINE y == SubSeq(s, 1, m)
  <2>7. y \in Seq(T) /\ Len(y) = m /\ \A i \in 1 .. m : y[i] = s[i]
    BY <2>4, <2>5
  <2> HIDE DEF y
  <2> QED
    BY <1>1, <2>3, <2>4, <2>6, <2>7 DEF y
<1> QED
  BY <1>2, <1>3

LEMMA StripEnds ==
    ASSUME NEW T, NEW s \in Seq(T), NEW C
    PROVE  LET y == UD!StripBoth(s, C)
           IN  /\ y \in Seq(T)
               /\ y # <<>> => Len(y) \in Nat \ {0} /\ y[1] \notin C /\ y[Len(y)] \notin C
               /\ s # <<>> /\ s[1] \notin C => y # <<>> /\ y[1] = s[1]
<1>1. Len(s) \in Nat /\ DOMAIN s = 1 .. Len(s) /\ \A k \in 1 .. Len(s) : s[k] \in T
  OBVIOUS
<1>2. CASE UD!Keep(s, C) = {}
  <2>1. UD!StripBoth(s, C) = <<>> /\ <<>> \in Seq(T)
    BY <1>2 DEF UD!StripBoth
  <2>2. s # <<>> => 1 \in DOMAIN s
    BY <1>1
  <2> QED
    BY <1>2, <2>1, <2>2 DEF UD!Keep
<1>3. CASE UD!Keep(s, C) # {}
  <2> DEFINE lo == UD!LeastOf(UD!Keep(s, C))
             hi == UD!GreatestOf(UD!Keep(s, C))
             y == SubSeq(s, lo, hi)
  <2>1. UD!Keep(s, C) \in SUBSET (1 .. Len(s))
    BY <1>1 DEF UD!Keep
  <2>2. /\ lo \in UD!Keep(s, C) /\ \A j \in UD!Keep(s, C) : lo <= j
        /\ hi \in UD!Keep(s, C) /\ \A j \in UD!Keep(s, C) : j <= hi
    BY <1>1, <1>3, <2>1, ExtremeMembers
  <2>3. UD!StripBoth(s, C) = y
    BY <1>3 DEF UD!StripBoth
  <2>4. lo \in 1 .. Len(s) /\ hi \in 1 .. Len(s) /\ lo <= hi /\ s[lo] \notin C /\ s[hi] \notin C
    BY <2>1, <2>2 DEF UD!Keep
  <2>5. s[1] \notin C => lo = 1
    <3>1. s[1] \notin C => 1 \in UD!Keep(s, C)
      BY <1>1, <2>4 DEF UD!Keep
    <3> HIDE DEF lo, hi
    <3> QED
      BY <2>2, <2>4, <3>1
  <2> HIDE DEF lo, hi
  <2>6. /\ y \in Seq(T)
        /\ Len(y) = IF lo <= hi THEN hi - lo + 1 ELSE 0
        /\ \A i \in 1 .. hi - lo + 1 : y[i] = s[lo + i - 1]
    <3>1. lo \in Int /\ hi \in Int /\ \A i \in lo .. hi : s[i] \in T
      BY <1>1, <2>4
    <3> QED
      BY <3>1, SubSeqProperties
  <2> HIDE DEF y
  <2>7. Len(y) \in Nat \ {0} /\ Len(y) = hi - lo + 1
    BY <1>1, <2>4, <2>6
  <2>8. y[1] = s[lo] /\ y[Len(y)] = s[hi]
    <3>1. 1 \in 1 .. hi - lo + 1 /\ Len(y) \in 1 .. hi - lo + 1 /\ lo + 1 - 1 = lo /\ lo + Len(y) - 1 = hi
      BY <1>1, <2>4, <2>7
    <3> QED
      BY <2>6, <3>1
  <2>9. y # <<>>
    BY <2>7
  <2> QED
    BY <2>3, <2>4, <2>5, <2>6, <2>7, <2>8, <2>9
<1> QED
  BY <1>2, <1>3

\* A name without blanks at its ends is its own trimmed form.
LEMMA TrimTwice ==
    ASSUME NEW s \in Seq(UD!Token)
    PROVE  UD!trim(UD!trim(s)) = UD!trim(s) /\ UD!trim(s) \in Seq(UD!Token)
<1> DEFINE t == UD!trim(s)
           C == {" "}
<1>1. t \in Seq(UD!Token) /\ (t # <<>> => Len(t) \in Nat \ {0} /\ t[1] \notin C /\ t[Len(t)] \notin C)
  BY StripEnds DEF UD!trim
<1> HIDE DEF t
<1>2. CASE t = <<>>
  <2>1. UD!Keep(t, C) = {}
    BY <1>2 DEF UD!Keep
  <2>2. UD!trim(t) = t
    BY <1>2, <2>1 DEF UD!trim, UD!StripBoth
  <2> QED
    BY <1>1, <2>2 DEF t
<1>3. CASE t # <<>>
  <2> DEFINE n == Len(t)
  <2>1. n \in Nat \ {0} /\ DOMAIN t = 1 .. n
    <3>1. n \in Nat \ {0}
      BY <1>1, <1>3
    <3>2. t \in Seq(UD!Token)
      BY <1>1
    <3>3. DOMAIN t = 1 .. n
      BY <3>2
    <3> QED
      BY <3>1, <3>3
  <2>2. 1 \in UD!Keep(t, C) /\ n \in UD!Keep(t, C) /\ UD!Keep(t, C) \in SUBSET (1 .. n)
    <3>1. 1 \in DOMAIN t /\ n \in DOMAIN t
      BY <2>1
    <3>2. t[1] \notin C /\ t[n] \notin C
      BY <1>1, <1>3
    <3> HIDE DEF n, C
    <3> QED
      BY <2>1, <3>1, <3>2 DEF UD!Keep
  <2>3. UD!LeastOf(UD!Keep(t, C)) = 1 /\ UD!GreatestOf(UD!Keep(t, C)) = n
    <3> DEFINE K == UD!Keep(t, C)
    <3> HIDE DEF K, n
    <3>1. K \in SUBSET (1 .. n) /\ 1 \in K /\ n \in K /\ n \in Nat
      BY <2>1, <2>2 DEF K
    <3>2. /\ UD!LeastOf(K) \in K /\ \A j \in K : UD!LeastOf(K) <= j
          /\ UD!GreatestOf(K) \in K /\ \A j \in K : j <= UD!GreatestOf(K)
      BY <3>1, ExtremeMembers
    <3>3. UD!LeastOf(K) = 1 /\ UD!GreatestOf(K) = n
      <4>1. UD!LeastOf(K) \in 1 .. n /\ UD!GreatestOf(K) \in 1 .. n
        BY <3>1, <3>2
      <4>2. UD!LeastOf(K) <= 1 /\ n <= UD!GreatestOf(K)
        BY <3>1, <3>2
      <4> QED
        BY <3>1, <4>1, <4>2
    <3> QED
      BY <3>3 DEF K
  <2>4. UD!trim(t) = SubSeq(t, 1, n)
    BY <2>2, <2>3 DEF UD!trim, UD!StripBoth
  <2>5. SubSeq(t, 1, n) = t
    BY <1>1, SubSeqFull
  <2> QED
    BY <1>1, <2>4, <2>5 DEF t
<1> QED
  BY <1>2, <1>3

LEMMA SlugType ==
    ASSUME NEW s \in Seq(UD!Token)
    PROVE  /\ UD!slug(s) \in Seq(UD!UnicodeWord) \/ UD!slug(s) = <<"uploaded">>
           /\ s # <<>> /\ s[1] = "1" =>
                /\ UD!slug(s) \in Seq(UD!UnicodeWord) /\ Len(UD!slug(s)) \in Nat \ {0}
                /\ UD!slug(s)[1] = "1"
<1> DEFINE t == UD!trim(s)
           runs == [i \in DOMAIN t |-> IF t[i] = " " THEN "_" ELSE t[i]]
           cleaned == UD!StripBoth(runs, {".", "_", "-"})
<1>1. UD!slug(s) = IF cleaned = <<>> THEN <<"uploaded">> ELSE cleaned
  BY DEF UD!slug
<1>2. /\ t \in Seq(UD!Token)
      /\ s # <<>> /\ s[1] = "1" => t # <<>> /\ t[1] = "1"
  <2>1. " " # "1"
    OBVIOUS
  <2> QED
    BY <2>1, StripEnds DEF UD!trim
<1> HIDE DEF t
<1>3. DOMAIN t = 1 .. Len(t) /\ Len(t) \in Nat /\ \A i \in 1 .. Len(t) : t[i] \in UD!Token
  BY <1>2
<1>4. runs \in [1 .. Len(t) -> UD!UnicodeWord]
  BY <1>3 DEF UD!Token, UD!UnicodeWord, UD!AsciiWord
<1>5. runs \in Seq(UD!UnicodeWord)
  BY <1>3, <1>4, SeqDef
<1>6. s # <<>> /\ s[1] = "1" => runs # <<>> /\ runs[1] = "1"
  <2>1. t # <<>> => 1 \in DOMAIN t
    BY <1>2, <1>3
  <2>2. t # <<>> /\ t[1] = "1" => runs[1] = "1" /\ 1 \in DOMAIN runs
    BY <2>1
  <2>3. 1 \notin DOMAIN <<>>
    OBVIOUS
  <2> HIDE DEF runs
  <2> QED
    BY <1>2, <2>2, <2>3
<1> HIDE DEF runs
<1>7. /\ cleaned \in Seq(UD!UnicodeWord)
      /\ cleaned # <<>> => Len(cleaned) \in Nat \ {0}
      /\ runs # <<>> /\ runs[1] \notin {".", "_", "-"} => cleaned # <<>> /\ cleaned[1] = runs[1]
  BY <1>5, StripEnds
<1> HIDE DEF cleaned
<1> QED
  BY <1>1, <1>6, <1>7

-----------------------------------------------------------------------------
\* A name up to the character before i, without separators at its end.
LEMMA NameStarts ==
    ASSUME NEW x \in Seq(AnyToken), NEW i \in 1 .. Len(x)
    PROVE  LET y == NameStart(x, i)
           IN  /\ y \in Seq(AnyToken) /\ Len(y) \in 0 .. i - 1
               /\ \A k \in 1 .. Len(y) : y[k] = x[k]
               /\ \A k \in (Len(y) + 1) .. (i - 1) : x[k] \in Separators
<1>1. Len(x) \in Nat /\ i \in Int /\ \A k \in 1 .. i - 1 : x[k] \in AnyToken
  OBVIOUS
<1> DEFINE p == SubSeq(x, 1, i - 1)
           y == UD!StripRight(p, Separators)
<1>2. /\ p \in Seq(AnyToken)
      /\ Len(p) = IF 1 <= i - 1 THEN (i - 1) - 1 + 1 ELSE 0
      /\ \A k \in 1 .. (i - 1) - 1 + 1 : p[k] = x[1 + k - 1]
  BY <1>1, SubSeqProperties
<1> HIDE DEF p
<1>3. Len(p) = i - 1 /\ \A k \in 1 .. i - 1 : p[k] = x[k]
  BY <1>1, <1>2
<1>4. /\ y \in Seq(AnyToken) /\ Len(y) \in 0 .. Len(p)
      /\ \A k \in 1 .. Len(y) : y[k] = p[k]
      /\ \A k \in (Len(y) + 1) .. Len(p) : p[k] \in Separators
  BY <1>2, StripEnd
<1> HIDE DEF y
<1>5. /\ \A k \in 1 .. Len(y) : y[k] = x[k]
      /\ \A k \in (Len(y) + 1) .. (i - 1) : x[k] \in Separators
  BY <1>1, <1>3, <1>4
<1>6. NameStart(x, i) = y
  BY DEF NameStart, p, y
<1> QED
  BY <1>3, <1>4, <1>5, <1>6

WordSets == {UD!AsciiWord, UD!UnicodeWord}

LEMMA WordsHold ==
    ASSUME NEW W \in WordSets
    PROVE  Separators \subseteq W /\ "1" \in W /\ "-" \in W /\ "_" \in W
BY DEF WordSets, UD!AsciiWord, UD!UnicodeWord, Separators

LEMMA TailsAre ==
    ASSUME NEW x \in Seq(AnyToken), NEW W
    PROVE  /\ UD!VersionTails(x, W) \in SUBSET (1 .. Len(x)) /\ Len(x) \in Nat
           /\ \A i : i \in UD!VersionTails(x, W) <=>
                  /\ i \in 1 .. Len(x) - 1 /\ x[i] \in {"-", "_"} /\ x[i + 1] = "1"
                  /\ \A k \in (i + 2) .. Len(x) : x[k] \in W
<1>1. Len(x) \in Nat
  OBVIOUS
<1>2. \A i : i \in 1 .. Len(x) - 1 => i \in 1 .. Len(x)
  BY <1>1
<1>3. \A i : i \in UD!VersionTails(x, W) <=>
          /\ i \in 1 .. Len(x) - 1 /\ x[i] \in {"-", "_"} /\ x[i + 1] = "1"
          /\ \A k \in (i + 2) .. Len(x) : x[k] \in W
  BY Zenon DEF UD!VersionTails
<1>4. UD!VersionTails(x, W) \subseteq 1 .. Len(x)
  BY <1>2, <1>3, Zenon
<1> QED
  BY <1>1, <1>3, <1>4, Zenon

\* Where the tails are, apart from what stands there.
LEMMA TailPlaces ==
    ASSUME NEW x \in Seq(AnyToken), NEW W, NEW i \in UD!VersionTails(x, W)
    PROVE  Len(x) \in Nat /\ i \in Nat /\ 1 <= i /\ i + 1 <= Len(x)
<1>1. Len(x) \in Nat /\ i \in 1 .. Len(x) - 1
  BY TailsAre, Zenon
<1> QED
  BY <1>1

\* What looks like a version in a name's start does so in the name.
LEMMA StartHasNoOtherTails ==
    ASSUME NEW W \in WordSets, NEW x \in Seq(AnyToken), NEW i \in UD!VersionTails(x, W),
           NEW j \in UD!VersionTails(NameStart(x, i), W)
    PROVE  j \in UD!VersionTails(x, W) /\ j < i
<1> DEFINE y == NameStart(x, i)
<1>1. Len(x) \in Nat /\ i \in Nat /\ 1 <= i /\ i + 1 <= Len(x)
  BY TailPlaces
<1>2. /\ x[i] \in {"-", "_"} /\ x[i + 1] = "1"
      /\ \A k \in (i + 2) .. Len(x) : x[k] \in W
  <2>1. \A h : h \in UD!VersionTails(x, W) <=>
            /\ h \in 1 .. Len(x) - 1 /\ x[h] \in {"-", "_"} /\ x[h + 1] = "1"
            /\ \A k \in (h + 2) .. Len(x) : x[k] \in W
    BY TailsAre, Zenon
  <2> QED
    BY <2>1, Zenon
<1>3. i \in 1 .. Len(x)
  BY <1>1
<1>4. y \in Seq(AnyToken) /\ Len(y) \in 0 .. i - 1
  BY <1>3, NameStarts
<1>5. /\ \A k \in 1 .. Len(y) : y[k] = x[k]
      /\ \A k \in (Len(y) + 1) .. (i - 1) : x[k] \in Separators
  BY <1>3, NameStarts
<1>6. Len(y) \in Nat /\ j \in Nat /\ 1 <= j /\ j + 1 <= Len(y)
  BY <1>4, TailPlaces
<1>7. /\ y[j] \in {"-", "_"} /\ y[j + 1] = "1"
      /\ \A k \in (j + 2) .. Len(y) : y[k] \in W
  <2>1. j \in UD!VersionTails(y, W)
    OBVIOUS
  <2> HIDE DEF y
  <2>2. \A h : h \in UD!VersionTails(y, W) <=>
            /\ h \in 1 .. Len(y) - 1 /\ y[h] \in {"-", "_"} /\ y[h + 1] = "1"
            /\ \A k \in (h + 2) .. Len(y) : y[k] \in W
    BY <1>4, TailsAre, Zenon
  <2> QED
    BY <2>1, <2>2, Zenon
<1> HIDE DEF y
<1>8. /\ j \in 1 .. Len(x) - 1 /\ j < i
      /\ j \in 1 .. Len(y) /\ j + 1 \in 1 .. Len(y)
  BY <1>1, <1>4, <1>6
<1>9. x[j] = y[j] /\ x[j + 1] = y[j + 1]
  BY <1>5, <1>8, Zenon
<1>10. ASSUME NEW k \in (j + 2) .. Len(x) PROVE x[k] \in W
  <2>1. \/ k \in (j + 2) .. Len(y) /\ k \in 1 .. Len(y)
        \/ k \in (Len(y) + 1) .. (i - 1)
        \/ k = i \/ k = i + 1
        \/ k \in (i + 2) .. Len(x)
    BY <1>1, <1>4, <1>6
  <2>2. CASE k \in (j + 2) .. Len(y) /\ k \in 1 .. Len(y)
    <3>1. x[k] = y[k]
      BY <1>5, <2>2, Zenon
    <3> QED
      BY <1>7, <2>2, <3>1, Zenon
  <2>3. CASE k \in (Len(y) + 1) .. (i - 1)
    BY <1>5, <2>3, WordsHold, Zenon
  <2>4. CASE k = i
    BY <1>2, <2>4, WordsHold, Zenon
  <2>5. CASE k = i + 1
    BY <1>2, <2>5, WordsHold, Zenon
  <2>6. CASE k \in (i + 2) .. Len(x)
    BY <1>2, <2>6, Zenon
  <2> QED
    BY <2>1, <2>2, <2>3, <2>4, <2>5, <2>6, Zenon
<1>11. j \in UD!VersionTails(x, W)
  BY <1>7, <1>8, <1>9, <1>10, TailsAre, Zenon
<1> QED
  BY <1>8, <1>11, Zenon

LEMMA CutIs ==
    ASSUME NEW x \in Seq(AnyToken), NEW W, UD!VersionTails(x, W) # {}
    PROVE  LET i == UD!LeastOf(UD!VersionTails(x, W))
           IN  /\ i \in UD!VersionTails(x, W)
               /\ \A j \in UD!VersionTails(x, W) : i <= j
               /\ UD!CutTail(x, W) = NameStart(x, i)
<1>1. UD!VersionTails(x, W) \in SUBSET (1 .. Len(x)) /\ Len(x) \in Nat
  BY TailsAre
<1>2. UD!CutTail(x, W) = NameStart(x, UD!LeastOf(UD!VersionTails(x, W)))
  BY DEF UD!CutTail, NameStart, Separators
<1> QED
  BY <1>1, <1>2, ExtremeMembers

\* A name that was cut does not end like a version any more.
LEMMA CutIsWhole ==
    ASSUME NEW W \in WordSets, NEW x \in Seq(AnyToken)
    PROVE  /\ UD!CutTail(x, W) \in Seq(AnyToken)
           /\ UD!VersionTails(UD!CutTail(x, W), W) = {}
<1>1. CASE UD!VersionTails(x, W) = {}
  BY <1>1 DEF UD!CutTail
<1>2. CASE UD!VersionTails(x, W) # {}
  <2> DEFINE i == UD!LeastOf(UD!VersionTails(x, W))
  <2>1. /\ i \in UD!VersionTails(x, W) /\ UD!CutTail(x, W) = NameStart(x, i)
        /\ \A j \in UD!VersionTails(x, W) : i <= j
    BY <1>2, CutIs
  <2>2. UD!VersionTails(x, W) \in SUBSET (1 .. Len(x)) /\ Len(x) \in Nat
    BY TailsAre, Zenon
  <2> HIDE DEF i
  <2>5. i \in 1 .. Len(x)
    BY <2>1, <2>2
  <2>3. NameStart(x, i) \in Seq(AnyToken)
    BY <2>5, NameStarts
  <2>4. ASSUME NEW j \in UD!VersionTails(NameStart(x, i), W) PROVE FALSE
    <3>1. j \in UD!VersionTails(x, W) /\ j < i
      BY <2>1, <2>4, StartHasNoOtherTails
    <3> QED
      BY <2>1, <2>2, <3>1
  <2> QED
    BY <2>1, <2>3, <2>4
<1> QED
  BY <1>1, <1>2

\* Cutting the version first changes nothing.
LEMMA CutTwice ==
    ASSUME NEW W \in WordSets, NEW x \in Seq(AnyToken), NEW m \in UD!VersionTails(x, W)
    PROVE  UD!CutTail(NameStart(x, m), W) = UD!CutTail(x, W)
<1> DEFINE i == UD!LeastOf(UD!VersionTails(x, W))
           y == NameStart(x, m)
<1>1. /\ i \in UD!VersionTails(x, W) /\ UD!CutTail(x, W) = NameStart(x, i)
      /\ \A j \in UD!VersionTails(x, W) : i <= j
  BY CutIs
<1> HIDE DEF i
<1>2. CASE m = i
  <2>1. y = UD!CutTail(x, W)
    BY <1>1, <1>2
  <2>2. UD!VersionTails(y, W) = {}
    BY <2>1, CutIsWhole
  <2> QED
    BY <2>1, <2>2 DEF UD!CutTail
<1>3. CASE m # i
  <2>1. Len(x) \in Nat /\ i \in Nat /\ 1 <= i /\ i + 1 <= Len(x) /\ m \in Nat /\ m + 1 <= Len(x)
    BY <1>1, TailPlaces
  <2>2. /\ x[i] \in {"-", "_"} /\ x[i + 1] = "1"
        /\ \A k \in (i + 2) .. Len(x) : x[k] \in W
        /\ x[m] \in {"-", "_"}
    BY <1>1, TailsAre, Zenon
  <2>3. i < m
    BY <1>1, <1>3, <2>1
  <2>4. m # i + 1
    BY <2>2
  <2>5. m \in 1 .. Len(x)
    BY <2>1, <2>3
  <2>6. y \in Seq(AnyToken) /\ Len(y) \in 0 .. m - 1
    BY <2>5, NameStarts
  <2>7. /\ \A k \in 1 .. Len(y) : y[k] = x[k]
        /\ \A k \in (Len(y) + 1) .. (m - 1) : x[k] \in Separators
    BY <2>5, NameStarts
  <2>8. ASSUME NEW j \in UD!VersionTails(y, W) PROVE j \in UD!VersionTails(x, W)
    BY StartHasNoOtherTails
  <2> HIDE DEF y
  <2>9. i + 1 <= Len(y)
    <3>1. i + 1 \notin (Len(y) + 1) .. (m - 1)
      BY <2>2, <2>7 DEF Separators
    <3> QED
      BY <2>1, <2>3, <2>4, <2>6, <3>1
  <2>10. i \in UD!VersionTails(y, W)
    <3>1. i \in 1 .. Len(y) - 1 /\ i \in 1 .. Len(y) /\ i + 1 \in 1 .. Len(y)
      BY <2>1, <2>6, <2>9
    <3>2. y[i] = x[i] /\ y[i + 1] = x[i + 1]
      BY <2>7, <3>1, Zenon
    <3>3. ASSUME NEW k \in (i + 2) .. Len(y) PROVE y[k] \in W
      <4>1. k \in 1 .. Len(y) /\ k \in (i + 2) .. Len(x)
        BY <2>1, <2>3, <2>6
      <4> QED
        BY <2>2, <2>7, <4>1, Zenon
    <3> QED
      BY <2>2, <2>6, <3>1, <3>2, <3>3, TailsAre, Zenon
  <2> DEFINE l == UD!LeastOf(UD!VersionTails(y, W))
  <2>11. /\ l \in UD!VersionTails(y, W) /\ UD!CutTail(y, W) = NameStart(y, l)
         /\ \A j \in UD!VersionTails(y, W) : l <= j
    BY <2>6, <2>10, CutIs
  <2> HIDE DEF l
  <2>12. l = i
    <3>1. l \in Nat
      BY <2>6, <2>11, TailPlaces
    <3>2. i <= l /\ l <= i
      BY <1>1, <2>8, <2>10, <2>11
    <3> QED
      BY <2>1, <3>1, <3>2
  <2>13. SubSeq(y, 1, i - 1) = SubSeq(x, 1, i - 1)
    <3> DEFINE p == SubSeq(y, 1, i - 1)
               q == SubSeq(x, 1, i - 1)
    <3>1. ASSUME NEW k \in 1 .. i - 1 PROVE y[k] \in AnyToken /\ x[k] \in AnyToken /\ y[k] = x[k]
      <4>1. k \in 1 .. Len(y) /\ k \in 1 .. Len(x)
        BY <2>1, <2>3, <2>6, <2>9
      <4> QED
        BY <2>6, <2>7, <4>1
    <3>2. 1 \in Int /\ i - 1 \in Int
      BY <2>1
    <3>3. /\ p \in Seq(AnyToken)
          /\ Len(p) = IF 1 <= i - 1 THEN (i - 1) - 1 + 1 ELSE 0
          /\ \A k \in 1 .. (i - 1) - 1 + 1 : p[k] = y[1 + k - 1]
      BY <3>1, <3>2, SubSeqProperties
    <3>4. /\ q \in Seq(AnyToken)
          /\ Len(q) = IF 1 <= i - 1 THEN (i - 1) - 1 + 1 ELSE 0
          /\ \A k \in 1 .. (i - 1) - 1 + 1 : q[k] = x[1 + k - 1]
      BY <3>1, <3>2, SubSeqProperties
    <3> HIDE DEF p, q
    <3>5. Len(p) = i - 1 /\ Len(q) = i - 1
      BY <2>1, <3>3, <3>4
    <3>6. \A k \in 1 .. i - 1 : p[k] = y[k] /\ q[k] = x[k]
      BY <2>1, <3>3, <3>4
    <3>7. \A k \in 1 .. Len(p) : p[k] = q[k]
      BY <3>1, <3>5, <3>6
    <3>8. p = q
      BY <3>3, <3>4, <3>5, <3>7, SeqEqual
    <3> QED
      BY <3>8 DEF p, q
  <2> QED
    BY <1>1, <2>11, <2>12, <2>13 DEF y, NameStart
<1> QED
  BY <1>2, <1>3

\* A name that ends with a separator and a tail, character by character.
LEMMA EndIs ==
    ASSUME NEW x \in Seq(AnyToken), NEW u \in Seq(AnyToken), NEW sep \in AnyToken,
           UD!EndsWith(x, <<sep>> \o u)
    PROVE  LET m == Len(x) - Len(u)
           IN  /\ m \in Nat /\ 1 <= m /\ m <= Len(x)
               /\ x[m] = sep
               /\ \A k \in (m + 1) .. Len(x) : k - m \in 1 .. Len(u) /\ x[k] = u[k - m]
<1> DEFINE tail == <<sep>> \o u
           m == Len(x) - Len(u)
<1>1. Len(u) \in Nat /\ Len(x) \in Nat
  OBVIOUS
<1>2. <<sep>> \in Seq(AnyToken) /\ Len(<<sep>>) = 1 /\ <<sep>>[1] = sep
  OBVIOUS
<1>3. /\ tail \in Seq(AnyToken) /\ Len(tail) = Len(<<sep>>) + Len(u)
      /\ \A k \in 1 .. Len(<<sep>>) + Len(u) :
            tail[k] = IF k <= Len(<<sep>>) THEN <<sep>>[k] ELSE u[k - Len(<<sep>>)]
  BY <1>2, ConcatProperties
<1>4. SubSeq(x, Len(x) - Len(tail) + 1, Len(x)) = tail /\ Len(tail) < Len(x)
  BY DEF UD!EndsWith
<1> HIDE DEF tail
<1>5. Len(tail) = 1 + Len(u) /\ \A k \in 1 .. 1 + Len(u) : tail[k] = IF k <= 1 THEN <<sep>>[k] ELSE u[k - 1]
  BY <1>2, <1>3
<1>6. m \in Nat /\ 1 <= m /\ m <= Len(x) /\ Len(x) - Len(tail) + 1 = m /\ Len(u) = Len(x) - m
  BY <1>1, <1>4, <1>5
<1> HIDE DEF m
<1>7. \A k \in m .. Len(x) : x[k] \in AnyToken
  BY <1>1, <1>6
<1>8. \A k \in 1 .. Len(x) - m + 1 : tail[k] = x[m + k - 1]
  <2>1. m \in Int /\ Len(x) \in Int
    BY <1>1, <1>6
  <2>2. \A k \in 1 .. Len(x) - m + 1 : SubSeq(x, m, Len(x))[k] = x[m + k - 1]
    BY <1>7, <2>1, SubSeqProperties
  <2> QED
    BY <1>4, <1>6, <2>2
<1>9. x[m] = sep
  <2>1. 1 \in 1 .. Len(x) - m + 1 /\ 1 \in 1 .. 1 + Len(u) /\ 1 <= 1 /\ m + 1 - 1 = m
    BY <1>1, <1>6
  <2> QED
    BY <1>2, <1>5, <1>8, <2>1
<1>10. ASSUME NEW k \in (m + 1) .. Len(x) PROVE k - m \in 1 .. Len(u) /\ x[k] = u[k - m]
  <2>1. k - m \in 1 .. Len(u)
    BY <1>1, <1>6
  <2> DEFINE h == k - m + 1
  <2>2. h \in 1 .. Len(x) - m + 1 /\ h \in 1 .. 1 + Len(u) /\ ~(h <= 1) /\ m + h - 1 = k /\ h - 1 = k - m
    BY <1>1, <1>6
  <2> HIDE DEF h
  <2>3. tail[h] = x[k] /\ tail[h] = u[k - m]
    BY <1>5, <1>8, <2>2
  <2> QED
    BY <2>1, <2>3
<1> QED
  BY <1>6, <1>9, <1>10 DEF m

\* The server cuts off the version it read where a version is to be seen.
LEMMA VersionIsATail ==
    ASSUME NEW x \in Seq(AnyToken), NEW v \in Seq(UD!Token)
    PROVE  /\ UD!CutVersion(x, v) \in Seq(AnyToken)
           /\ v = <<>> \/ v[1] = "1" =>
                 UD!CutTail(UD!CutVersion(x, v), UD!UnicodeWord) = UD!CutTail(x, UD!UnicodeWord)
<1> DEFINE Dashes == {"-", "_"}
<1>1. Dashes \subseteq AnyToken
  BY DEF AnyToken, UD!Token, UD!UnicodeWord, UD!AsciiWord
<1> HIDE DEF Dashes
<1>2. CASE v = <<>> \/ ~\E sep \in Dashes : UD!EndsWith(x, <<sep>> \o UD!slug(v))
  BY <1>2 DEF UD!CutVersion, Dashes
<1>3. CASE v # <<>> /\ \E sep \in Dashes : UD!EndsWith(x, <<sep>> \o UD!slug(v))
  <2> DEFINE u == UD!slug(v)
             m == Len(x) - Len(u)
  <2>1. u \in Seq(UD!UnicodeWord) \/ u = <<"uploaded">>
    BY SlugType
  <2>2. u \in Seq(AnyToken)
    <3>1. UD!UnicodeWord \subseteq AnyToken /\ "uploaded" \in AnyToken
      BY DEF AnyToken, UD!Token
    <3>2. u \in Seq(UD!UnicodeWord) => u \in Seq(AnyToken)
      BY <3>1, SeqMonotonic
    <3>3. <<"uploaded">> \in Seq(AnyToken)
      BY <3>1
    <3> QED
      BY <2>1, <3>2, <3>3
  <2>3. PICK sep \in Dashes : UD!EndsWith(x, <<sep>> \o u)
    BY <1>3
  <2>4. UD!CutVersion(x, v) = NameStart(x, m)
    <3>1. Len(x) - Len(u) - 1 = m - 1
      OBVIOUS
    <3> QED
      BY <1>3, <3>1 DEF UD!CutVersion, NameStart, Separators, Dashes
  <2> HIDE DEF u
  <2>5. /\ m \in Nat /\ 1 <= m /\ m <= Len(x)
        /\ x[m] = sep
        /\ \A k \in (m + 1) .. Len(x) : k - m \in 1 .. Len(u) /\ x[k] = u[k - m]
    BY <1>1, <2>2, <2>3, EndIs
  <2>6. Len(u) \in Nat /\ Len(x) \in Nat /\ Len(u) = Len(x) - m
    BY <2>2
  <2> HIDE DEF m
  <2>7. m \in 1 .. Len(x)
    BY <2>5, <2>6
  <2>8. NameStart(x, m) \in Seq(AnyToken)
    BY <2>7, NameStarts
  <2>9. ASSUME v[1] = "1" PROVE m \in UD!VersionTails(x, UD!UnicodeWord)
    <3>1. u \in Seq(UD!UnicodeWord) /\ Len(u) \in Nat \ {0} /\ u[1] = "1"
      BY <1>3, <2>9, SlugType DEF u
    <3>2. Len(u) # 0
      BY <3>1
    <3>3. m \in 1 .. Len(x) - 1 /\ m + 1 \in (m + 1) .. Len(x) /\ (m + 1) - m = 1
      BY <2>5, <2>6, <3>2
    <3>4. x[m + 1] = "1"
      BY <2>5, <3>1, <3>3, Zenon
    <3>5. ASSUME NEW k \in (m + 2) .. Len(x) PROVE x[k] \in UD!UnicodeWord
      <4>1. k \in (m + 1) .. Len(x)
        BY <2>5, <2>6
      <4>2. \A j \in 1 .. Len(u) : u[j] \in UD!UnicodeWord
        BY <3>1
      <4> QED
        BY <2>5, <4>1, <4>2, Zenon
    <3>6. x[m] \in {"-", "_"}
      BY <2>5 DEF Dashes
    <3> QED
      BY <3>3, <3>4, <3>5, <3>6, TailsAre, Zenon
  <2>10. v[1] = "1" => UD!CutTail(NameStart(x, m), UD!UnicodeWord) = UD!CutTail(x, UD!UnicodeWord)
    BY <2>9, CutTwice DEF WordSets
  <2> QED
    BY <1>3, <2>4, <2>8, <2>10
<1> QED
  BY <1>2, <1>3

\* The two programs cut alike where the name they show is of ASCII.
LEMMA CutsAgree ==
    ASSUME NEW x, x \in Seq(UD!UnicodeWord) \/ x = <<"uploaded">>,
           "e" \notin UD!Range(UD!CutTail(x, UD!AsciiWord))
    PROVE  UD!CutTail(x, UD!AsciiWord) = UD!CutTail(x, UD!UnicodeWord)
<1> DEFINE A == UD!AsciiWord
           U == UD!UnicodeWord
<1>1. A \subseteq U /\ U \ {"e"} \subseteq A /\ U \subseteq AnyToken /\ "uploaded" \in AnyToken
      /\ A \in WordSets /\ U \in WordSets
  BY DEF UD!AsciiWord, UD!UnicodeWord, UD!Token, AnyToken, WordSets
<1> HIDE DEF A, U
<1>2. x \in Seq(AnyToken)
  <2>1. x \in Seq(U) => x \in Seq(AnyToken)
    BY <1>1, SeqMonotonic
  <2>2. <<"uploaded">> \in Seq(AnyToken)
    BY <1>1
  <2> QED
    BY <2>1, <2>2 DEF U
<1>3. ASSUME x = <<"uploaded">> PROVE UD!VersionTails(x, A) = {} /\ UD!VersionTails(x, U) = {}
  <2>1. Len(x) = 1
    BY <1>3
  <2>2. ASSUME NEW W, NEW j \in UD!VersionTails(x, W) PROVE FALSE
    <3>1. Len(x) \in Nat /\ j \in Nat /\ 1 <= j /\ j + 1 <= Len(x)
      BY <1>2, TailPlaces
    <3> QED
      BY <2>1, <3>1
  <2> QED
    BY <2>2
<1>4. \A k \in 1 .. Len(x) : x # <<"uploaded">> => x[k] \in U
  BY DEF U
<1>5. UD!VersionTails(x, A) \subseteq UD!VersionTails(x, U)
  <2> SUFFICES ASSUME NEW j \in UD!VersionTails(x, A) PROVE j \in UD!VersionTails(x, U)
    OBVIOUS
  <2>1. \A k \in (j + 2) .. Len(x) : x[k] \in U
    BY <1>1, <1>2, TailsAre, Zenon
  <2> QED
    BY <1>2, <2>1, TailsAre, Zenon
<1>6. CASE x = <<"uploaded">>
  BY <1>3, <1>6 DEF A, U, UD!CutTail
<1>7. CASE x # <<"uploaded">> /\ UD!VersionTails(x, A) = {}
  <2>1. UD!CutTail(x, A) = x
    BY <1>7 DEF UD!CutTail
  <2>2. \A k \in 1 .. Len(x) : x[k] # "e"
    BY <1>2, <2>1 DEF UD!Range, A
  <2>3. \A k \in 1 .. Len(x) : x[k] \in A
    BY <1>1, <1>4, <1>7, <2>2
  <2>4. UD!VersionTails(x, U) \subseteq UD!VersionTails(x, A)
    <3> SUFFICES ASSUME NEW j \in UD!VersionTails(x, U) PROVE j \in UD!VersionTails(x, A)
      OBVIOUS
    <3>1. Len(x) \in Nat /\ j \in Nat /\ 1 <= j
      BY <1>2, TailPlaces
    <3>2. \A k \in (j + 2) .. Len(x) : k \in 1 .. Len(x)
      BY <3>1
    <3>3. \A k \in (j + 2) .. Len(x) : x[k] \in A
      BY <2>3, <3>2, Zenon
    <3> QED
      BY <1>2, <3>3, TailsAre, Zenon
  <2>5. UD!CutTail(x, U) = x
    BY <1>7, <2>4 DEF UD!CutTail
  <2> QED
    BY <2>1, <2>5 DEF A, U
<1>8. CASE x # <<"uploaded">> /\ UD!VersionTails(x, A) # {}
  <2> DEFINE i == UD!LeastOf(UD!VersionTails(x, A))
             l == UD!LeastOf(UD!VersionTails(x, U))
             y == NameStart(x, i)
  <2>1. /\ i \in UD!VersionTails(x, A) /\ UD!CutTail(x, A) = y
        /\ \A j \in UD!VersionTails(x, A) : i <= j
    BY <1>2, <1>8, CutIs
  <2>2. /\ l \in UD!VersionTails(x, U) /\ UD!CutTail(x, U) = NameStart(x, l)
        /\ \A j \in UD!VersionTails(x, U) : l <= j
    BY <1>2, <1>5, <1>8, CutIs
  <2> HIDE DEF i, l
  <2>3. Len(x) \in Nat /\ i \in Nat /\ 1 <= i /\ i + 1 <= Len(x) /\ l \in Nat /\ 1 <= l
    BY <1>2, <2>1, <2>2, TailPlaces
  <2>4. /\ x[i] \in {"-", "_"} /\ x[i + 1] = "1"
        /\ \A k \in (i + 2) .. Len(x) : x[k] \in A
    BY <1>2, <2>1, TailsAre, Zenon
  <2>5. i \in 1 .. Len(x)
    BY <2>3
  <2>6. y \in Seq(AnyToken) /\ Len(y) \in 0 .. i - 1
    BY <1>2, <2>5, NameStarts
  <2>7. /\ \A k \in 1 .. Len(y) : y[k] = x[k]
        /\ \A k \in (Len(y) + 1) .. (i - 1) : x[k] \in Separators
    BY <1>2, <2>5, NameStarts
  <2>8. \A k \in 1 .. Len(y) : y[k] # "e"
    <3>1. "e" \notin UD!Range(y)
      BY <2>1 DEF A
    <3> HIDE DEF y
    <3> QED
      BY <2>6, <3>1 DEF UD!Range
  <2> HIDE DEF y
  <2>9. l <= i
    BY <1>5, <2>1, <2>2
  <2>10. ASSUME NEW k \in (l + 2) .. Len(x) PROVE x[k] \in A
    <3>1. k \in 1 .. Len(x)
      BY <2>3
    <3>2. x[k] \in U
      BY <1>4, <1>8, <3>1, Zenon
    <3>3. \/ k \in 1 .. Len(y)
          \/ k \in (Len(y) + 1) .. (i - 1)
          \/ k = i \/ k = i + 1
          \/ k \in (i + 2) .. Len(x)
      BY <2>3, <2>6, <3>1
    <3>4. CASE k \in 1 .. Len(y)
      <4>1. x[k] # "e"
        BY <2>7, <2>8, <3>4, Zenon
      <4> QED
        BY <1>1, <3>2, <4>1
    <3>5. CASE k \in (Len(y) + 1) .. (i - 1)
      BY <1>1, <2>7, <3>5, WordsHold, Zenon
    <3>6. CASE k = i
      BY <1>1, <2>4, <3>6, WordsHold, Zenon
    <3>7. CASE k = i + 1
      BY <1>1, <2>4, <3>7, WordsHold, Zenon
    <3>8. CASE k \in (i + 2) .. Len(x)
      BY <2>4, <3>8, Zenon
    <3> QED
      BY <3>3, <3>4, <3>5, <3>6, <3>7, <3>8, Zenon
  <2>11. l \in UD!VersionTails(x, A)
    BY <1>2, <2>2, <2>10, TailsAre, Zenon
  <2>12. l = i
    <3>1. i <= l
      BY <2>1, <2>11
    <3> QED
      BY <2>3, <2>9, <3>1
  <2> QED
    BY <2>1, <2>2, <2>12 DEF A, U, y
<1> QED
  BY <1>6, <1>7, <1>8
-----------------------------------------------------------------------------
UploadFormType ==
    [file : InstallerFiles \cup {None}, displayName : Seq(UD!Token), name : Seq(UD!Token),
     subdir : Subdirs, catalogs : SUBSET CatalogNames]
UploadFields ==
    [file : InstallerFiles, displayName : Seq(UD!Token), name : Seq(UD!Token),
     subdir : Subdirs, catalogs : SUBSET CatalogNames]
UploadSent ==
    \/ upload = None
    \/ /\ \E p : upload \in [fields : UploadFields, stage : {"sent", "stored", "done"},
                             here : BOOLEAN, preview : {p}]
       /\ UD!trim(upload.fields.displayName) # <<>> /\ upload.fields.catalogs # {}
       /\ upload.preview = UD!CutTail(UD!slug(upload.fields.displayName), UD!AsciiWord)
UploadStored == \A b \in DOMAIN blobs : blobs[b] \in InstallerFiles
UploadRows ==
    /\ \A r \in uploadedRows : r.hash \in InstallerFiles /\ r.catalogs # {}
    /\ UD!DerivedNamesAreWhole /\ UD!PreviewIsTheName
UploadInv ==
    /\ uploadOpen \in BOOLEAN /\ place \in {"list", "item", "other"} /\ uploadForm \in UploadFormType
    /\ UploadSent /\ UploadStored /\ UploadRows

LEMMA UploadInit == ASSUME UD!UploadAssumption, UD!Init PROVE UploadInv
<1>1. uploadForm \in UploadFormType
  <2>1. <<>> \in Seq(UD!Token)
    OBVIOUS
  <2> QED
    BY <2>1 DEF UD!UploadAssumption, UD!Init, UD!EmptyForm, UploadFormType
<1>2. UploadStored
  BY DEF UD!Init, UploadStored
<1> QED
  BY <1>1, <1>2 DEF UD!Init, UploadInv, UploadSent, UploadRows, UD!DerivedNamesAreWhole, UD!PreviewIsTheName

\* The name the server derives.
LEMMA DerivedName ==
    ASSUME UD!UploadAssumption, NEW d \in Seq(UD!Token), NEW f \in InstallerFiles, UD!trim(d) # <<>>
    PROVE  LET n == UD!derive_name(<<>>, d, f)
               p == UD!CutTail(UD!slug(d), UD!AsciiWord)
           IN  /\ UD!VersionTails(n, UD!UnicodeWord) = {}
               /\ "e" \notin UD!Range(p) /\ (f.version = <<>> \/ f.version[1] = "1") => p = n
<1> DEFINE x == UD!slug(d)
           U == UD!UnicodeWord
<1>1. x \in Seq(U) \/ x = <<"uploaded">>
  BY SlugType
<1>2. x \in Seq(AnyToken)
  <2>1. U \subseteq AnyToken /\ "uploaded" \in AnyToken
    BY DEF AnyToken, UD!Token
  <2>2. x \in Seq(U) => x \in Seq(AnyToken)
    BY <2>1, SeqMonotonic
  <2>3. <<"uploaded">> \in Seq(AnyToken)
    BY <2>1
  <2> QED
    BY <1>1, <2>2, <2>3
<1>3. f.version \in Seq(UD!Token)
  BY DEF UD!UploadAssumption, UD!Name
<1>4. UD!trim(<<>>) = <<>>
  <2>1. UD!Keep(<<>>, {" "}) = {}
    BY DEF UD!Keep
  <2> QED
    BY <2>1 DEF UD!trim, UD!StripBoth
<1>5. UD!derive_name(<<>>, d, f) = UD!CutTail(UD!CutVersion(x, f.version), U)
  BY <1>4 DEF UD!derive_name
<1> HIDE DEF x
<1>6. UD!CutVersion(x, f.version) \in Seq(AnyToken)
  BY <1>2, <1>3, VersionIsATail
<1>7. UD!VersionTails(UD!CutTail(UD!CutVersion(x, f.version), U), U) = {}
  BY <1>6, CutIsWhole DEF WordSets
<1>8. ASSUME "e" \notin UD!Range(UD!CutTail(x, UD!AsciiWord)), f.version = <<>> \/ f.version[1] = "1"
      PROVE  UD!CutTail(x, UD!AsciiWord) = UD!CutTail(UD!CutVersion(x, f.version), U)
  <2>1. UD!CutTail(x, UD!AsciiWord) = UD!CutTail(x, U)
    BY <1>1, <1>8, CutsAgree
  <2> QED
    BY <1>2, <1>3, <1>8, <2>1, VersionIsATail
<1> QED
  BY <1>5, <1>7, <1>8 DEF x

\* Only a click changes the form.
LEMMA UploadFormStep ==
    ASSUME UD!UploadAssumption, uploadForm \in UploadFormType, UD!Next
    PROVE  uploadForm' \in UploadFormType
<1>1. TypedNames \subseteq Seq(UD!Token) /\ \A f \in InstallerFiles : f.stem \in Seq(UD!Token)
  BY DEF UD!UploadAssumption, UD!Name
<1>2. UD!EmptyForm \in UploadFormType
  <2>1. <<>> \in Seq(UD!Token)
    OBVIOUS
  <2> QED
    BY <2>1 DEF UD!UploadAssumption, UD!EmptyForm, UploadFormType
<1>3. ASSUME NEW f \in InstallerFiles \cup {None}, UD!ChooseFile(f) PROVE uploadForm' \in UploadFormType
  BY <1>1, <1>3 DEF UD!ChooseFile, UploadFormType
<1>4. CASE UD!TypeNames
  BY <1>1, <1>4 DEF UD!TypeNames, UploadFormType
<1>5. CASE UD!TypeSubdir
  BY <1>5 DEF UD!TypeSubdir, UploadFormType
<1>6. CASE UD!TickCatalog
  BY <1>6 DEF UD!TickCatalog, UploadFormType
<1> QED
  BY <1>2, <1>3, <1>4, <1>5, <1>6 DEF UD!Next, UD!OpenDialog, UD!Dismiss, UD!Cancel, UD!onSubmit,
     UD!StoreFile, UD!upload_software, UD!UploadSucceeds, UD!UploadFails, UD!LeavePage, UD!dialogVars

LEMMA SubmitStep ==
    ASSUME UD!UploadAssumption, uploadForm \in UploadFormType, UD!onSubmit
    PROVE  UploadSent'
<1> DEFINE d == uploadForm.displayName
           fields == UD!SoftwareUploadFields
<1>1. d \in Seq(UD!Token) /\ uploadForm.name \in Seq(UD!Token) /\ uploadForm.file \in InstallerFiles
  BY DEF UploadFormType, UD!onSubmit
<1>2. UD!trim(d) # <<>>
  BY DEF UD!onSubmit
<1>3. UD!trim(UD!trim(d)) = UD!trim(d) /\ UD!trim(d) \in Seq(UD!Token)
      /\ UD!trim(uploadForm.name) \in Seq(UD!Token)
  BY <1>1, TrimTwice
<1>4. fields \in UploadFields /\ fields.catalogs # {} /\ fields.displayName = UD!trim(d)
  BY <1>1, <1>3 DEF UD!SoftwareUploadFields, UploadFields, UploadFormType, UD!UploadAssumption
<1>5. UD!slug(UD!trim(d)) = UD!slug(d)
  BY <1>3 DEF UD!slug
<1>6. UD!deriveAutoName(d, uploadForm.file) = UD!CutTail(UD!slug(UD!trim(d)), UD!AsciiWord)
  BY <1>2, <1>5 DEF UD!deriveAutoName
<1> HIDE DEF fields
<1>7. upload' = [fields |-> fields, stage |-> "sent", here |-> TRUE,
                 preview |-> UD!deriveAutoName(d, uploadForm.file)]
  BY DEF UD!onSubmit, fields
<1> QED
  BY <1>2, <1>3, <1>4, <1>6, <1>7 DEF UploadSent

LEMMA RowStep ==
    ASSUME UD!UploadAssumption, UploadSent, UploadRows, UD!upload_software
    PROVE  UploadRows'
<1> DEFINE fields == upload.fields
           n == UD!derive_name(fields.name, fields.displayName, fields.file)
           new == [name |-> n, auto |-> fields.name = <<>>, preview |-> upload.preview,
                   location |-> UD!Location(fields), hash |-> fields.file,
                   catalogs |-> fields.catalogs, pending_metadata |-> fields.file.version = <<>>]
<1>1. uploadedRows' = uploadedRows \cup {new}
  BY DEF UD!upload_software
<1>2. /\ fields \in UploadFields /\ UD!trim(fields.displayName) # <<>> /\ fields.catalogs # {}
      /\ upload.preview = UD!CutTail(UD!slug(fields.displayName), UD!AsciiWord)
  BY DEF UploadSent, UD!upload_software
<1>3. fields.file \in InstallerFiles /\ fields.displayName \in Seq(UD!Token)
  BY <1>2 DEF UploadFields
<1>4. PICK d \in Seq(UD!Token) : d = fields.displayName
  BY <1>3
<1>5. PICK f \in InstallerFiles : f = fields.file
  BY <1>3
<1>6. LET p == UD!CutTail(UD!slug(d), UD!AsciiWord)
      IN  /\ UD!VersionTails(UD!derive_name(<<>>, d, f), UD!UnicodeWord) = {}
          /\ "e" \notin UD!Range(p) /\ (f.version = <<>> \/ f.version[1] = "1")
                => p = UD!derive_name(<<>>, d, f)
  BY <1>2, <1>4, DerivedName
<1>7. /\ new.hash = f /\ new.catalogs # {} /\ new.preview = UD!CutTail(UD!slug(d), UD!AsciiWord)
      /\ new.auto => new.name = UD!derive_name(<<>>, d, f)
  BY <1>2, <1>4, <1>5
<1> HIDE DEF new
<1>8. \A r \in uploadedRows' : r.hash \in InstallerFiles /\ r.catalogs # {}
  BY <1>1, <1>7 DEF UploadRows
<1>9. UD!DerivedNamesAreWhole'
  BY <1>1, <1>6, <1>7 DEF UploadRows, UD!DerivedNamesAreWhole
<1>10. UD!PreviewIsTheName'
  BY <1>1, <1>6, <1>7 DEF UploadRows, UD!PreviewIsTheName
<1> QED
  BY <1>8, <1>9, <1>10 DEF UploadRows

LEMMA UploadNext == ASSUME UD!UploadAssumption, UploadInv, UD!Next PROVE UploadInv'
<1>1. UploadSent /\ UploadStored /\ UploadRows /\ uploadForm \in UploadFormType
  BY DEF UploadInv
<1>2. uploadForm' \in UploadFormType
  BY <1>1, UploadFormStep
<1>3. uploadOpen' \in BOOLEAN /\ place' \in {"list", "item", "other"}
  BY DEF UploadInv, UD!Next, UD!OpenDialog, UD!Dismiss, UD!Cancel, UD!ChooseFile, UD!TypeNames,
     UD!TypeSubdir, UD!TickCatalog, UD!onSubmit, UD!StoreFile, UD!upload_software,
     UD!UploadSucceeds, UD!UploadFails, UD!LeavePage, UD!dialogVars
<1>4. UNCHANGED upload => UploadSent'
  BY <1>1 DEF UploadSent
<1>5. UNCHANGED blobs => UploadStored'
  BY <1>1 DEF UploadStored
<1>6. UNCHANGED uploadedRows => UploadRows'
  BY <1>1 DEF UploadRows, UD!DerivedNamesAreWhole, UD!PreviewIsTheName
<1>7. SUFFICES UploadSent' /\ UploadStored' /\ UploadRows'
  BY <1>2, <1>3 DEF UploadInv
<1>8. CASE UNCHANGED <<upload, blobs, uploadedRows>>
  BY <1>4, <1>5, <1>6, <1>8
<1>9. CASE UD!onSubmit
  BY <1>1, <1>5, <1>6, <1>9, SubmitStep DEF UD!onSubmit
<1>10. CASE UD!StoreFile
  <2>1. UploadSent'
    BY <1>1, <1>10 DEF UD!StoreFile, UploadSent
  <2>2. UploadStored'
    <3>1. upload.fields.file \in InstallerFiles
      BY <1>1, <1>10 DEF UD!StoreFile, UploadSent, UploadFields
    <3> QED
      BY <1>1, <1>10, <3>1 DEF UD!StoreFile, UploadStored
  <2> QED
    BY <1>6, <1>10, <2>1, <2>2 DEF UD!StoreFile
<1>11. CASE UD!upload_software
  <2>1. UploadSent'
    BY <1>1, <1>11 DEF UD!upload_software, UploadSent
  <2> QED
    BY <1>1, <1>5, <1>11, <2>1, RowStep DEF UD!upload_software
<1>12. CASE upload' = None /\ UNCHANGED <<blobs, uploadedRows>>
  BY <1>5, <1>6, <1>12 DEF UploadSent
<1>13. ASSUME NEW p \in {"list", "other"}, UD!LeavePage(p) PROVE UploadSent' /\ UploadStored' /\ UploadRows'
  <2>1. UploadSent'
    BY <1>1, <1>13 DEF UD!LeavePage, UploadSent
  <2> QED
    BY <1>5, <1>6, <1>13, <2>1 DEF UD!LeavePage
<1> QED
  BY <1>8, <1>9, <1>10, <1>11, <1>12, <1>13 DEF UD!Next, UD!OpenDialog, UD!Dismiss, UD!Cancel,
     UD!ChooseFile, UD!TypeNames, UD!TypeSubdir, UD!TickCatalog, UD!UploadSucceeds, UD!UploadFails

LEMMA UploadImply ==
    ASSUME UploadInv
    PROVE  UD!UploadTypeOK /\ UD!DerivedNamesAreWhole /\ UD!PreviewIsTheName
BY DEF UploadInv, UploadFormType, UploadStored, UploadRows, UD!UploadTypeOK

-----------------------------------------------------------------------------
(* ManifestEditor. *)

LEMMA ManifestCardinality == \A S : ME!Cardinality(S) = Cardinality(S)
BY DEF Cardinality, ME!Cardinality, IsFiniteSet, ME!IsFiniteSet

LEMMA ManifestFinite == \A S : ME!IsFiniteSet(S) <=> IsFiniteSet(S)
BY DEF IsFiniteSet, ME!IsFiniteSet

\* Every place of a finite set of naturals is taken.
LEMMA PlaceIsTaken ==
    ASSUME NEW n \in Nat, NEW S \in SUBSET (1 .. n), NEW k \in 1 .. Cardinality(S)
    PROVE  \E i \in S : Cardinality({j \in S : j <= i}) = k
<1> DEFINE upTo(i) == {j \in S : j <= i}
           reached == {i \in 0 .. n : Cardinality(upTo(i)) >= k}
<1>0. \A j \in S : j \in Int /\ 1 <= j /\ j <= n
  OBVIOUS
<1>1. IsFiniteSet(S)
  <2>1. IsFiniteSet(1 .. n)
    BY FS_Interval
  <2> QED
    BY <2>1, FS_Subset
<1>2. \A i : IsFiniteSet(upTo(i)) /\ Cardinality(upTo(i)) \in Nat
  BY <1>1, FS_Subset, FS_CardinalityType
<1>3. upTo(n) = S
  BY <1>0
<1>4. Cardinality(S) \in Nat
  BY <1>1, FS_CardinalityType
<1>5. n \in reached
  BY <1>3, <1>4
<1>6. PICK i \in reached : \A m \in reached : i <= m
  <2>1. reached \subseteq 0 .. n
    BY Zenon
  <2>2. 0 .. n \subseteq Nat
    OBVIOUS
  <2>3. reached \in SUBSET Nat /\ reached # {}
    BY <1>5, <2>1, <2>2, Zenon
  <2> HIDE DEF reached
  <2> QED
    BY <2>3, LeastMember
<1>7. upTo(0) = {}
  <2>1. \A j \in S : ~(j <= 0)
    BY <1>0
  <2> QED
    BY <2>1
<1>8. i # 0
  BY <1>6, <1>7, FS_EmptySet
<1> HIDE DEF upTo
<1>9. i \in 1 .. n /\ i - 1 \in 0 .. n /\ ~(i <= i - 1)
  BY <1>6, <1>8
<1>10. Cardinality(upTo(i - 1)) < k /\ Cardinality(upTo(i)) >= k
  BY <1>2, <1>6, <1>9
<1>11. upTo(i) = IF i \in S THEN upTo(i - 1) \cup {i} ELSE upTo(i - 1)
  <2>1. \A j \in S : j <= i <=> j <= i - 1 \/ j = i
    BY <1>0, <1>9
  <2>2. i \in S => upTo(i) = upTo(i - 1) \cup {i}
    BY <2>1, <1>9 DEF upTo
  <2>3. i \notin S => upTo(i) = upTo(i - 1)
    BY <2>1 DEF upTo
  <2> QED
    BY <2>2, <2>3
<1>12. i \in S
  BY <1>10, <1>11, <1>2
<1>13. Cardinality(upTo(i)) <= Cardinality(upTo(i - 1)) + 1
  <2>1. Cardinality(upTo(i - 1) \cup {i})
           = IF i \in upTo(i - 1) THEN Cardinality(upTo(i - 1)) ELSE Cardinality(upTo(i - 1)) + 1
    BY <1>2, FS_AddElement
  <2> QED
    BY <1>2, <1>11, <1>12, <2>1
<1>14. Cardinality(upTo(i)) = k
  BY <1>2, <1>10, <1>13
<1> QED
  BY <1>12, <1>14 DEF upTo

-----------------------------------------------------------------------------
(* A section's list: operations that keep it free of what is the same.     *)

Same(x, y) == x = y \/ (ME!baseName(x) = ME!baseName(y) /\ ME!baseName(x) \notin ME!Misread)
Section == {s \in Seq(ME!Refs) : \A i, j \in DOMAIN s : Same(s[i], s[j]) => i = j}

LEMMA SameIsSymmetric == \A x, y : Same(x, y) => Same(y, x)
BY DEF Same

\* A name that is offered is not the same as what the list holds, unless it is in it.
LEMMA OfferedIsNew ==
    ASSUME NEW s \in Section, NEW x \in ManifestItems,
           x \notin ME!manifestItemBaseNamesInUse(s), x \notin ME!Range(s)
    PROVE  x \in ME!Refs /\ \A i \in DOMAIN s : ~Same(s[i], x)
<1>1. x \in ME!Refs
  BY DEF ME!Refs
<1>2. ME!baseName(x) # x => ME!baseName(x) \in ME!Misread
  BY DEF ME!Misread
<1>3. \A i \in DOMAIN s : s[i] # x /\ ME!baseName(s[i]) # x
  BY DEF ME!manifestItemBaseNamesInUse, ME!Range
<1> QED
  BY <1>1, <1>2, <1>3 DEF Same

\* What is picked for a reference is read as the same software, or is misread.
LEMMA PickedIsRead ==
    ASSUME ME!RefsAreReadBack, NEW ref \in ME!Refs, NEW x \in ME!Picks(ME!baseName(ref))
    PROVE  /\ x \in ME!Refs
           /\ ME!baseName(x) = ME!baseName(ref) \/ ME!baseName(x) \in ME!Misread
<1> DEFINE name == ME!baseName(ref)
<1>1. /\ \A y \in ManifestItems, v \in ItemVersions : ME!baseName(ME!formatManifestItemRef(y, v)) = y
      /\ \A y \in ManifestItems : ME!baseName(ME!baseName(y)) = ME!baseName(y)
  BY DEF ME!RefsAreReadBack
<1>2. CASE x = name
  <2>1. CASE ref \in ManifestItems
    BY <1>1, <1>2, <2>1 DEF ME!Refs
  <2>2. ASSUME NEW y \in ManifestItems, ref = ME!baseName(y) PROVE x \in ME!Refs /\ ME!baseName(x) = name
    BY <1>1, <1>2, <2>2 DEF ME!Refs
  <2>3. ASSUME NEW y \in ManifestItems, NEW v \in ItemVersions, ref = ME!formatManifestItemRef(y, v)
        PROVE  x \in ME!Refs /\ (ME!baseName(x) = name \/ ME!baseName(x) \in ME!Misread)
    <3>1. x = y /\ name = y
      BY <1>1, <1>2, <2>3
    <3> QED
      BY <3>1 DEF ME!Refs, ME!Misread
  <2> QED
    BY <2>1, <2>2, <2>3 DEF ME!Refs
<1>3. CASE x # name
  <2>1. PICK v \in ItemVersions : name \in ManifestItems /\ x = ME!formatManifestItemRef(name, v)
    BY <1>3 DEF ME!Picks
  <2>2. x \in ME!Refs
    BY <2>1 DEF ME!Refs
  <2> QED
    BY <1>1, <2>1, <2>2
<1> QED
  BY <1>2, <1>3

LEMMA AddRef ==
    ASSUME NEW s \in Section, NEW x \in ME!Refs, \A i \in DOMAIN s : ~Same(s[i], x)
    PROVE  Append(s, x) \in Section
<1>1. s \in Seq(ME!Refs) /\ \A i, j \in DOMAIN s : Same(s[i], s[j]) => i = j
  BY DEF Section
<1>2. \A i \in DOMAIN s : ~Same(x, s[i])
  BY SameIsSymmetric
<1>3. DOMAIN s = 1 .. Len(s) /\ Len(s) \in Nat
  BY <1>1
<1> DEFINE t == Append(s, x)
<1>4. /\ t \in Seq(ME!Refs) /\ Len(t) = Len(s) + 1
      /\ \A i \in 1 .. Len(s) : t[i] = s[i]
      /\ t[Len(s) + 1] = x
  BY <1>1, AppendProperties
<1>5. DOMAIN t = 1 .. Len(s) + 1
  BY <1>4
<1> HIDE DEF t
<1>6. ASSUME NEW i \in DOMAIN t, NEW j \in DOMAIN t, Same(t[i], t[j]) PROVE i = j
  <2>1. \A k \in DOMAIN t : (k \in DOMAIN s /\ t[k] = s[k]) \/ (k = Len(s) + 1 /\ t[k] = x)
    BY <1>3, <1>4, <1>5
  <2>2. CASE i \in DOMAIN s /\ t[i] = s[i]
    <3>1. CASE j \in DOMAIN s /\ t[j] = s[j]
      BY <1>1, <1>6, <2>2, <3>1
    <3>2. CASE j = Len(s) + 1 /\ t[j] = x
      <4>1. Same(s[i], x)
        BY <1>6, <2>2, <3>2, Zenon
      <4> QED
        BY <2>2, <4>1
    <3> QED
      BY <2>1, <3>1, <3>2
  <2>3. CASE i = Len(s) + 1 /\ t[i] = x
    <3>1. CASE j \in DOMAIN s /\ t[j] = s[j]
      <4>1. Same(x, s[j])
        BY <1>6, <2>3, <3>1, Zenon
      <4> QED
        BY <1>2, <3>1, <4>1
    <3>2. CASE j = Len(s) + 1 /\ t[j] = x
      BY <2>3, <3>2
    <3> QED
      BY <2>1, <3>1, <3>2
  <2> QED
    BY <2>1, <2>2, <2>3
<1>7. t \in Section
  BY <1>4, <1>6 DEF Section
<1> QED
  BY <1>7 DEF t

LEMMA ReplaceRef ==
    ASSUME NEW s \in Section, NEW i \in DOMAIN s, NEW x \in ME!Refs, x \notin ME!Range(s),
           ME!baseName(x) = ME!baseName(s[i]) \/ ME!baseName(x) \in ME!Misread
    PROVE  [s EXCEPT ![i] = x] \in Section
<1>1. s \in Seq(ME!Refs) /\ \A a, b \in DOMAIN s : Same(s[a], s[b]) => a = b
  BY DEF Section
<1>2. \A j \in DOMAIN s : j # i => ~Same(s[j], x)
  <2>1. ASSUME NEW j \in DOMAIN s, j # i PROVE ~Same(s[j], x)
    <3>1. s[j] # x /\ ~Same(s[j], s[i])
      BY <1>1, <2>1 DEF ME!Range
    <3> QED
      BY <3>1 DEF Same
  <2> QED
    BY <2>1
<1>3. \A j \in DOMAIN s : j # i => ~Same(x, s[j])
  BY <1>2, SameIsSymmetric
<1> DEFINE t == [s EXCEPT ![i] = x]
<1>4. t \in Seq(ME!Refs) /\ DOMAIN t = DOMAIN s
      /\ \A j \in DOMAIN s : t[j] = IF j = i THEN x ELSE s[j]
  BY <1>1, ExceptSeq
<1> HIDE DEF t
<1>5. \A a, b \in DOMAIN t : Same(t[a], t[b]) => a = b
  BY <1>1, <1>2, <1>3, <1>4
<1>6. t \in Section
  BY <1>4, <1>5 DEF Section
<1> QED
  BY <1>6 DEF t

\* Members of a section in another order, none of them twice.
LEMMA Rearranged ==
    ASSUME NEW s \in Section, NEW n \in Nat, NEW t \in [1 .. n -> ME!Refs],
           NEW from \in [1 .. n -> DOMAIN s],
           \A k \in 1 .. n : t[k] = s[from[k]],
           \A k, l \in 1 .. n : from[k] = from[l] => k = l
    PROVE  t \in Section
<1>1. t \in Seq(ME!Refs) /\ DOMAIN t = 1 .. n
  BY SeqDef
<1>2. \A k, l \in DOMAIN t : Same(t[k], t[l]) => k = l
  BY <1>1 DEF Section
<1> QED
  BY <1>1, <1>2 DEF Section

LEMMA RemoveRef ==
    ASSUME NEW s \in Section, NEW x
    PROVE  ME!Without(s, x) \in Section
<1> DEFINE kept == {i \in DOMAIN s : s[i] # x}
           rank(i) == Cardinality({j \in kept : j <= i})
           n == Cardinality(kept)
           from == [k \in 1 .. n |-> CHOOSE i \in kept : rank(i) = k]
           t == [k \in 1 .. n |-> s[from[k]]]
<1>1. s \in Seq(ME!Refs) /\ Len(s) \in Nat /\ DOMAIN s = 1 .. Len(s)
  BY DEF Section
<1>2. kept \in SUBSET (1 .. Len(s))
  BY <1>1
<1>3. n \in Nat
  <2>1. IsFiniteSet(1 .. Len(s))
    BY <1>1, FS_Interval
  <2> HIDE DEF kept
  <2> QED
    BY <1>2, <2>1, FS_Subset, FS_CardinalityType
<1>4. ASSUME NEW k \in 1 .. n PROVE from[k] \in kept /\ rank(from[k]) = k
  <2>1. \E i \in kept : rank(i) = k
    <3> HIDE DEF kept
    <3> QED
      BY <1>1, <1>2, PlaceIsTaken
  <2> HIDE DEF kept, rank, n
  <2> QED
    BY <2>1
<1>5. ME!Without(s, x) = t
  <2>1. ME!Without(s, x) = [k \in 1 .. ME!Cardinality(kept) |->
                               s[CHOOSE i \in kept : ME!Cardinality({j \in kept : j <= i}) = k]]
    BY DEF ME!Without
  <2> HIDE DEF kept
  <2> QED
    BY <2>1, ManifestCardinality
<1> HIDE DEF n, rank, from
<1>6. from \in [1 .. n -> DOMAIN s]
  BY <1>4 DEF from
<1>7. \A k, l \in 1 .. n : from[k] = from[l] => k = l
  BY <1>4
<1>8. t \in [1 .. n -> ME!Refs]
  BY <1>1, <1>6
<1>9. \A k \in 1 .. n : t[k] = s[from[k]]
  OBVIOUS
<1> HIDE DEF t
<1>10. t \in Section
  BY <1>3, <1>6, <1>7, <1>8, <1>9, Rearranged
<1> QED
  BY <1>5, <1>10

LEMMA MoveRef ==
    ASSUME NEW s \in Section, NEW a \in DOMAIN s, NEW b \in DOMAIN s
    PROVE  ME!InsertAt(ME!RemoveAt(s, a), b, s[a]) \in Section
<1> DEFINE n == Len(s)
           r == ME!RemoveAt(s, a)
           t == ME!InsertAt(r, b, s[a])
           old_(k) == IF k < a THEN k ELSE k + 1
           from == [k \in 1 .. n |-> IF k = b THEN a ELSE IF k < b THEN old_(k) ELSE old_(k - 1)]
<1>1. s \in Seq(ME!Refs) /\ n \in Nat /\ DOMAIN s = 1 .. n /\ a \in 1 .. n /\ b \in 1 .. n
  BY DEF Section
<1>2. s[a] \in ME!Refs /\ \A k \in 1 .. n : s[k] \in ME!Refs
  BY <1>1
<1>3. /\ r \in Seq(ME!Refs) /\ Len(r) = n - 1
      /\ \A k \in 1 .. n - 1 : r[k] = s[old_(k)]
  <2>1. /\ SubSeq(s, 1, a - 1) \in Seq(ME!Refs)
        /\ Len(SubSeq(s, 1, a - 1)) = a - 1
        /\ \A k \in 1 .. a - 1 : SubSeq(s, 1, a - 1)[k] = s[k]
    <3>1. /\ SubSeq(s, 1, a - 1) \in Seq(ME!Refs)
          /\ Len(SubSeq(s, 1, a - 1)) = IF 1 <= a - 1 THEN (a - 1) - 1 + 1 ELSE 0
          /\ \A k \in 1 .. (a - 1) - 1 + 1 : SubSeq(s, 1, a - 1)[k] = s[1 + k - 1]
      BY <1>1, <1>2, SubSeqProperties
    <3> QED
      BY <1>1, <3>1
  <2>2. /\ SubSeq(s, a + 1, n) \in Seq(ME!Refs)
        /\ Len(SubSeq(s, a + 1, n)) = n - a
        /\ \A k \in 1 .. n - a : SubSeq(s, a + 1, n)[k] = s[a + k]
    <3>1. /\ SubSeq(s, a + 1, n) \in Seq(ME!Refs)
          /\ Len(SubSeq(s, a + 1, n)) = IF a + 1 <= n THEN n - (a + 1) + 1 ELSE 0
          /\ \A k \in 1 .. n - (a + 1) + 1 : SubSeq(s, a + 1, n)[k] = s[(a + 1) + k - 1]
      BY <1>1, <1>2, SubSeqProperties
    <3> QED
      BY <1>1, <3>1
  <2>3. r = SubSeq(s, 1, a - 1) \o SubSeq(s, a + 1, n)
    BY DEF ME!RemoveAt
  <2> DEFINE p == SubSeq(s, 1, a - 1)
             q == SubSeq(s, a + 1, n)
  <2> HIDE DEF p, q, r
  <2>4. /\ p \o q \in Seq(ME!Refs) /\ Len(p \o q) = Len(p) + Len(q)
        /\ \A k \in 1 .. Len(p) + Len(q) : (p \o q)[k] = IF k <= Len(p) THEN p[k] ELSE q[k - Len(p)]
    BY <2>1, <2>2, ConcatProperties DEF p, q
  <2>5. Len(p) = a - 1 /\ Len(q) = n - a /\ r = p \o q
    BY <2>1, <2>2, <2>3 DEF p, q
  <2>6. ASSUME NEW k \in 1 .. n - 1 PROVE r[k] = s[old_(k)]
    <3>1. r[k] = IF k <= a - 1 THEN p[k] ELSE q[k - (a - 1)]
      <4>1. Len(p) + Len(q) = n - 1
        BY <1>1, <2>5
      <4>2. (p \o q)[k] = IF k <= Len(p) THEN p[k] ELSE q[k - Len(p)]
        BY <2>4, <4>1, Zenon
      <4> QED
        BY <2>5, <4>2, Zenon
    <3>2. CASE k <= a - 1
      BY <1>1, <2>1, <3>1, <3>2 DEF p
    <3>3. CASE k > a - 1
      <4>1. k - (a - 1) \in 1 .. n - a /\ a + (k - (a - 1)) = k + 1
        BY <1>1, <3>3
      <4>2. q[k - (a - 1)] = s[a + (k - (a - 1))]
        BY <2>2, <4>1 DEF q
      <4> QED
        BY <1>1, <3>1, <3>3, <4>1, <4>2
    <3> QED
      BY <1>1, <3>2, <3>3
  <2>7. Len(r) = n - 1
    <3>1. Len(r) = (a - 1) + (n - a)
      BY <2>4, <2>5
    <3> QED
      BY <1>1, <3>1
  <2> QED
    BY <2>4, <2>5, <2>6, <2>7
<1> HIDE DEF r
<1>4. /\ t \in Seq(ME!Refs) /\ Len(t) = n
      /\ \A k \in 1 .. n : t[k] = IF k < b THEN r[k] ELSE IF k = b THEN s[a] ELSE r[k - 1]
  <2> DEFINE p == SubSeq(r, 1, b - 1)
             q == SubSeq(r, b, Len(r))
             e == <<s[a]>>
  <2>1. \A k \in 1 .. n - 1 : r[k] \in ME!Refs
    BY <1>3
  <2>2. p \in Seq(ME!Refs) /\ Len(p) = b - 1 /\ \A k \in 1 .. b - 1 : p[k] = r[k]
    <3>1. /\ p \in Seq(ME!Refs)
          /\ Len(p) = IF 1 <= b - 1 THEN (b - 1) - 1 + 1 ELSE 0
          /\ \A k \in 1 .. (b - 1) - 1 + 1 : p[k] = r[1 + k - 1]
      BY <1>1, <2>1, SubSeqProperties
    <3> QED
      BY <1>1, <3>1
  <2>3. q \in Seq(ME!Refs) /\ Len(q) = n - b /\ \A k \in 1 .. n - b : q[k] = r[b + k - 1]
    <3>1. /\ q \in Seq(ME!Refs)
          /\ Len(q) = IF b <= n - 1 THEN (n - 1) - b + 1 ELSE 0
          /\ \A k \in 1 .. (n - 1) - b + 1 : q[k] = r[b + k - 1]
      BY <1>1, <1>3, <2>1, SubSeqProperties
    <3>2. n \in Nat /\ b \in 1 .. n /\ (n - 1) - b + 1 = n - b
      BY <1>1
    <3>3. Len(q) = n - b
      BY <3>1, <3>2
    <3> QED
      BY <3>1, <3>2, <3>3, Zenon
  <2>4. e \in Seq(ME!Refs) /\ Len(e) = 1 /\ e[1] = s[a]
    BY <1>2
  <2>5. t = (p \o e) \o q
    BY DEF ME!InsertAt
  <2> HIDE DEF p, q, e, t
  <2>6. /\ p \o e \in Seq(ME!Refs) /\ Len(p \o e) = b
        /\ \A k \in 1 .. b : (p \o e)[k] = IF k < b THEN p[k] ELSE s[a]
    <3>1. /\ p \o e \in Seq(ME!Refs) /\ Len(p \o e) = Len(p) + Len(e)
          /\ \A k \in 1 .. Len(p) + Len(e) :
                (p \o e)[k] = IF k <= Len(p) THEN p[k] ELSE e[k - Len(p)]
      BY <2>2, <2>4, ConcatProperties
    <3>2. Len(p) + Len(e) = b
      BY <1>1, <2>2, <2>4
    <3>3. ASSUME NEW k \in 1 .. b PROVE (p \o e)[k] = IF k < b THEN p[k] ELSE s[a]
      <4>1. (p \o e)[k] = IF k <= b - 1 THEN p[k] ELSE e[k - (b - 1)]
        BY <2>2, <3>1, <3>2
      <4>2. k >= b => k - (b - 1) = 1
        BY <1>1
      <4> QED
        BY <1>1, <2>4, <4>1, <4>2
    <3> QED
      BY <3>1, <3>2, <3>3
  <2>7. /\ t \in Seq(ME!Refs) /\ Len(t) = n
        /\ \A k \in 1 .. n : t[k] = IF k <= b THEN (p \o e)[k] ELSE q[k - b]
    <3> DEFINE pe == p \o e
    <3> HIDE DEF pe
    <3>1. pe \in Seq(ME!Refs) /\ Len(pe) = b /\ t = pe \o q
      BY <2>5, <2>6 DEF pe
    <3>2. /\ pe \o q \in Seq(ME!Refs) /\ Len(pe \o q) = Len(pe) + Len(q)
          /\ \A k \in 1 .. Len(pe) + Len(q) :
                (pe \o q)[k] = IF k <= Len(pe) THEN pe[k] ELSE q[k - Len(pe)]
      BY <2>3, <3>1, ConcatProperties
    <3>3. Len(pe) + Len(q) = n
      BY <1>1, <2>3, <3>1
    <3> QED
      BY <3>1, <3>2, <3>3 DEF pe
  <2>8. ASSUME NEW k \in 1 .. n
        PROVE  t[k] = IF k < b THEN r[k] ELSE IF k = b THEN s[a] ELSE r[k - 1]
    <3>1. CASE k < b
      BY <1>1, <2>2, <2>6, <2>7, <3>1
    <3>2. CASE k = b
      BY <1>1, <2>4, <2>6, <2>7, <3>2
    <3>3. CASE k > b
      <4>1. k - b \in 1 .. n - b /\ b + (k - b) - 1 = k - 1
        BY <1>1, <3>3
      <4>2. q[k - b] = r[k - 1]
        BY <2>3, <4>1
      <4> QED
        BY <1>1, <2>7, <3>3, <4>2
    <3> QED
      BY <1>1, <3>1, <3>2, <3>3
  <2> QED
    BY <2>7, <2>8
<1> HIDE DEF t
<1>5. from \in [1 .. n -> DOMAIN s] /\ \A k, l \in 1 .. n : from[k] = from[l] => k = l
  <2> HIDE DEF n
  <2> QED
    BY <1>1
<1>6. \A k \in 1 .. n : t[k] = s[from[k]]
  <2> SUFFICES ASSUME NEW k \in 1 .. n PROVE t[k] = s[from[k]]
    OBVIOUS
  <2>1. CASE k < b
    <3>1. k \in 1 .. n - 1 /\ from[k] = old_(k)
      BY <1>1, <2>1
    <3> QED
      BY <1>3, <1>4, <2>1, <3>1
  <2>2. CASE k = b
    BY <1>1, <1>4, <2>2
  <2>3. CASE k > b
    <3>1. k - 1 \in 1 .. n - 1 /\ from[k] = old_(k - 1)
      BY <1>1, <2>3
    <3> QED
      BY <1>1, <1>3, <1>4, <2>3, <3>1
  <2> QED
    BY <1>1, <2>1, <2>2, <2>3
<1>7. t \in [1 .. n -> ME!Refs]
  BY <1>1, <1>4
<1>8. n \in Nat
  BY <1>1
<1> HIDE DEF from, t, n
<1> QED
  <2>1. t \in Section
    BY <1>5, <1>6, <1>7, <1>8, Rearranged
  <2> QED
    BY <2>1 DEF t, r

-----------------------------------------------------------------------------
GoodLists == [sections : Section, catalogs : BOOLEAN, included : SUBSET Manifests,
              conditional : ME!Conditionals]
GoodManifests == [lists : GoodLists, meta : ME!Details]
ManifestPatches == [lists : GoodLists] \cup [meta : ME!Details]

ManifestTypes ==
    /\ stored \in [Manifests -> GoodManifests \cup {None}]
    /\ cache \in [Manifests -> GoodManifests \cup {None}]
    /\ shown \in Manifests \cup {None} /\ hydrated \in Manifests \cup {None}
    /\ pendingDelete \in Manifests \cup {None}
    /\ lists \in GoodLists \cup {None} /\ base \in GoodLists \cup {None}
    /\ isDirty \in BOOLEAN /\ reloaded \in BOOLEAN /\ metaDraft \in ME!Details \cup {None}
    /\ pendingSave = None
          \/ pendingSave \in [id : Manifests, lists : GoodLists, of : Manifests \cup {None}]
    /\ pendingMeta = None \/ pendingMeta \in [id : Manifests, meta : ME!Details]
    /\ \A w \in adrift : w.id \in Manifests /\ w.patch \in (ManifestPatches \cup {None})
\* The lists are those of the manifest shown, and a save that waits for its
\* answer is of them, unless they were loaded again.
ManifestOwn ==
    /\ shown # None /\ cache[shown] # None => hydrated = shown
    /\ pendingSave # None => pendingSave.of = pendingSave.id
    /\ ~isDirty /\ lists # None => lists.catalogs = base.catalogs
    /\ pendingSave # None /\ lists # None =>
          lists.catalogs = IF reloaded THEN base.catalogs ELSE pendingSave.lists.catalogs
ManifestInv == ManifestTypes /\ ManifestOwn

LEMMA ManifestInit == ASSUME ME!ManifestAssumption, ME!Init PROVE ManifestInv
<1>1. (CHOOSE v \in ItemVersions : TRUE) \in ItemVersions /\ Pinned \in ManifestItems
  BY DEF ME!ManifestAssumption
<1>2. PICK v \in ItemVersions : v = CHOOSE w \in ItemVersions : TRUE
  BY <1>1
<1>3. ME!formatManifestItemRef(Pinned, v) \in ME!Refs
  BY <1>1 DEF ME!Refs
<1>4. PICK ref \in ME!Refs : ref = ME!formatManifestItemRef(Pinned, v)
  BY <1>3
<1>5. <<ref>> \in Seq(ME!Refs) /\ DOMAIN <<ref>> = {1}
  OBVIOUS
<1>6. <<ref>> \in Section
  BY <1>5 DEF Section
<1>7. ME!OnePinned = [sections |-> <<ref>>, catalogs |-> FALSE, included |-> {}, conditional |-> "none"]
  BY <1>2, <1>4 DEF ME!OnePinned
<1>8. ME!OnePinned \in GoodLists
  BY <1>6, <1>7 DEF GoodLists, ME!Conditionals
<1>9. [lists |-> ME!OnePinned, meta |-> 0] \in GoodManifests
  BY <1>8 DEF GoodManifests, ME!Details
<1>10. ManifestTypes
  BY <1>9 DEF ME!Init, ManifestTypes
<1>11. ManifestOwn
  BY DEF ME!Init, ManifestOwn
<1> QED
  BY <1>10, <1>11 DEF ManifestInv

\* What a write stores is a manifest.
LEMMA WriteStep ==
    ASSUME ManifestTypes, NEW id \in Manifests, NEW patch \in ManifestPatches,
           ME!Write(id, patch) \/ stored' = stored
    PROVE  stored' \in [Manifests -> GoodManifests \cup {None}]
<1>1. CASE stored[id] # None /\ ME!Write(id, patch)
  <2>1. stored[id] \in GoodManifests
    BY <1>1 DEF ManifestTypes
  <2>2. stored' = [stored EXCEPT ![id] = ME!Patched(stored[id], patch)]
    BY <1>1 DEF ME!Write
  <2>3. ME!Patched(stored[id], patch) =
           [lists |-> IF "lists" \in DOMAIN patch THEN patch["lists"] ELSE stored[id].lists,
            meta |-> IF "meta" \in DOMAIN patch THEN patch["meta"] ELSE stored[id].meta]
    BY <2>1 DEF ME!Patched, GoodManifests
  <2>4. ME!Patched(stored[id], patch) \in GoodManifests
    BY <2>1, <2>3 DEF ManifestPatches, GoodManifests
  <2> QED
    BY <2>2, <2>4 DEF ManifestTypes
<1>2. CASE stored[id] = None \/ stored' = stored
  BY <1>2 DEF ME!Write, ManifestTypes
<1> QED
  BY <1>1, <1>2

\* The lists are loaded for the manifest that is shown.
LEMMA HydrateStep ==
    ASSUME ManifestInv, NEW id \in Manifests, NEW m \in GoodManifests \cup {None},
           ME!Hydrate(id, m), shown' = id, cache'[id] = m,
           stored' \in [Manifests -> GoodManifests \cup {None}],
           cache' \in [Manifests -> GoodManifests \cup {None}],
           UNCHANGED <<isDirty, metaDraft, pendingSave, pendingMeta, pendingDelete, adrift>>
    PROVE  ManifestInv'
<1>1. ManifestTypes /\ ManifestOwn
  BY DEF ManifestInv
<1>2. CASE m = None \/ hydrated = id
  <2>1. UNCHANGED <<hydrated, lists, base, reloaded>>
    BY <1>2 DEF ME!Hydrate
  <2>2. ManifestTypes'
    BY <1>1, <2>1 DEF ManifestTypes
  <2>3. ManifestOwn'
    BY <1>1, <1>2, <2>1 DEF ManifestOwn
  <2> QED
    BY <2>2, <2>3 DEF ManifestInv
<1>3. CASE m # None /\ hydrated # id
  <2>1. hydrated' = id /\ lists' = m.lists /\ base' = m.lists /\ reloaded' = TRUE
    BY <1>3 DEF ME!Hydrate
  <2>2. m.lists \in GoodLists
    BY <1>3 DEF GoodManifests
  <2>3. ManifestTypes'
    BY <1>1, <2>1, <2>2 DEF ManifestTypes
  <2>4. ManifestOwn'
    BY <1>1, <2>1 DEF ManifestOwn
  <2> QED
    BY <2>3, <2>4 DEF ManifestInv
<1> QED
  BY <1>2, <1>3

\* An edit of the lists; one of the catalogs waits for the save to settle.
LEMMA EditStep ==
    ASSUME ManifestInv, lists # None, lists' \in GoodLists, isDirty' = TRUE,
           pendingSave # None => lists'.catalogs = lists.catalogs,
           UNCHANGED <<stored, cache, shown, hydrated, base, reloaded, metaDraft,
                       pendingSave, pendingMeta, pendingDelete, adrift>>
    PROVE  ManifestInv'
<1>1. ManifestTypes /\ ManifestOwn
  BY DEF ManifestInv
<1>2. ManifestTypes'
  BY <1>1 DEF ManifestTypes
<1>3. ManifestOwn'
  BY <1>1 DEF ManifestOwn
<1> QED
  BY <1>2, <1>3 DEF ManifestInv

LEMMA TabsStep == ASSUME ME!ManifestAssumption, ManifestInv, ME!ManifestTabs PROVE ManifestInv'
<1>1. lists # None => lists \in GoodLists
  BY DEF ManifestInv, ManifestTypes
<1> USE DEF ME!caches, ME!mutations
<1>2. ASSUME NEW value \in Section, ME!Change("sections", value) PROVE ManifestInv'
  <2>1. lists \in GoodLists /\ lists # None
    BY <1>1, <1>2 DEF ME!Change, ME!Usable
  <2>2. lists' = [lists EXCEPT !["sections"] = value]
    BY <1>2 DEF ME!Change
  <2>3. lists' \in GoodLists /\ lists'.catalogs = lists.catalogs
    BY <2>1, <2>2 DEF GoodLists
  <2> QED
    BY <1>2, <2>1, <2>3, EditStep DEF ME!Change
<1>3. ASSUME NEW value \in BOOLEAN, ME!SaveIdle, ME!Change("catalogs", value) PROVE ManifestInv'
  <2>1. lists \in GoodLists /\ lists # None
    BY <1>1, <1>3 DEF ME!Change, ME!Usable
  <2>2. lists' = [lists EXCEPT !["catalogs"] = value] /\ pendingSave = None
    BY <1>3 DEF ME!Change, ME!SaveIdle
  <2>3. lists' \in GoodLists
    BY <2>1, <2>2 DEF GoodLists
  <2> QED
    BY <1>3, <2>1, <2>2, <2>3, EditStep DEF ME!Change
<1>4. ASSUME NEW value \in ME!Conditionals, ME!Change("conditional", value) PROVE ManifestInv'
  <2>1. lists \in GoodLists /\ lists # None
    BY <1>1, <1>4 DEF ME!Change, ME!Usable
  <2>2. lists' = [lists EXCEPT !["conditional"] = value]
    BY <1>4 DEF ME!Change
  <2>3. lists' \in GoodLists /\ lists'.catalogs = lists.catalogs
    BY <2>1, <2>2 DEF GoodLists
  <2> QED
    BY <1>4, <2>1, <2>3, EditStep DEF ME!Change
<1>5. ASSUME NEW value \in SUBSET Manifests, ME!Change("included", value) PROVE ManifestInv'
  <2>1. lists \in GoodLists /\ lists # None
    BY <1>1, <1>5 DEF ME!Change, ME!Usable
  <2>2. lists' = [lists EXCEPT !["included"] = value]
    BY <1>5 DEF ME!Change
  <2>3. lists' \in GoodLists /\ lists'.catalogs = lists.catalogs
    BY <2>1, <2>2 DEF GoodLists
  <2> QED
    BY <1>5, <2>1, <2>3, EditStep DEF ME!Change
<1>6. lists # None => lists.sections \in Section /\ lists.included \in SUBSET Manifests
  BY <1>1 DEF GoodLists
<1>7. CASE lists # None /\ ME!AddSoftwareButton
  <2>1. PICK x \in ManifestItems \ ME!manifestItemBaseNamesInUse(lists.sections) : ME!addItem(x)
    BY <1>7 DEF ME!AddSoftwareButton
  <2>2. CASE x \in ME!Range(lists.sections)
    <3>1. ME!Change("sections", lists.sections)
      BY <2>1, <2>2 DEF ME!addItem
    <3> QED
      BY <1>2, <1>6, <1>7, <3>1
  <2>3. CASE x \notin ME!Range(lists.sections)
    <3>1. x \in ME!Refs /\ \A i \in DOMAIN lists.sections : ~Same(lists.sections[i], x)
      BY <1>6, <1>7, <2>1, <2>3, OfferedIsNew
    <3>2. Append(lists.sections, x) \in Section
      BY <1>6, <1>7, <3>1, AddRef
    <3>3. ME!Change("sections", Append(lists.sections, x))
      BY <2>1, <2>3 DEF ME!addItem
    <3> QED
      BY <1>2, <3>2, <3>3
  <2> QED
    BY <2>2, <2>3
<1>8. CASE lists # None /\ ME!PinVersionButton
  <2>0. PICK i \in DOMAIN lists.sections :
           \E x \in ME!Picks(ME!baseName(lists.sections[i])) : ME!replaceSectionItem(i, x)
    BY <1>8 DEF ME!PinVersionButton
  <2>1. PICK x \in ME!Picks(ME!baseName(lists.sections[i])) : ME!replaceSectionItem(i, x)
    BY <2>0
  <2>2. CASE x \in ME!Range(lists.sections)
    <3>1. ME!Change("sections", lists.sections)
      BY <2>1, <2>2 DEF ME!replaceSectionItem
    <3> QED
      BY <1>2, <1>6, <1>8, <3>1
  <2>3. CASE x \notin ME!Range(lists.sections)
    <3>1. lists.sections[i] \in ME!Refs
      BY <1>6, <1>8 DEF Section
    <3>2. /\ x \in ME!Refs
          /\ ME!baseName(x) = ME!baseName(lists.sections[i]) \/ ME!baseName(x) \in ME!Misread
      BY <3>1, PickedIsRead DEF ME!ManifestAssumption
    <3>3. [lists.sections EXCEPT ![i] = x] \in Section
      BY <1>6, <1>8, <2>3, <3>2, ReplaceRef
    <3>4. ME!Change("sections", [lists.sections EXCEPT ![i] = x])
      BY <2>1, <2>3 DEF ME!replaceSectionItem
    <3> QED
      BY <1>2, <3>3, <3>4
  <2> QED
    BY <2>2, <2>3
<1>9. CASE lists # None /\ \E x \in ME!Range(lists.sections) : ME!removeItem(x)
  <2>1. PICK x : ME!Change("sections", ME!Without(lists.sections, x))
    BY <1>9 DEF ME!removeItem
  <2> QED
    BY <1>2, <1>6, <1>9, <2>1, RemoveRef
<1>10. CASE lists # None /\ ME!handleDragEnd
  <2>1. PICK i \in DOMAIN lists.sections, j \in DOMAIN lists.sections :
           ME!Change("sections", ME!InsertAt(ME!RemoveAt(lists.sections, i), j, lists.sections[i]))
    BY <1>10 DEF ME!handleDragEnd, ME!reorderItems
  <2> QED
    BY <1>2, <1>6, <1>10, <2>1, MoveRef
<1>11. ME!ManifestSortableStringList => ManifestInv'
  BY <1>7, <1>8, <1>9, <1>10 DEF ME!ManifestSortableStringList, ME!SortableItem
<1>12. ME!ManifestCatalogRow => ManifestInv'
  BY <1>3 DEF ME!ManifestCatalogRow, ME!addCatalog, ME!removeCatalog
<1>13. ME!IncludedManifestsPanel => ManifestInv'
  <2>1. ASSUME lists # None, NEW m \in Manifests, ME!addIncludedManifest(m) \/ ME!removeIncludedManifest(m)
        PROVE  ManifestInv'
    BY <1>5, <1>6, <2>1 DEF ME!addIncludedManifest, ME!removeIncludedManifest
  <2> QED
    BY <2>1 DEF ME!IncludedManifestsPanel, ME!AddManifestButton, ME!InclusionTreeBranch
<1>14. ME!changeConditionalLists => ManifestInv'
  BY <1>4 DEF ME!changeConditionalLists, ME!Conditionals
<1>15. ASSUME NEW c \in {"none", "valid", "blank"}, ME!changeConditional(c) PROVE ManifestInv'
  BY <1>4, <1>15 DEF ME!changeConditional, ME!Conditionals
<1> QED
  BY <1>11, <1>12, <1>13, <1>14, <1>15 DEF ME!ManifestTabs

\* The page is left: what it had sent goes on by itself.
LEMMA UnmountStep ==
    ASSUME ManifestInv, NEW earlier \in SUBSET adrift, ME!Unmount(earlier),
           stored' \in [Manifests -> GoodManifests \cup {None}],
           cache' \in [Manifests -> GoodManifests \cup {None}]
    PROVE  ManifestInv'
<1>1. ManifestTypes /\ ManifestOwn
  BY DEF ManifestInv
<1>2. /\ shown' = None /\ hydrated' = None /\ lists' = None /\ base' = None
      /\ isDirty' = FALSE /\ metaDraft' = None /\ reloaded' = FALSE
      /\ pendingSave' = None /\ pendingMeta' = None /\ pendingDelete' = None
  BY DEF ME!Unmount
<1>3. ASSUME NEW w \in adrift' PROVE w.id \in Manifests /\ w.patch \in (ManifestPatches \cup {None})
  <2>1. CASE w \in adrift
    BY <1>1, <2>1 DEF ManifestTypes
  <2>2. CASE pendingSave # None
             /\ w = [id |-> pendingSave.id, patch |-> [lists |-> pendingSave.lists], key |-> shown]
    BY <1>1, <2>2 DEF ManifestTypes, ManifestPatches
  <2>3. CASE pendingMeta # None
             /\ w = [id |-> pendingMeta.id, patch |-> [meta |-> pendingMeta.meta], key |-> shown]
    BY <1>1, <2>3 DEF ManifestTypes, ManifestPatches
  <2>4. CASE pendingDelete # None /\ w = [id |-> pendingDelete, patch |-> None, key |-> shown]
    BY <1>1, <2>4 DEF ManifestTypes
  <2> QED
    BY <2>1, <2>2, <2>3, <2>4 DEF ME!Unmount
<1>4. ManifestTypes'
  BY <1>2, <1>3 DEF ManifestTypes
<1>5. ManifestOwn'
  BY <1>2 DEF ManifestOwn
<1> QED
  BY <1>4, <1>5 DEF ManifestInv

LEMMA ManifestNext == ASSUME ME!ManifestAssumption, ManifestInv, ME!Next PROVE ManifestInv'
<1>1. ManifestTypes /\ ManifestOwn /\ None \notin Manifests
  BY DEF ManifestInv, ME!ManifestAssumption
<1>2. \A m \in Manifests : /\ stored[m] \in GoodManifests \cup {None}
                           /\ cache[m] \in GoodManifests \cup {None}
  BY <1>1 DEF ManifestTypes
<1>3. stored \in [Manifests -> GoodManifests \cup {None}]
      /\ cache \in [Manifests -> GoodManifests \cup {None}]
  BY <1>1 DEF ManifestTypes
<1> USE DEF ME!caches, ME!mutations, ME!draft
<1>4. CASE ME!Load
  <2>1. shown \in Manifests
    BY <1>1, <1>4 DEF ME!Load, ManifestTypes
  <2>2. cache' = [cache EXCEPT ![shown] = stored[shown]]
    BY <1>4 DEF ME!Load
  <2>3. cache' \in [Manifests -> GoodManifests \cup {None}] /\ cache'[shown] = stored[shown]
    BY <1>2, <1>3, <2>1, <2>2
  <2>4. PICK id \in Manifests, m \in GoodManifests \cup {None} : id = shown /\ m = stored[shown]
    BY <1>2, <2>1
  <2> QED
    BY <1>3, <1>4, <2>3, <2>4, HydrateStep DEF ME!Load
<1>5. CASE ME!Leave
  BY <1>3, <1>5, UnmountStep DEF ME!Leave
<1>6. ASSUME NEW id \in Manifests, ME!Open(id) \/ ME!FollowLink(id) PROVE ManifestInv'
  <2>1. PICK m \in GoodManifests \cup {None} : m = cache[id]
    BY <1>2
  <2>2. shown' = id /\ cache' = cache /\ stored' = stored /\ ME!Hydrate(id, m)
        /\ UNCHANGED <<isDirty, metaDraft, pendingSave, pendingMeta, pendingDelete, adrift>>
    BY <1>6, <2>1 DEF ME!Open, ME!FollowLink
  <2> QED
    BY <1>3, <2>1, <2>2, HydrateStep
<1>7. ASSUME NEW m \in Manifests, ME!Expire(m) PROVE ManifestInv'
  BY <1>1, <1>7 DEF ME!Expire, ManifestInv, ManifestTypes, ManifestOwn
<1>8. ASSUME NEW m \in Manifests, ME!OtherSaves(m) PROVE ManifestInv'
  <2>1. stored[m] \in GoodManifests /\ stored[m].lists \in GoodLists
    BY <1>2, <1>8 DEF ME!OtherSaves, GoodManifests
  <2>2. PICK other \in GoodLists :
           other = [stored[m].lists EXCEPT !.catalogs = ~stored[m].lists.catalogs]
    <3>1. PICK before \in GoodLists : before = stored[m].lists
      BY <2>1
    <3>2. [before EXCEPT !.catalogs = ~before.catalogs] \in GoodLists
      BY DEF GoodLists
    <3> QED
      BY <3>1, <3>2
  <2>3. [stored[m] EXCEPT !.lists = other] \in GoodManifests
    BY <2>1 DEF GoodManifests
  <2>4. stored' = [stored EXCEPT ![m] = [stored[m] EXCEPT !.lists = other]]
    BY <1>8, <2>2 DEF ME!OtherSaves
  <2>5. stored' \in [Manifests -> GoodManifests \cup {None}]
    BY <1>3, <2>3, <2>4
  <2> QED
    BY <1>1, <1>8, <2>5 DEF ME!OtherSaves, ManifestInv, ManifestTypes, ManifestOwn
<1>9. CASE ME!handleSave
  <2>1. shown \in Manifests /\ hydrated = shown /\ lists \in GoodLists /\ lists # None
    BY <1>1, <1>9 DEF ME!handleSave, ME!Usable, ME!manifest, ManifestTypes, ManifestOwn
  <2>2. pendingSave' = [id |-> shown, lists |-> lists, of |-> hydrated]
        /\ pendingSave' \in [id : Manifests, lists : GoodLists, of : Manifests \cup {None}]
    BY <1>9, <2>1 DEF ME!handleSave
  <2>3. reloaded' = FALSE
        /\ UNCHANGED <<stored, cache, shown, hydrated, lists, isDirty, base, metaDraft,
                       pendingMeta, pendingDelete, adrift>>
    BY <1>9 DEF ME!handleSave
  <2>4. ManifestTypes'
    BY <1>1, <2>2, <2>3 DEF ManifestTypes
  <2>5. pendingSave'.lists = lists /\ pendingSave'.id = shown /\ pendingSave'.of = hydrated
    BY <2>2
  <2>6. ManifestOwn'
    BY <1>1, <2>1, <2>3, <2>5 DEF ManifestOwn
  <2> QED
    BY <2>4, <2>6 DEF ManifestInv
<1>10. CASE ME!SaveSucceeds
  <2>1. /\ pendingSave # None /\ pendingSave.id \in Manifests /\ pendingSave.lists \in GoodLists
    BY <1>1, <1>10 DEF ME!SaveSucceeds, ManifestTypes
  <2>2. [lists |-> pendingSave.lists] \in ManifestPatches
    BY <2>1 DEF ManifestPatches
  <2>3. stored' \in [Manifests -> GoodManifests \cup {None}]
    BY <1>1, <1>10, <2>1, <2>2, WriteStep DEF ME!SaveSucceeds
  <2>4. /\ pendingSave' = None /\ isDirty' = FALSE
        /\ base' = IF reloaded THEN base ELSE pendingSave.lists
        /\ UNCHANGED <<reloaded, cache, shown, hydrated, lists, metaDraft, pendingMeta,
                       pendingDelete, adrift>>
    BY <1>10 DEF ME!SaveSucceeds
  <2>5. ManifestTypes'
    BY <1>1, <2>1, <2>3, <2>4 DEF ManifestTypes
  <2>6. ManifestOwn'
    BY <1>1, <2>1, <2>4 DEF ManifestOwn
  <2> QED
    BY <2>5, <2>6 DEF ManifestInv
<1>11. CASE ME!SaveFails
  <2>1. /\ pendingSave # None /\ pendingSave.id \in Manifests /\ pendingSave.lists \in GoodLists
    BY <1>1, <1>11 DEF ME!SaveFails, ManifestTypes
  <2>2. [lists |-> pendingSave.lists] \in ManifestPatches
    BY <2>1 DEF ManifestPatches
  <2>3. stored' \in [Manifests -> GoodManifests \cup {None}]
    BY <1>1, <1>11, <2>1, <2>2, WriteStep DEF ME!SaveFails
  <2>4. /\ pendingSave' = None
        /\ UNCHANGED <<reloaded, cache, shown, hydrated, lists, isDirty, base, metaDraft,
                       pendingMeta, pendingDelete, adrift>>
    BY <1>11 DEF ME!SaveFails
  <2>5. ManifestTypes'
    BY <1>1, <2>3, <2>4 DEF ManifestTypes
  <2>6. ManifestOwn'
    BY <1>1, <2>4 DEF ManifestOwn
  <2> QED
    BY <2>5, <2>6 DEF ManifestInv
<1>12. CASE ME!openMetaDialog
  <2>1. metaDraft' \in ME!Details
    BY <1>1, <1>2, <1>12 DEF ME!openMetaDialog, ME!Usable, ME!manifest, ManifestTypes, GoodManifests
  <2> QED
    BY <1>1, <1>12, <2>1 DEF ME!openMetaDialog, ManifestInv, ManifestTypes, ManifestOwn
<1>13. CASE ME!editMeta \/ ME!closeMetaDialog
  BY <1>1, <1>13 DEF ME!editMeta, ME!closeMetaDialog, ManifestInv, ManifestTypes, ManifestOwn
<1>14. CASE ME!handleMetaSave
  <2>1. pendingMeta' \in [id : Manifests, meta : ME!Details]
    BY <1>1, <1>14 DEF ME!handleMetaSave, ME!manifest, ManifestTypes
  <2> QED
    BY <1>1, <1>14, <2>1 DEF ME!handleMetaSave, ManifestInv, ManifestTypes, ManifestOwn
<1>15. CASE ME!MetaSettles
  <2>1. pendingMeta.id \in Manifests /\ pendingMeta.meta \in ME!Details
    BY <1>1, <1>15 DEF ME!MetaSettles, ManifestTypes
  <2>2. [meta |-> pendingMeta.meta] \in ManifestPatches
    BY <2>1 DEF ManifestPatches
  <2>3. stored' \in [Manifests -> GoodManifests \cup {None}]
    BY <1>1, <1>15, <2>1, <2>2, WriteStep DEF ME!MetaSettles
  <2>4. pendingMeta' = None /\ (metaDraft' = None \/ metaDraft' = metaDraft)
        /\ UNCHANGED <<cache, shown, hydrated, lists, isDirty, base, reloaded, pendingSave,
                       pendingDelete, adrift>>
    BY <1>15 DEF ME!MetaSettles
  <2> QED
    BY <1>1, <2>3, <2>4 DEF ManifestInv, ManifestTypes, ManifestOwn
<1>16. CASE ME!ConfirmDelete \/ ME!DeleteFails
  BY <1>1, <1>16 DEF ME!ConfirmDelete, ME!DeleteFails, ManifestInv, ManifestTypes, ManifestOwn
<1>17. CASE ME!DeleteSucceeds
  <2>1. /\ stored' = [stored EXCEPT ![pendingDelete] = None]
        /\ cache' = [cache EXCEPT ![shown] = None] /\ ME!Unmount(adrift)
    BY <1>17 DEF ME!DeleteSucceeds
  <2>2. /\ stored' \in [Manifests -> GoodManifests \cup {None}]
        /\ cache' \in [Manifests -> GoodManifests \cup {None}]
    BY <1>3, <2>1
  <2> QED
    BY <2>1, <2>2, UnmountStep
<1>18. ASSUME NEW w \in adrift, ME!AdriftSettles(w) PROVE ManifestInv'
  <2>1. w.id \in Manifests /\ w.patch \in ManifestPatches
    BY <1>1, <1>18 DEF ManifestTypes, ME!AdriftSettles
  <2>2. stored' \in [Manifests -> GoodManifests \cup {None}]
    BY <1>1, <1>18, <2>1, WriteStep DEF ME!AdriftSettles
  <2>3. /\ adrift' \subseteq adrift
        /\ UNCHANGED <<cache, shown, hydrated, lists, isDirty, base, reloaded, metaDraft,
                       pendingSave, pendingMeta, pendingDelete>>
    BY <1>18 DEF ME!AdriftSettles
  <2> QED
    BY <1>1, <2>2, <2>3 DEF ManifestInv, ManifestTypes, ManifestOwn
<1>19. ASSUME NEW w \in adrift, ME!AdriftDeletes(w) PROVE ManifestInv'
  <2>1. w.id \in Manifests
    BY <1>1 DEF ManifestTypes
  <2>2. CASE /\ stored' = [stored EXCEPT ![w.id] = None]
             /\ cache' = [cache EXCEPT ![w.key] = None]
             /\ ME!Unmount(adrift \ {w})
    <3>1. /\ stored' \in [Manifests -> GoodManifests \cup {None}]
          /\ cache' \in [Manifests -> GoodManifests \cup {None}]
      BY <1>3, <2>2
    <3> QED
      BY <2>2, <3>1, UnmountStep
  <2>3. CASE /\ adrift' = adrift \ {w}
             /\ UNCHANGED <<stored, cache, shown, hydrated, lists, isDirty, base, reloaded, metaDraft,
                            pendingSave, pendingMeta, pendingDelete>>
    BY <1>1, <2>3 DEF ManifestInv, ManifestTypes, ManifestOwn
  <2> QED
    BY <1>19, <2>2, <2>3 DEF ME!AdriftDeletes
<1> QED
  BY <1>4, <1>5, <1>6, <1>7, <1>8, <1>9, <1>10, <1>11, <1>12, <1>13, <1>14, <1>15, <1>16, <1>17,
     <1>18, <1>19, TabsStep DEF ME!Next, ME!ManifestHeader, ME!MetaDialog

LEMMA ManifestImply ==
    ASSUME ME!ManifestAssumption, ManifestInv
    PROVE  /\ ME!ManifestTypeOK /\ ME!SavedIntoItsOwn /\ ME!CleanIsSaved /\ ME!OneRefPerSoftware
<1>1. ManifestTypes /\ ManifestOwn
  BY DEF ManifestInv
<1>2. GoodLists \subseteq ME!Lists
  BY DEF GoodLists, Section, ME!Lists
<1>3. GoodManifests \subseteq ME!Manifest
  BY <1>2 DEF GoodManifests, ME!Manifest
<1>4. ME!ManifestTypeOK
  BY <1>1, <1>2, <1>3 DEF ManifestTypes, ME!ManifestTypeOK
<1>5. ME!OneRefPerSoftware
  <2> SUFFICES ASSUME lists # None PROVE ME!OneRefPerSoftware
    BY DEF ME!OneRefPerSoftware
  <2>1. PICK s \in Section : s = lists.sections
    BY <1>1 DEF ManifestTypes, GoodLists
  <2>2. ASSUME NEW i \in DOMAIN s, NEW j \in DOMAIN s, i # j PROVE ~Same(s[i], s[j])
    BY <2>2 DEF Section
  <2> QED
    BY <2>1, <2>2 DEF Same, ME!OneRefPerSoftware
<1> QED
  BY <1>1, <1>4, <1>5 DEF ManifestOwn, ME!SavedIntoItsOwn, ME!CleanIsSaved

-----------------------------------------------------------------------------
(* The tab: the invariant of every page holds, whichever of them moves.    *)

IInv ==
    /\ tab \in Tabs
    /\ EditorInv /\ ListInv /\ CardInv /\ WorkflowInv /\ CatalogsInv /\ UploadInv /\ ManifestInv

LEMMA TabStep ==
    ASSUME [Next]_vars
    PROVE  /\ UNCHANGED tab
           /\ SW!Next \/ UNCHANGED softwareVars
           /\ SL!Next \/ UNCHANGED listVars
           /\ RC!Next \/ UNCHANGED cardVars
           /\ WF!Next \/ UNCHANGED workflowVars
           /\ CA!Next \/ UNCHANGED catalogVars
           /\ UD!Next \/ UNCHANGED dialogVars
           /\ ME!Next \/ UNCHANGED manifestVars
<1>1. CASE UNCHANGED vars
  BY <1>1 DEF vars
<1>2. ASSUME NEW t, Shows(t)
      PROVE  /\ UNCHANGED tab
             /\ SW!Next \/ UNCHANGED softwareVars
             /\ SL!Next \/ UNCHANGED listVars
             /\ RC!Next \/ UNCHANGED cardVars
             /\ WF!Next \/ UNCHANGED workflowVars
             /\ CA!Next \/ UNCHANGED catalogVars
             /\ UD!Next \/ UNCHANGED dialogVars
             /\ ME!Next \/ UNCHANGED manifestVars
  BY <1>2 DEF Shows
<1> QED
  BY <1>1, <1>2 DEF Next

LEMMA TabInit == ASSUME Init PROVE IInv
<1>1. EditorInv /\ ListInv /\ CardInv
  BY InstanceAssumptions, EditorInit, ListInit, CardInit DEF Init
<1>2. WorkflowInv /\ CatalogsInv /\ UploadInv /\ ManifestInv
  BY InstanceAssumptions, WorkflowInit, CatalogsInit, UploadInit, ManifestInit DEF Init
<1> QED
  BY <1>1, <1>2 DEF Init, IInv

LEMMA AtRest ==
    ASSUME IInv
    PROVE  /\ UNCHANGED softwareVars => EditorInv'
           /\ UNCHANGED listVars => ListInv'
           /\ UNCHANGED cardVars => CardInv'
           /\ UNCHANGED workflowVars => WorkflowInv'
           /\ UNCHANGED catalogVars => CatalogsInv'
           /\ UNCHANGED dialogVars => UploadInv'
           /\ UNCHANGED manifestVars => ManifestInv'
<1>1. UNCHANGED softwareVars => EditorInv'
  <2>1. UNCHANGED softwareVars => EditorTypes' /\ EditorReview'
    BY DEF IInv, softwareVars, EditorInv, EditorTypes, EditorReview
  <2>2. ASSUME UNCHANGED softwareVars PROVE EditorSaves'
    <3>1. EditorSaves /\ UNCHANGED <<saves, puts, running, reported>>
      BY <2>2 DEF IInv, EditorInv, softwareVars
    <3>2. \A s \in running : Accounted(s)'
      BY <3>1 DEF EditorSaves, Accounted
    <3> QED
      BY <3>1, <3>2 DEF EditorSaves
  <2> QED
    BY <2>1, <2>2 DEF EditorInv
<1>2. UNCHANGED listVars => ListInv'
  <2>1. UNCHANGED listVars => ListServer' /\ ListPage' /\ ListTicks' /\ ListDialogs'
    BY DEF IInv, listVars, ListInv, ListServer, ListPage, ListTicks, ListDialogs,
           SL!PageIsOfTheseFilters
  <2>2. UNCHANGED listVars => ListTrue'
    BY SameAnswers DEF IInv, listVars, ListInv, ListTrue, SL!FreshListingsAreTrue
  <2> QED
    BY <2>1, <2>2 DEF ListInv
<1>3. UNCHANGED cardVars => CardInv'
  BY DEF IInv, cardVars, CardInv, CardTypes, CardStatus, CardPin, PinSettles, PinWillSettle,
         RC!ShowsPin, RC!busy
<1>4. UNCHANGED workflowVars => WorkflowInv'
  BY DEF IInv, workflowVars, WorkflowInv, WorkflowServer, WorkflowShown, WorkflowDialogs, WorkflowCalls
<1>5. UNCHANGED catalogVars => CatalogsInv'
  BY DEF IInv, catalogVars, CatalogsInv, CA!Existing, CA!OneQuarantine, CA!UntouchedFormIsTheCatalogs
<1>6. UNCHANGED dialogVars => UploadInv'
  BY DEF IInv, dialogVars, UploadInv, UploadSent, UploadStored, UploadRows,
         UD!DerivedNamesAreWhole, UD!PreviewIsTheName
<1>7. UNCHANGED manifestVars => ManifestInv'
  BY DEF IInv, manifestVars, ManifestInv, ManifestTypes, ManifestOwn
<1> QED
  BY <1>1, <1>2, <1>3, <1>4, <1>5, <1>6, <1>7

LEMMA TabNext == ASSUME IInv, [Next]_vars PROVE IInv'
<1> USE TabStep, AtRest, InstanceAssumptions
<1>1. EditorInv'
  BY EditorNext DEF IInv
<1>2. ListInv'
  BY ListNext DEF IInv
<1>3. CardInv'
  BY CardNext DEF IInv
<1>4. WorkflowInv'
  BY WorkflowNext DEF IInv
<1>5. CatalogsInv'
  BY CatalogsNext DEF IInv
<1>6. UploadInv'
  BY UploadNext DEF IInv
<1>7. ManifestInv'
  BY ManifestNext DEF IInv
<1> QED
  BY <1>1, <1>2, <1>3, <1>4, <1>5, <1>6, <1>7 DEF IInv

(* The inductive invariant of the pages holds throughout.                  *)
THEOREM Inductive == Spec => []IInv
<1>1. Init => IInv
  BY TabInit
<1>2. IInv /\ [Next]_vars => IInv'
  BY TabNext
<1> QED
  BY <1>1, <1>2, PTL DEF Spec

(* Every page keeps its types, under its own requests and those of others. *)
THEOREM TypesHold == Spec => []TypeOK
<1>1. IInv => TypeOK
  BY InstanceAssumptions, EditorImply, ListTypes, CardImply, WorkflowTypes, CatalogsImply,
     UploadImply, ManifestImply DEF IInv, TypeOK
<1> QED
  BY <1>1, Inductive, PTL

(* Every write of a save carries what the review dialog showed, no write   *)
(* to another version carries a field of its installer, and "Changes       *)
(* saved" is reported when all that was planned is acknowledged, however   *)
(* saves, answers, re-fetches and changes of version overlap.              *)
THEOREM SavesWriteTheReviewed == Spec => []SavesAreAsReviewed
<1>1. IInv => SavesAreAsReviewed
  BY EditorImply DEF IInv, SavesAreAsReviewed
<1> QED
  BY <1>1, Inductive, PTL

(* A listing that counts as fresh is what the server would answer, however *)
(* its requests, their answers, the bulk writes and deletions of this page *)
(* overlap, unless its answer was computed before a write and arrived      *)
(* after the write's invalidation; and a page after the first is one of    *)
(* the filters that are set.                                               *)
THEOREM ListingsAreTrue == Spec => []ListIsTrue
<1>1. IInv => ListIsTrue
  BY DEF IInv, ListInv, ListPage, ListTrue, ListIsTrue
<1> QED
  BY <1>1, Inductive, PTL

(* The switch and the slider of the rollout card show the pin of its       *)
(* status until they are clicked, whoever changes the row, and from then   *)
(* on the row's pin as soon as the card is idle and its status up to date, *)
(* unless the click's request was not taken, or another operator changed   *)
(* the row after it.                                                       *)
THEOREM CardShowsTheServers == Spec => []CardIsTrue
<1>1. IInv => CardIsTrue
  BY InstanceAssumptions, CardImply DEF IInv, CardIsTrue
<1> QED
  BY <1>1, Inductive, PTL

(* The steps that replace a channel's were loaded from it, and a request   *)
(* of one control changes at most one preference.                          *)
THEOREM WorkflowIsWrittenByParts == Spec => WorkflowWritesItsOwn
<1>1. IInv' => [stepsCall' # None => stepsCall'.of = stepsCall'.id]_stepsCall
  BY DEF IInv, WorkflowInv, WorkflowCalls
<1>2. IInv => [WF!PrefsPatched =>
                  WF!Cardinality({k \in DOMAIN workflow : workflow'[k] # workflow[k]}) <= 1]_(WF!vars)
  BY PatchStep DEF IInv
<1> QED
  BY <1>1, <1>2, Inductive, PTL
     DEF WorkflowWritesItsOwn, WF!StepsAreItsOwn, WF!PatchLeavesOtherFields

(* Of two catalogs that are both quarantines, one was created with the     *)
(* flag while the other was not yet there to be seen, and no form with the *)
(* flag was saved since, however creations and saves overlap; and a form   *)
(* nobody typed in holds the fields of the catalog it is open for.         *)
THEOREM CatalogsKeepTheirFlags == Spec => []CatalogFlagsAreTheirs
<1>1. IInv => CatalogFlagsAreTheirs
  BY CatalogsImply DEF IInv, CatalogFlagsAreTheirs
<1> QED
  BY <1>1, Inductive, PTL

(* No name derived for an upload ends in what Munki takes for a version,   *)
(* and the one the dialog showed is the one the row got, for names of      *)
(* every length: what the browser cuts off and what the server cuts off,   *)
(* which knows the file's version, leave the same.                         *)
THEOREM UploadsResolve == Spec => []UploadedNamesResolve
<1>1. IInv => UploadedNamesResolve
  BY UploadImply DEF IInv, UploadedNamesResolve
<1> QED
  BY <1>1, Inductive, PTL

(* The lists a save sends were loaded from the manifest it is sent to, the *)
(* editor calls itself clean only while its catalogs are those it loaded,  *)
(* no section holds a string twice, and two that are read as the same      *)
(* software only where a name is read as another one with a version.       *)
THEOREM ManifestsAreSavedFromTheirOwn == Spec => []ManifestIsItsOwn
<1>1. IInv => ManifestIsItsOwn
  BY InstanceAssumptions, ManifestImply DEF IInv, ManifestIsItsOwn
<1> QED
  BY <1>1, Inductive, PTL
=============================================================================
