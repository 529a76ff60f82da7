------------------------ MODULE ImportApprovalProofs ------------------------
(***************************************************************************)
(* Theorems about ImportApproval, for any versions, imports, sessions and  *)
(* bounds: its types, that a held version leaves quarantine only by a      *)
(* decision, that a deletion is undone only by an ingest, and that no      *)
(* version is left waiting for a decision that nobody is asked for.        *)
(***************************************************************************)
EXTENDS ImportApproval, FiniteSetTheorems, TLAPS

Decisions == {"approve", "reject"}

\* An import has its package from the first call on, its transaction while the
\* ingest is open, and is held only if its recipe row was found by identifier.
ImportInv(i) ==
    /\ imports[i].phase = "todo" => /\ imports[i].held = "not_ingested"
                                     /\ imports[i].status = "imported"
    /\ imports[i].phase # "todo" => imports[i].pkg \in Pkg
    /\ imports[i].phase = "ingesting" <=> txn[i].kind = "ingest"
    /\ imports[i].phase = "ingesting" => imports[i].held # "not_ingested"
    /\ imports[i].held = "held" => /\ imports[i].naming = "identifier"
                                   /\ imports[i].status = "imported"

\* Who opens which transaction, and what it may write over the row it has loaded.
TxnInv(s) ==
    /\ txn[s].kind = "idle" => ~txn[s].ready
    /\ txn[s].kind = "ingest" =>
          /\ s \in Import /\ txn[s].ready
          /\ txn[s].pkg \in Pkg /\ txn[s].pkg = imports[s].pkg
          /\ imports[s].held = "held" => txn[s].adds = {Quarantine}
    /\ txn[s].kind \in Decisions =>
          /\ s \in Operators
          /\ txn[s].result \in Import /\ imports[txn[s].result].approval # None
          /\ txn[s].pkg # None => /\ txn[s].base.pending # JsonNull
                                  /\ txn[s].row.pending = JsonNull
    /\ txn[s].kind \in {"assign", "delete"} =>
          /\ s \in Operators /\ txn[s].ready /\ txn[s].pkg \in Pkg
          /\ txn[s].row.pending = txn[s].base.pending
    /\ txn[s].kind \in {"reject", "delete"} => txn[s].adds = {}
    /\ txn[s].kind # "ingest" => /\ ~txn[s].fresh
                                 /\ txn[s].base.is_deleted => txn[s].row.is_deleted
    /\ ~txn[s].ready => txn[s].pkg = None
    /\ txn[s].pkg # None /\ ~txn[s].fresh => Exists(txn[s].pkg)

\* Import i still accounts for a held p: it wrote p, and either its ingest needed no
\* approval, or it is undecided and every decision on it that is open has loaded p.
Accounts(i, p) ==
    /\ imports[i].pkg = p
    /\ imports[i].phase \in {"ingested", "posted"}
    /\ \/ imports[i].held = "direct"
       \/ /\ imports[i].held = "held"
          /\ imports[i].approval \notin {"approved", "rejected"}
          /\ \A s \in Operators :
                txn[s].kind \in Decisions /\ txn[s].ready /\ txn[s].result = i =>
                    txn[s].pkg = p

HeldInv(p) == Held(p) /\ recipe[p] \in keyed => \E i \in Import : Accounts(i, p)

Imports == \A i \in Import : ImportInv(i)
Transactions == \A s \in Sessions : TxnInv(s)
HeldAreAccountedFor == \A p \in Pkg : HeldInv(p)

IInv == TypeOK /\ Imports /\ Transactions /\ HeldAreAccountedFor

-----------------------------------------------------------------------------
(* The initial states, and the records that actions build.                 *)

LEMMA RowsAndIdle ==
    /\ Uploaded \in Row /\ Uploaded # None /\ Idle \in Transaction
    /\ Todo \in ImportState
    /\ SqlNull \in Pending /\ JsonNull \in Pending /\ SqlNull # JsonNull
    /\ \A names \in SUBSET Catalog : ListOf(names) \in Pending
    /\ Idle.kind = "idle" /\ ~Idle.ready /\ ~Idle.fresh /\ Idle.pkg = None /\ Idle.adds = {}
    /\ ~Idle.base.is_deleted
<1>1. SqlNull \in Pending /\ JsonNull \in Pending /\ SqlNull # JsonNull
  BY DEF SqlNull, JsonNull, Pending
<1>2. \A names \in SUBSET Catalog : ListOf(names) \in Pending
  BY DEF ListOf, Pending
<1>3. Uploaded \in Row
  BY <1>1 DEF Uploaded, Row
<1>4. Idle \in Transaction
  BY <1>3 DEF Idle, Transaction
<1>5. Todo \in ImportState
  BY DEF Todo, ImportState, Naming
<1>6. Idle.kind = "idle" /\ ~Idle.ready /\ ~Idle.fresh /\ Idle.pkg = None /\ Idle.adds = {}
  BY DEF Idle
<1>7. ~Idle.base.is_deleted
  BY DEF Idle, Uploaded
<1> QED
  BY <1>1, <1>2, <1>3, <1>4, <1>5, <1>6, <1>7, ImportAssumption

LEMMA InitIInv == Init => IInv
<1> SUFFICES ASSUME Init PROVE IInv
  OBVIOUS
<1> USE RowsAndIdle
<1>1. TypeOK
  <2>1. PICK uploaded \in SUBSET Pkg :
          /\ pkgs = [p \in Pkg |-> IF p \in uploaded THEN Uploaded ELSE None]
          /\ links \in [Pkg -> {{}} \cup IntendedChoices]
          /\ \A p \in Pkg \ uploaded : links[p] = {}
    BY DEF Init
  <2>2. links \in [Pkg -> SUBSET Catalog]
    BY <2>1, ImportAssumption
  <2> QED
    BY <2>1, <2>2 DEF Init, TypeOK, Todo
<1>2. Imports /\ Transactions
  BY DEF Init, Imports, ImportInv, Transactions, TxnInv, Todo, Sessions, Decisions
<1>3. HeldAreAccountedFor
  BY DEF Init, HeldAreAccountedFor, HeldInv, Held, Live, Exists, Uploaded, SqlNull
<1> QED
  BY <1>1, <1>2, <1>3 DEF IInv

-----------------------------------------------------------------------------
(* Frames: what an action leaves alone, it leaves in order.                *)

\* Import i takes the step to row; its transaction, if any, stays open.
LEMMA ImportMoves ==
    ASSUME IInv, NEW i \in Import, NEW row \in ImportState,
           imports' = [imports EXCEPT ![i] = row],
           UNCHANGED <<pkgs, links, txn>>,
           flagged' \in BOOLEAN, auto_promote' \in [Recipe -> BOOLEAN],
           imports[i].phase # "ingesting", row.phase \notin {"todo", "ingesting"},
           row.phase = "posted" <=> row.approval # None,
           row.pkg \in Pkg,
           row.held = "held" => row.naming = "identifier" /\ row.status = "imported",
           row.held = imports[i].held,
           \/ imports[i].phase = "todo"
           \/ /\ row.pkg = imports[i].pkg
              /\ imports[i].approval = None /\ row.approval \in {"pending", "auto_approved"}
    PROVE  IInv'
<1>1. TypeOK'
  BY DEF IInv, TypeOK
<1>2. Imports'
  BY DEF IInv, TypeOK, Imports, ImportInv
<1>3. Transactions'
  <2> SUFFICES ASSUME NEW s \in Sessions PROVE TxnInv(s)'
    BY DEF Transactions
  <2>1. TxnInv(s)
    BY DEF IInv, Transactions
  <2>2. CASE s = i
    <3>1. txn[s].kind # "ingest"
      BY <2>2 DEF IInv, Imports, ImportInv
    <3> QED
      BY <2>1, <2>2, <3>1 DEF TxnInv, IInv, TypeOK, Exists, Decisions
  <2>3. CASE s # i
    BY <2>1, <2>3 DEF TxnInv, IInv, TypeOK, Exists, Decisions
  <2> QED
    BY <2>2, <2>3
<1>4. HeldAreAccountedFor'
  <2> SUFFICES ASSUME NEW p \in Pkg, Held(p), recipe[p] \in keyed
               PROVE  \E j \in Import : Accounts(j, p)'
    BY DEF HeldAreAccountedFor, HeldInv, Held, Live, Exists
  <2>1. PICK j \in Import : Accounts(j, p)
    BY DEF IInv, HeldAreAccountedFor, HeldInv
  <2>2. CASE j = i
    <3>1. imports[i].phase # "todo"
      BY <2>1, <2>2 DEF Accounts
    <3> QED
      BY <2>1, <2>2, <3>1 DEF Accounts, IInv, TypeOK, ImportState
  <2>3. CASE j # i
    BY <2>1, <2>3 DEF Accounts, IInv, TypeOK
  <2> QED
    BY <2>2, <2>3
<1> QED
  BY <1>1, <1>2, <1>3, <1>4 DEF IInv

\* Session s goes from one open transaction, or none, to another; no row changes.
LEMMA TxnMoves ==
    ASSUME IInv, NEW s \in Operators, NEW t \in Transaction,
           txn' = [txn EXCEPT ![s] = t],
           UNCHANGED <<pkgs, links, imports>>,
           flagged' \in BOOLEAN, auto_promote' \in [Recipe -> BOOLEAN],
           TxnInv(s)',
           \A p \in Pkg : \A j \in Import :
              Held(p) /\ recipe[p] \in keyed /\ imports[j].pkg = p /\ imports[j].held = "held"
              /\ t.kind \in Decisions /\ t.ready /\ t.result = j => t.pkg = p
    PROVE  IInv'
<1>1. TypeOK'
  BY DEF IInv, TypeOK
<1>2. s \notin Import /\ s \in Sessions
  BY ImportAssumption DEF Sessions
<1>3. Imports'
  BY <1>2 DEF IInv, TypeOK, Imports, ImportInv, Sessions
<1>4. Transactions'
  <2> SUFFICES ASSUME NEW u \in Sessions, u # s PROVE TxnInv(u)'
    BY DEF Transactions
  <2> QED
    BY DEF TxnInv, IInv, TypeOK, Transactions, Exists
<1>5. HeldAreAccountedFor'
  <2> SUFFICES ASSUME NEW p \in Pkg, Held(p), recipe[p] \in keyed
               PROVE  \E j \in Import : Accounts(j, p)'
    BY DEF HeldAreAccountedFor, HeldInv, Held, Live, Exists
  <2>1. PICK j \in Import : Accounts(j, p)
    BY DEF IInv, HeldAreAccountedFor, HeldInv
  <2>2. CASE imports[j].held = "direct"
    BY <2>1, <2>2 DEF Accounts
  <2>3. CASE imports[j].held = "held"
    <3>1. ASSUME NEW u \in Operators,
                 (txn[u].kind \in Decisions /\ txn[u].ready /\ txn[u].result = j)'
          PROVE  txn'[u].pkg = p
      <4>1. CASE u = s
        BY <1>2, <2>1, <2>3, <3>1, <4>1 DEF Accounts, IInv, TypeOK
      <4>2. CASE u # s
        BY <2>1, <2>3, <3>1, <4>2 DEF Accounts, IInv, TypeOK, Sessions
      <4> QED
        BY <4>1, <4>2
    <3> QED
      BY <2>1, <2>3, <3>1 DEF Accounts
  <2> QED
    BY <2>1, <2>2, <2>3 DEF Accounts
<1> QED
  BY <1>1, <1>3, <1>4, <1>5 DEF IInv

-----------------------------------------------------------------------------
(* The runner.                                                             *)

LEMMA IngestNothingKeeps ==
    ASSUME IInv, NEW i \in Import, NEW p \in Pkg, NEW naming \in NamingChoices,
           IngestNothing(i, p, naming)
    PROVE  IInv'
<1> DEFINE row == [imports[i] EXCEPT !.phase = "ingested", !.pkg = p, !.naming = naming]
<1>1. imports[i] \in ImportState
  BY DEF IInv, TypeOK
<1>2. naming \in Naming
  BY ImportAssumption DEF Naming
<1>3. row \in ImportState
  BY <1>1, <1>2 DEF ImportState
<1>4. imports' = [imports EXCEPT ![i] = row]
  BY DEF IngestNothing
<1>5. /\ row.phase = "ingested" /\ row.pkg = p /\ row.naming = naming
      /\ row.held = imports[i].held /\ row.approval = imports[i].approval
  BY <1>1 DEF ImportState
<1>6. imports[i].held = "not_ingested" /\ imports[i].approval = None
  BY DEF IngestNothing, IInv, Imports, ImportInv, TypeOK
<1> HIDE DEF row
<1>7. imports[i].phase = "todo" /\ UNCHANGED <<flagged, auto_promote, pkgs, links, txn>>
  BY DEF IngestNothing
<1>8. flagged' \in BOOLEAN /\ auto_promote' \in [Recipe -> BOOLEAN]
  BY <1>7 DEF IInv, TypeOK
<1> QED
  BY <1>3, <1>4, <1>5, <1>6, <1>7, <1>8, ImportMoves

LEMMA TrustFailureKeeps ==
    ASSUME IInv, NEW i \in Import, NEW p \in Pkg, TrustFailure(i, p)
    PROVE  IInv'
<1> DEFINE row == [imports[i] EXCEPT !.phase = "ingested", !.pkg = p,
                                     !.naming = "identifier", !.status = "trust_failed"]
<1>1. imports[i] \in ImportState
  BY DEF IInv, TypeOK
<1>3. row \in ImportState
  BY <1>1 DEF ImportState, Naming
<1>4. imports' = [imports EXCEPT ![i] = row]
  BY DEF TrustFailure
<1>5. /\ row.phase = "ingested" /\ row.pkg = p
      /\ row.held = imports[i].held /\ row.approval = imports[i].approval
  BY <1>1 DEF ImportState
<1>6. imports[i].held = "not_ingested" /\ imports[i].approval = None
  BY DEF TrustFailure, IInv, Imports, ImportInv, TypeOK
<1> HIDE DEF row
<1>7. imports[i].phase = "todo" /\ UNCHANGED <<flagged, auto_promote, pkgs, links, txn>>
  BY DEF TrustFailure
<1>8. flagged' \in BOOLEAN /\ auto_promote' \in [Recipe -> BOOLEAN]
  BY <1>7 DEF IInv, TypeOK
<1> QED
  BY <1>3, <1>4, <1>5, <1>6, <1>7, <1>8, ImportMoves

LEMMA PostResultKeeps ==
    ASSUME IInv, NEW i \in Import, PostResult(i)
    PROVE  IInv'
<1> DEFINE approval == ApprovalAtPost(i)
           row == [imports[i] EXCEPT !.phase = "posted", !.approval = approval]
<1>1. imports[i] \in ImportState
  BY DEF IInv, TypeOK
<1>2. approval \in {"pending", "auto_approved"} /\ approval \in ApprovalStatus /\ approval # None
  BY ImportAssumption DEF ApprovalAtPost, ApprovalStatus
<1>4. imports' = [imports EXCEPT ![i] = row]
  BY DEF PostResult
<1> HIDE DEF approval
<1>3. row \in ImportState
  BY <1>1, <1>2 DEF ImportState
<1>5. /\ row.phase = "posted" /\ row.pkg = imports[i].pkg /\ row.naming = imports[i].naming
      /\ row.status = imports[i].status
      /\ row.held = imports[i].held /\ row.approval = approval
  BY <1>1 DEF ImportState
<1> HIDE DEF row
<1>6. /\ imports[i].approval = None /\ imports[i].pkg \in Pkg
      /\ imports[i].held = "held" => imports[i].naming = "identifier" /\ imports[i].status = "imported"
  BY DEF PostResult, IInv, Imports, ImportInv, TypeOK
<1>7. imports[i].phase = "ingested" /\ UNCHANGED <<flagged, auto_promote, pkgs, links, txn>>
  BY DEF PostResult
<1>8. flagged' \in BOOLEAN /\ auto_promote' \in [Recipe -> BOOLEAN]
  BY <1>7 DEF IInv, TypeOK
<1> QED
  BY <1>2, <1>3, <1>4, <1>5, <1>6, <1>7, <1>8, ImportMoves

\* The ingest has its transaction open; nothing is written yet.
LEMMA IngestKeeps ==
    ASSUME IInv, NEW i \in Import, NEW p \in Pkg, NEW naming \in NamingChoices,
           NEW names \in IntendedChoices, Ingest(i, p, naming, names)
    PROVE  IInv'
<1> USE RowsAndIdle
<1>1. PICK held \in BOOLEAN : held = UseQuarantine(p, naming)
  BY DEF UseQuarantine
<1>2. PICK pending \in Pending : pending = IF held THEN ListOf(names) ELSE JsonNull
  BY ImportAssumption
<1> DEFINE t == [ kind    |-> "ingest",
                  result  |-> i,
                  ready   |-> TRUE,
                  pkg     |-> p,
                  fresh   |-> ~Exists(p),
                  base    |-> IF Exists(p) THEN pkgs[p] ELSE Uploaded,
                  row     |-> [pending |-> pending, is_deleted |-> FALSE],
                  removes |-> links[p],
                  adds    |-> AssignedNames(held, names) ]
           row == [imports[i] EXCEPT !.phase = "ingesting", !.pkg = p, !.naming = naming,
                                     !.held = IF held THEN "held" ELSE "direct"]
<1>3. txn' = [txn EXCEPT ![i] = t] /\ imports' = [imports EXCEPT ![i] = row]
  BY <1>1, <1>2 DEF Ingest
<1>4. i \in Sessions /\ imports[i] \in ImportState /\ naming \in Naming
  BY ImportAssumption DEF IInv, TypeOK, Sessions, Naming
<1>5. held => naming = "identifier"
  BY <1>1 DEF UseQuarantine
<1>6. t \in Transaction
  <2>1. t.base \in Row /\ t.row \in Row
    BY DEF IInv, TypeOK, Exists, Row
  <2>2. t.removes \in SUBSET Catalog /\ t.adds \in SUBSET Catalog
    BY ImportAssumption DEF IInv, TypeOK, AssignedNames
  <2> QED
    BY <2>1, <2>2 DEF Transaction
<1>7. row \in ImportState
  BY <1>4 DEF ImportState
<1>8. /\ t.kind = "ingest" /\ t.ready /\ t.pkg = p /\ (t.fresh <=> ~Exists(p))
      /\ held => t.adds = {Quarantine}
  BY DEF AssignedNames
<1>9. /\ row.phase = "ingesting" /\ row.pkg = p /\ row.naming = naming
      /\ row.status = imports[i].status /\ row.approval = imports[i].approval
      /\ row.held = IF held THEN "held" ELSE "direct"
  BY <1>4 DEF ImportState
<1> HIDE DEF t, row
<1>10. imports[i].phase = "todo" /\ UNCHANGED <<flagged, auto_promote, pkgs, links>>
  BY DEF Ingest
<1>10a. imports[i].status = "imported"
  BY <1>10 DEF IInv, Imports, ImportInv
<1>11. TypeOK'
  BY <1>3, <1>4, <1>6, <1>7, <1>9, <1>10 DEF IInv, TypeOK
<1>12. Imports'
  BY <1>3, <1>4, <1>5, <1>8, <1>9, <1>10, <1>10a DEF IInv, TypeOK, Imports, ImportInv, Sessions
<1>13. Transactions'
  <2> SUFFICES ASSUME NEW s \in Sessions PROVE TxnInv(s)'
    BY DEF Transactions
  <2>1. TxnInv(s)
    BY DEF IInv, Transactions
  <2>2. CASE s = i
    BY <1>3, <1>4, <1>8, <1>9, <1>10, <2>2 DEF TxnInv, IInv, TypeOK, Exists, Decisions
  <2>3. CASE s # i
    <3>1. \A j \in Import : imports'[j].approval = imports[j].approval
      BY <1>3, <1>9 DEF IInv, TypeOK
    <3>2. txn'[s] = txn[s] /\ (s \in Import => imports'[s] = imports[s])
      BY <1>3, <2>3 DEF IInv, TypeOK
    <3> QED
      BY <1>10, <2>1, <3>1, <3>2 DEF TxnInv, Exists
  <2> QED
    BY <2>2, <2>3
<1>14. HeldAreAccountedFor'
  <2> SUFFICES ASSUME NEW q \in Pkg, Held(q), recipe[q] \in keyed
               PROVE  \E j \in Import : Accounts(j, q)'
    BY <1>10 DEF HeldAreAccountedFor, HeldInv, Held, Live, Exists
  <2>1. PICK j \in Import : Accounts(j, q)
    BY DEF IInv, HeldAreAccountedFor, HeldInv
  <2>2. j # i
    BY <1>10, <2>1 DEF Accounts
  <2>3. i \notin Operators
    BY ImportAssumption
  <2>4. Accounts(j, q)'
    BY <1>3, <2>1, <2>2, <2>3 DEF Accounts, IInv, TypeOK, Sessions
  <2> QED
    BY <2>4
<1> QED
  BY <1>11, <1>12, <1>13, <1>14 DEF IInv

-----------------------------------------------------------------------------
(* Operators.                                                              *)

\* A decision that is begun loads nothing yet.
LEMMA DecideKeeps ==
    ASSUME IInv, NEW s \in Operators, NEW i \in Import, NEW kind \in Decisions,
           Decide(s, i, kind)
    PROVE  IInv'
<1> USE RowsAndIdle
<1> DEFINE t == [Idle EXCEPT !.kind = kind, !.result = i]
<1>1. t \in Transaction
  BY DEF Transaction, Decisions
<1>2. /\ t.kind = kind /\ t.result = i /\ t.ready = FALSE /\ t.pkg = None /\ t.fresh = FALSE
      /\ t.base = Uploaded /\ t.adds = {}
  BY DEF Idle
<1>3. txn' = [txn EXCEPT ![s] = t] /\ imports[i].approval = "pending"
  BY DEF Decide
<1> HIDE DEF t
<1>4. UNCHANGED <<flagged, auto_promote, pkgs, links, imports>>
  BY DEF Decide
<1>5. TxnInv(s)'
  <2>1. txn'[s] = t
    BY <1>3 DEF IInv, TypeOK, Sessions
  <2>2. "pending" # None
    BY ImportAssumption DEF ApprovalStatus
  <2> QED
    BY <1>2, <1>3, <1>4, <2>1, <2>2 DEF TxnInv, Decisions, Uploaded
<1> QED
  BY <1>1, <1>2, <1>3, <1>4, <1>5, TxnMoves DEF IInv, TypeOK

\* A held version of a title whose key is the title's name is found by its result.
LEMMA ResolvedFindsHeld ==
    ASSUME IInv, NEW i \in Import, NEW p \in Pkg, Held(p), recipe[p] \in keyed,
           imports[i].pkg = p, imports[i].naming = "identifier"
    PROVE  Resolved(i) = p
<1> DEFINE named == {q \in CandidatesOf(i) : /\ imports[i].naming = "identifier"
                                             /\ recipe[p] \in keyed /\ recipe[q] = recipe[p]}
<1>1. pkgs[p].pending # SqlNull
  BY DEF Held, SqlNull
<1>2. p \in named
  BY <1>1 DEF CandidatesOf, Held
<1>3. \A q \in named : q = p
  BY ImportAssumption DEF CandidatesOf
<1>4. named # {} /\ (CHOOSE q \in named : TRUE) = p
  BY <1>2, <1>3
<1>5. Resolved(i) = IF named # {} THEN CHOOSE q \in named : TRUE
                    ELSE IF Cardinality(CandidatesOf(i)) = 1
                    THEN CHOOSE q \in CandidatesOf(i) : TRUE
                    ELSE None
  BY DEF Resolved
<1> HIDE DEF named
<1> QED
  BY <1>4, <1>5

LEMMA ResolvedIsCandidate ==
    ASSUME NEW i \in Import PROVE Resolved(i) \in Pkg \cup {None}
<1> DEFINE named == {q \in CandidatesOf(i) : /\ imports[i].naming = "identifier"
                                             /\ recipe[imports[i].pkg] \in keyed
                                             /\ recipe[q] = recipe[imports[i].pkg]}
<1>1. CandidatesOf(i) \subseteq Pkg /\ named \subseteq Pkg
  BY DEF CandidatesOf
<1>2. Cardinality(CandidatesOf(i)) = 1 => CandidatesOf(i) # {}
  BY FS_EmptySet
<1>5. Resolved(i) = IF named # {} THEN CHOOSE q \in named : TRUE
                    ELSE IF Cardinality(CandidatesOf(i)) = 1
                    THEN CHOOSE q \in CandidatesOf(i) : TRUE
                    ELSE None
  BY DEF Resolved
<1> HIDE DEF named
<1>3. CASE named # {}
  BY <1>1, <1>3, <1>5
<1>4. CASE named = {} /\ Cardinality(CandidatesOf(i)) = 1
  BY <1>1, <1>2, <1>4, <1>5
<1> QED
  BY <1>3, <1>4, <1>5

LEMMA ResolveKeeps ==
    ASSUME IInv, NEW s \in Operators, Resolve(s)
    PROVE  IInv'
<1> USE RowsAndIdle
<1>1. PICK old \in Transaction : old = txn[s]
  BY DEF IInv, TypeOK, Sessions
<1>2. PICK i \in Import : i = old.result
  BY <1>1 DEF Resolve, IInv, Transactions, TxnInv, Sessions, Decisions
<1>3. PICK p \in Pkg \cup {None} : p = Resolved(i)
  BY ResolvedIsCandidate
<1>4. /\ old.kind \in Decisions /\ ~old.ready
      /\ UNCHANGED <<flagged, auto_promote, pkgs, links, imports>>
  BY <1>1 DEF Resolve, Decisions
<1>5. TxnInv(s)
  BY DEF IInv, Transactions, Sessions
<1>6. CASE imports[i].status = "imported" /\ p # None /\ Held(p)
  <2> DEFINE row == [pending |-> JsonNull, is_deleted |-> old.kind = "reject"]
             names == IF old.kind = "approve" THEN pkgs[p].pending.names ELSE {}
             t == [old EXCEPT !.ready = TRUE, !.pkg = p, !.base = pkgs[p], !.row = row,
                              !.removes = links[p], !.adds = names]
  <2>1. p \in Pkg /\ Exists(p) /\ pkgs[p] \in Row /\ ~pkgs[p].is_deleted
    BY <1>6 DEF IInv, TypeOK, Held, Live, Exists
  <2>2. txn' = [txn EXCEPT ![s] = t]
    BY <1>1, <1>2, <1>3, <1>6 DEF Resolve
  <2>3. row \in Row /\ row.pending = JsonNull
    BY DEF Row
  <2>4. names \in SUBSET Catalog /\ links[p] \in SUBSET Catalog /\ (old.kind = "reject" => names = {})
    BY <2>1 DEF IInv, TypeOK, Row, Pending
  <2> HIDE DEF row, names
  <2>5. t \in Transaction
    BY <2>1, <2>3, <2>4 DEF Transaction
  <2>6. /\ t.kind = old.kind /\ t.result = i /\ t.ready = TRUE /\ t.pkg = p
        /\ t.fresh = old.fresh /\ t.base = pkgs[p] /\ t.row = row /\ t.adds = names
    BY <1>2 DEF Transaction
  <2> HIDE DEF t
  <2>7. pkgs[p].pending # JsonNull
    BY <1>6 DEF Held, JsonNull
  <2>8. TxnInv(s)'
    <3>1. txn'[s] = t
      BY <2>2 DEF IInv, TypeOK, Sessions
    <3> QED
      BY <1>1, <1>2, <1>4, <1>5, <2>1, <2>3, <2>4, <2>6, <2>7, <3>1 DEF TxnInv, Decisions, Exists
  <2>9. ASSUME NEW q \in Pkg, NEW j \in Import, Held(q), recipe[q] \in keyed,
               imports[j].pkg = q, imports[j].held = "held", t.result = j
        PROVE  t.pkg = q
    <3>1. imports[j].naming = "identifier"
      BY <2>9 DEF IInv, Imports, ImportInv
    <3> QED
      BY <1>3, <2>6, <2>9, <3>1, ResolvedFindsHeld
  <2>10. \A q \in Pkg : \A j \in Import :
            Held(q) /\ recipe[q] \in keyed /\ imports[j].pkg = q /\ imports[j].held = "held"
            /\ t.kind \in Decisions /\ t.ready /\ t.result = j => t.pkg = q
    BY <2>9
  <2>11. flagged' \in BOOLEAN /\ auto_promote' \in [Recipe -> BOOLEAN]
    BY <1>4 DEF IInv, TypeOK
  <2> QED
    BY <1>4, <2>2, <2>5, <2>8, <2>10, <2>11, TxnMoves
<1>7. CASE ~(imports[i].status = "imported" /\ p # None /\ Held(p))
  <2> DEFINE t == [old EXCEPT !.ready = TRUE]
  <2>2. txn' = [txn EXCEPT ![s] = t]
    BY <1>1, <1>2, <1>3, <1>7 DEF Resolve
  <2>5. t \in Transaction
    BY DEF Transaction
  <2>6. /\ t.kind = old.kind /\ t.result = i /\ t.ready = TRUE /\ t.pkg = old.pkg
        /\ t.fresh = old.fresh /\ t.base = old.base /\ t.row = old.row /\ t.adds = old.adds
    BY <1>2 DEF Transaction
  <2> HIDE DEF t
  <2>8. TxnInv(s)'
    <3>1. txn'[s] = t
      BY <2>2 DEF IInv, TypeOK, Sessions
    <3> QED
      BY <1>1, <1>2, <1>4, <1>5, <2>6, <3>1 DEF TxnInv, Decisions, Exists
  <2>9. ASSUME NEW q \in Pkg, NEW j \in Import, Held(q), recipe[q] \in keyed,
               imports[j].pkg = q, imports[j].held = "held", t.result = j
        PROVE  t.pkg = q
    <3>1. imports[j].naming = "identifier" /\ imports[j].status = "imported"
      BY <2>9 DEF IInv, Imports, ImportInv
    <3>2. p = q
      BY <1>3, <2>6, <2>9, <3>1, ResolvedFindsHeld
    <3> QED
      BY <1>7, <2>6, <2>9, <3>1, <3>2, ImportAssumption
  <2>10. \A q \in Pkg : \A j \in Import :
            Held(q) /\ recipe[q] \in keyed /\ imports[j].pkg = q /\ imports[j].held = "held"
            /\ t.kind \in Decisions /\ t.ready /\ t.result = j => t.pkg = q
    BY <2>9
  <2>11. flagged' \in BOOLEAN /\ auto_promote' \in [Recipe -> BOOLEAN]
    BY <1>4 DEF IInv, TypeOK
  <2> QED
    BY <1>4, <2>2, <2>5, <2>8, <2>10, <2>11, TxnMoves
<1> QED
  BY <1>6, <1>7

LEMMA AssignKeeps ==
    ASSUME IInv, NEW s \in Operators, NEW p \in Pkg, Assign(s, p)
    PROVE  IInv'
<1>1. Exists(p) /\ UNCHANGED <<flagged, auto_promote, pkgs, links, imports>>
  BY DEF Assign
<1> DEFINE old == [Idle EXCEPT !.kind = "assign", !.ready = TRUE, !.pkg = p, !.base = pkgs[p],
                               !.row = pkgs[p]]
<1>2. /\ old \in Transaction /\ Loaded(s, "assign", p) = old
      /\ old.kind = "assign" /\ old.ready = TRUE /\ old.fresh = FALSE /\ old.pkg = p
      /\ old.base = pkgs[p] /\ old.row = pkgs[p] /\ old.adds = {}
  <2>1. pkgs[p] \in Row
    BY <1>1 DEF IInv, TypeOK, Exists
  <2> QED
    BY <2>1, RowsAndIdle DEF Loaded, Idle, Transaction
<1> HIDE DEF old
<1>3. PICK names \in AssignChoices :
         txn' = [txn EXCEPT ![s] = [old EXCEPT !.removes = links[p], !.adds = names]]
  BY <1>2 DEF Assign
<1> DEFINE t == [old EXCEPT !.removes = links[p], !.adds = names]
<1>4. t \in Transaction
  BY <1>2, ImportAssumption DEF IInv, TypeOK, Transaction
<1>5. /\ t.kind = "assign" /\ t.ready = TRUE /\ t.fresh = FALSE /\ t.pkg = p
      /\ t.base = pkgs[p] /\ t.row = pkgs[p]
  BY <1>2 DEF Transaction
<1>6. txn' = [txn EXCEPT ![s] = t]
  BY <1>3
<1> HIDE DEF t
<1>7. txn'[s] = t
  BY <1>6 DEF IInv, TypeOK, Sessions
<1>8. TxnInv(s)'
  BY <1>1, <1>5, <1>7 DEF TxnInv, Decisions, Exists
<1>9. t.kind \notin Decisions
  BY <1>5 DEF Decisions
<1>10. flagged' \in BOOLEAN /\ auto_promote' \in [Recipe -> BOOLEAN]
  BY <1>1 DEF IInv, TypeOK
<1> QED
  BY <1>1, <1>4, <1>6, <1>8, <1>9, <1>10, TxnMoves

LEMMA DeleteKeeps ==
    ASSUME IInv, NEW s \in Operators, NEW p \in Pkg, Delete(s, p)
    PROVE  IInv'
<1>1. Exists(p) /\ UNCHANGED <<flagged, auto_promote, pkgs, links, imports>>
  BY DEF Delete
<1> DEFINE old == [Idle EXCEPT !.kind = "delete", !.ready = TRUE, !.pkg = p, !.base = pkgs[p],
                               !.row = pkgs[p]]
<1>2. /\ old \in Transaction /\ Loaded(s, "delete", p) = old
      /\ old.kind = "delete" /\ old.ready = TRUE /\ old.fresh = FALSE /\ old.pkg = p
      /\ old.base = pkgs[p] /\ old.row = pkgs[p] /\ old.adds = {}
  <2>1. pkgs[p] \in Row
    BY <1>1 DEF IInv, TypeOK, Exists
  <2> QED
    BY <2>1, RowsAndIdle DEF Loaded, Idle, Transaction
<1> HIDE DEF old
<1> DEFINE row == [old.row EXCEPT !.is_deleted = TRUE]
           t == [old EXCEPT !.row = row]
<1>3. txn' = [txn EXCEPT ![s] = t]
  BY <1>2 DEF Delete
<1>4. row \in Row /\ row.pending = pkgs[p].pending /\ row.is_deleted = TRUE
  BY <1>2 DEF Transaction, Row
<1> HIDE DEF row
<1>5. t \in Transaction
  BY <1>2, <1>4 DEF Transaction
<1>6. /\ t.kind = "delete" /\ t.ready = TRUE /\ t.fresh = FALSE /\ t.pkg = p
      /\ t.base = pkgs[p] /\ t.row = row /\ t.adds = {}
  BY <1>2 DEF Transaction
<1> HIDE DEF t
<1>7. txn'[s] = t
  BY <1>3 DEF IInv, TypeOK, Sessions
<1>8. TxnInv(s)'
  BY <1>1, <1>4, <1>6, <1>7 DEF TxnInv, Decisions, Exists
<1>9. t.kind \notin Decisions
  BY <1>6 DEF Decisions
<1>10. flagged' \in BOOLEAN /\ auto_promote' \in [Recipe -> BOOLEAN]
  BY <1>1 DEF IInv, TypeOK
<1> QED
  BY <1>1, <1>3, <1>5, <1>8, <1>9, <1>10, TxnMoves

\* Flags change; no row and no transaction does.
LEMMA FlagsKeep ==
    ASSUME IInv, flagged' \in BOOLEAN, auto_promote' \in [Recipe -> BOOLEAN],
           UNCHANGED <<pkgs, links, imports, txn>>
    PROVE  IInv'
<1>1. TypeOK'
  BY DEF IInv, TypeOK
<1>2. Imports' /\ Transactions'
  BY DEF IInv, Imports, ImportInv, Transactions, TxnInv, Exists
<1>3. HeldAreAccountedFor'
  BY DEF IInv, HeldAreAccountedFor, HeldInv, Held, Live, Exists, Accounts
<1> QED
  BY <1>1, <1>2, <1>3 DEF IInv

-----------------------------------------------------------------------------
(* The end of a transaction.                                               *)

\* A failed ingest leaves its import without a held version to account for.
LEMMA RollbackKeeps ==
    ASSUME IInv, NEW s \in Sessions, Rollback(s)
    PROVE  IInv'
<1> USE RowsAndIdle
<1>1. TxnInv(s)
  BY DEF IInv, Transactions
<1>2. /\ txn' = [txn EXCEPT ![s] = Idle]
      /\ UNCHANGED <<flagged, auto_promote, pkgs, links>>
  BY DEF Rollback
<1>4. imports' \in [Import -> ImportState] /\
      \A j \in Import :
        /\ imports'[j].pkg = imports[j].pkg /\ imports'[j].approval = imports[j].approval
        /\ imports'[j].naming = imports[j].naming /\ imports'[j].status = imports[j].status
        /\ IF j = s /\ txn[s].kind = "ingest"
           THEN imports'[j].phase = "ingested" /\ imports'[j].held = "not_ingested"
           ELSE imports'[j].phase = imports[j].phase /\ imports'[j].held = imports[j].held
  <2>1. CASE txn[s].kind = "ingest"
    <3>1. s \in Import
      BY <1>1, <2>1 DEF TxnInv
    <3>2. imports' = [imports EXCEPT ![s].phase = "ingested", ![s].held = "not_ingested"]
      BY <2>1 DEF Rollback
    <3> DEFINE row == [imports[s] EXCEPT !.phase = "ingested", !.held = "not_ingested"]
    <3>3. imports' = [imports EXCEPT ![s] = row]
      BY <3>2
    <3>4. imports[s] \in ImportState
      BY <3>1 DEF IInv, TypeOK
    <3>5. /\ row \in ImportState /\ row.phase = "ingested" /\ row.held = "not_ingested"
          /\ row.pkg = imports[s].pkg /\ row.approval = imports[s].approval
          /\ row.naming = imports[s].naming /\ row.status = imports[s].status
      BY <3>4 DEF ImportState
    <3> HIDE DEF row
    <3> QED
      BY <2>1, <3>1, <3>3, <3>5 DEF IInv, TypeOK
  <2>2. CASE txn[s].kind # "ingest"
    BY <2>2 DEF Rollback, IInv, TypeOK
  <2> QED
    BY <2>1, <2>2
<1>5. \A j \in Import : j = s /\ txn[s].kind = "ingest" => imports[j].phase = "ingesting"
  BY DEF IInv, Imports, ImportInv
<1>6. TypeOK'
  BY <1>2, <1>4, <1>5 DEF IInv, TypeOK
<1>7. Imports'
  BY <1>2, <1>4, <1>5 DEF IInv, TypeOK, Imports, ImportInv, Sessions
<1>8. Transactions'
  <2> SUFFICES ASSUME NEW u \in Sessions PROVE TxnInv(u)'
    BY DEF Transactions
  <2>1. CASE u = s
    <3>1. txn'[u] = Idle
      BY <1>2, <2>1 DEF IInv, TypeOK
    <3> QED
      BY <3>1 DEF TxnInv, Decisions
  <2>2. CASE u # s
    <3>1. txn'[u] = txn[u] /\ TxnInv(u)
      BY <1>2, <2>2 DEF IInv, TypeOK, Transactions
    <3> QED
      BY <1>2, <1>4, <2>2, <3>1 DEF TxnInv, Exists
  <2> QED
    BY <2>1, <2>2
<1>9. HeldAreAccountedFor'
  <2> SUFFICES ASSUME NEW p \in Pkg, Held(p), recipe[p] \in keyed
               PROVE  \E j \in Import : Accounts(j, p)'
    BY <1>2 DEF HeldAreAccountedFor, HeldInv, Held, Live, Exists
  <2>1. PICK j \in Import : Accounts(j, p)
    BY DEF IInv, HeldAreAccountedFor, HeldInv
  <2>2. ~(j = s /\ txn[s].kind = "ingest")
    BY <1>5, <2>1 DEF Accounts
  <2>3. \A u \in Operators : txn'[u] = txn[u] \/ txn'[u] = Idle
    BY <1>2 DEF IInv, TypeOK, Sessions
  <2>4. Accounts(j, p)'
    BY <1>4, <2>1, <2>2, <2>3 DEF Accounts, Decisions
  <2> QED
    BY <2>4
<1> QED
  BY <1>6, <1>7, <1>8, <1>9 DEF IInv

\* What a commit makes of the row, of the other transactions and of the imports.
LEMMA CommitEffects ==
    ASSUME IInv, NEW s \in Sessions, NEW t \in Transaction, t = txn[s], Commit(s)
    PROVE  /\ t.ready /\ t.kind # "idle"
           /\ t.fresh => t.kind = "ingest" /\ ~Exists(t.pkg)
           /\ \A p \in Pkg : p # t.pkg => pkgs'[p] = pkgs[p] /\ links'[p] = links[p]
           /\ t.pkg # None =>
                 /\ t.pkg \in Pkg
                 /\ ~t.fresh => pkgs[t.pkg] \in Row
                 /\ pkgs'[t.pkg] = IF t.fresh THEN t.row ELSE FlushChanged(pkgs[t.pkg], t.base, t.row)
                 /\ pkgs'[t.pkg] \in Row /\ pkgs'[t.pkg] # None
                 /\ links'[t.pkg] = (links[t.pkg] \ t.removes) \cup t.adds
           /\ txn'[s] = Idle
           /\ \A u \in Sessions : u # s =>
                 /\ txn'[u] \in Transaction
                 /\ txn'[u].kind = txn[u].kind /\ txn'[u].result = txn[u].result
                 /\ txn'[u].ready = txn[u].ready /\ txn'[u].pkg = txn[u].pkg
                 /\ txn'[u].fresh = txn[u].fresh /\ txn'[u].base = txn[u].base
                 /\ txn'[u].row = txn[u].row /\ txn'[u].adds = txn[u].adds
<1> USE RowsAndIdle
<1>1. t.ready /\ ~Conflicts(t) /\ TxnInv(s)
  BY DEF Commit, IInv, Transactions
<1>2. t.kind # "idle"
  BY <1>1 DEF TxnInv
<1>3. t.fresh => t.kind = "ingest" /\ t.pkg \in Pkg /\ ~Exists(t.pkg)
  BY <1>1, ImportAssumption DEF TxnInv, Conflicts
<1>4. \A p \in Pkg : /\ pkgs'[p] = IF p # t.pkg THEN pkgs[p]
                                   ELSE IF t.fresh THEN t.row
                                   ELSE FlushChanged(pkgs[p], t.base, t.row)
                     /\ links'[p] = IF p # t.pkg THEN links[p]
                                    ELSE (links[p] \ t.removes) \cup t.adds
  BY DEF Commit
<1>5. t.pkg # None => t.pkg \in Pkg
  BY DEF Transaction
<1>6. t.pkg # None /\ ~t.fresh => pkgs[t.pkg] \in Row
  BY <1>1, <1>5 DEF TxnInv, Exists, IInv, TypeOK
<1>7. \A current, base, row \in Row : FlushChanged(current, base, row) \in Row
  BY DEF FlushChanged, Row
<1>8. t.base \in Row /\ t.row \in Row
  BY DEF Transaction
<1>9. t.pkg # None =>
        /\ pkgs'[t.pkg] = IF t.fresh THEN t.row ELSE FlushChanged(pkgs[t.pkg], t.base, t.row)
        /\ pkgs'[t.pkg] \in Row
        /\ links'[t.pkg] = (links[t.pkg] \ t.removes) \cup t.adds
  <2> SUFFICES ASSUME t.pkg # None
               PROVE  /\ pkgs'[t.pkg] = IF t.fresh THEN t.row
                                        ELSE FlushChanged(pkgs[t.pkg], t.base, t.row)
                      /\ pkgs'[t.pkg] \in Row
                      /\ links'[t.pkg] = (links[t.pkg] \ t.removes) \cup t.adds
    OBVIOUS
  <2>1. PICK p \in Pkg : p = t.pkg
    BY <1>5
  <2>2. pkgs'[p] = IF t.fresh THEN t.row ELSE FlushChanged(pkgs[p], t.base, t.row)
    BY <1>4, <2>1
  <2>3. pkgs'[p] \in Row
    <3>1. CASE t.fresh
      BY <1>8, <2>2, <3>1
    <3>2. CASE ~t.fresh
      <4>1. PICK current \in Row : current = pkgs[p]
        BY <1>6, <2>1, <3>2
      <4>2. FlushChanged(current, t.base, t.row) \in Row
        BY <1>7, <1>8
      <4> QED
        BY <2>2, <3>2, <4>1, <4>2
    <3> QED
      BY <3>1, <3>2
  <2> QED
    BY <1>4, <2>1, <2>2, <2>3
<1>10. txn'[s] = Idle /\ \A u \in Sessions : u # s => txn'[u] = Overtaken(txn[u], t)
  BY DEF Commit
<1>11. ASSUME NEW u \in Sessions, u # s
       PROVE  /\ txn'[u] \in Transaction
              /\ txn'[u].kind = txn[u].kind /\ txn'[u].result = txn[u].result
              /\ txn'[u].ready = txn[u].ready /\ txn'[u].pkg = txn[u].pkg
              /\ txn'[u].fresh = txn[u].fresh /\ txn'[u].base = txn[u].base
              /\ txn'[u].row = txn[u].row /\ txn'[u].adds = txn[u].adds
  <2>1. PICK old \in Transaction : old = txn[u]
    BY DEF IInv, TypeOK
  <2>2. CASE old.pkg = t.pkg
    <3> DEFINE x == [old EXCEPT !.removes = @ \ t.removes]
    <3>1. txn'[u] = x
      BY <1>10, <1>11, <2>1, <2>2 DEF Overtaken
    <3>2. x \in Transaction
      BY DEF Transaction
    <3>3. /\ x.kind = old.kind /\ x.result = old.result /\ x.ready = old.ready
          /\ x.pkg = old.pkg /\ x.fresh = old.fresh /\ x.base = old.base
          /\ x.row = old.row /\ x.adds = old.adds
      BY DEF Transaction
    <3> HIDE DEF x
    <3> QED
      BY <2>1, <3>1, <3>2, <3>3
  <2>3. CASE old.pkg # t.pkg
    BY <1>10, <1>11, <2>1, <2>3 DEF Overtaken
  <2> QED
    BY <2>2, <2>3
<1>12. None \notin Row
  BY ImportAssumption
<1> QED
  BY <1>1, <1>2, <1>3, <1>4, <1>5, <1>6, <1>9, <1>10, <1>11, <1>12

LEMMA SettledEffects ==
    ASSUME IInv, NEW s \in Sessions, NEW t \in Transaction, t = txn[s], Commit(s)
    PROVE  /\ imports' \in [Import -> ImportState]
           /\ \A j \in Import :
                 /\ imports'[j].pkg = imports[j].pkg /\ imports'[j].naming = imports[j].naming
                 /\ imports'[j].status = imports[j].status /\ imports'[j].held = imports[j].held
                 /\ imports'[j].phase = IF t.kind = "ingest" /\ j = s THEN "ingested"
                                        ELSE imports[j].phase
                 /\ IF t.kind \in Decisions /\ j = t.result
                    THEN /\ imports'[j].approval \in {"approved", "rejected"}
                         /\ imports[j].approval # None /\ imports'[j].approval # None
                    ELSE imports'[j].approval = imports[j].approval
<1>1. TxnInv(s) /\ imports' = Settled(s)
  BY DEF Commit, IInv, Transactions
<1>2. CASE t.kind \in Decisions
  <2>1. PICK i \in Import : i = t.result /\ imports[i].approval # None
    BY <1>1, <1>2 DEF TxnInv
  <2>2. PICK approval \in {"approved", "rejected"} :
           imports' = [imports EXCEPT ![i].approval = approval]
    BY <1>1, <1>2, <2>1 DEF Settled, Decisions
  <2>3. approval # None /\ approval \in ApprovalStatus
    BY ImportAssumption DEF ApprovalStatus
  <2> DEFINE row == [imports[i] EXCEPT !.approval = approval]
  <2>4. imports[i] \in ImportState
    BY DEF IInv, TypeOK
  <2>5. /\ row \in ImportState /\ row.approval = approval /\ row.phase = imports[i].phase
        /\ row.pkg = imports[i].pkg /\ row.naming = imports[i].naming
        /\ row.status = imports[i].status /\ row.held = imports[i].held
    BY <2>3, <2>4 DEF ImportState
  <2>6. imports' = [imports EXCEPT ![i] = row]
    BY <2>2
  <2> HIDE DEF row
  <2> QED
    BY <1>2, <2>1, <2>3, <2>5, <2>6 DEF IInv, TypeOK, Decisions
<1>3. CASE t.kind = "ingest"
  <2>1. s \in Import
    BY <1>1, <1>3 DEF TxnInv
  <2>2. imports' = [imports EXCEPT ![s].phase = "ingested"]
    BY <1>1, <1>3 DEF Settled
  <2> DEFINE row == [imports[s] EXCEPT !.phase = "ingested"]
  <2>4. imports[s] \in ImportState
    BY <2>1 DEF IInv, TypeOK
  <2>5. /\ row \in ImportState /\ row.approval = imports[s].approval /\ row.phase = "ingested"
        /\ row.pkg = imports[s].pkg /\ row.naming = imports[s].naming
        /\ row.status = imports[s].status /\ row.held = imports[s].held
    BY <2>4 DEF ImportState
  <2>6. imports' = [imports EXCEPT ![s] = row]
    BY <2>2
  <2> HIDE DEF row
  <2> QED
    BY <1>3, <2>1, <2>5, <2>6 DEF IInv, TypeOK, Decisions
<1>4. CASE t.kind \notin Decisions \cup {"ingest"}
  BY <1>1, <1>4 DEF Settled, IInv, TypeOK, Decisions
<1> QED
  BY <1>2, <1>3, <1>4

LEMMA CommitKeeps ==
    ASSUME IInv, NEW s \in Sessions, Commit(s)
    PROVE  IInv'
<1> USE RowsAndIdle
<1>1. PICK t \in Transaction : t = txn[s]
  BY DEF IInv, TypeOK
<1> DEFINE E1 == /\ t.ready /\ t.kind # "idle"
                 /\ t.fresh => t.kind = "ingest" /\ ~Exists(t.pkg)
<1>2. /\ E1
      /\ \A p \in Pkg : p # t.pkg => pkgs'[p] = pkgs[p] /\ links'[p] = links[p]
      /\ t.pkg # None =>
            /\ t.pkg \in Pkg
            /\ ~t.fresh => pkgs[t.pkg] \in Row
            /\ pkgs'[t.pkg] = IF t.fresh THEN t.row ELSE FlushChanged(pkgs[t.pkg], t.base, t.row)
            /\ pkgs'[t.pkg] \in Row /\ pkgs'[t.pkg] # None
            /\ links'[t.pkg] = (links[t.pkg] \ t.removes) \cup t.adds
  BY <1>1, CommitEffects
<1>3. txn'[s] = Idle /\
      \A u \in Sessions : u # s =>
            /\ txn'[u] \in Transaction
            /\ txn'[u].kind = txn[u].kind /\ txn'[u].result = txn[u].result
            /\ txn'[u].ready = txn[u].ready /\ txn'[u].pkg = txn[u].pkg
            /\ txn'[u].fresh = txn[u].fresh /\ txn'[u].base = txn[u].base
            /\ txn'[u].row = txn[u].row /\ txn'[u].adds = txn[u].adds
  BY <1>1, CommitEffects
<1>4. imports' \in [Import -> ImportState] /\
      \A j \in Import :
         /\ imports'[j].pkg = imports[j].pkg /\ imports'[j].naming = imports[j].naming
         /\ imports'[j].status = imports[j].status /\ imports'[j].held = imports[j].held
         /\ imports'[j].phase = IF t.kind = "ingest" /\ j = s THEN "ingested"
                                ELSE imports[j].phase
         /\ IF t.kind \in Decisions /\ j = t.result
            THEN /\ imports'[j].approval \in {"approved", "rejected"}
                 /\ imports[j].approval # None /\ imports'[j].approval # None
            ELSE imports'[j].approval = imports[j].approval
  BY <1>1, SettledEffects
<1>5. t.kind = "ingest" => s \in Import /\ imports[s].phase = "ingesting"
  BY <1>1 DEF IInv, Transactions, TxnInv, Imports, ImportInv
<1>6. \A p \in Pkg : Exists(p) => Exists(p)'
  BY <1>2, ImportAssumption DEF Exists
<1>7. TypeOK'
  <2>1. pkgs' \in [Pkg -> Row \cup {None}]
    <3>1. \A p \in Pkg : pkgs'[p] \in Row \cup {None}
      BY <1>2, ImportAssumption DEF IInv, TypeOK
    <3> QED
      BY <3>1 DEF Commit
  <2>2. links' \in [Pkg -> SUBSET Catalog]
    <3>1. \A p \in Pkg : links'[p] \in SUBSET Catalog
      BY <1>2, ImportAssumption DEF IInv, TypeOK, Transaction
    <3> QED
      BY <3>1 DEF Commit
  <2>3. \A p \in Pkg : pkgs'[p] = None => links'[p] = {}
    BY <1>2, ImportAssumption DEF IInv, TypeOK
  <2>4. txn' \in [Sessions -> Transaction]
    <3>1. \A u \in Sessions : txn'[u] \in Transaction
      BY <1>3
    <3> QED
      BY <3>1 DEF Commit
  <2>5. \A i \in Import : imports'[i].phase = "posted" <=> imports'[i].approval # None
    BY <1>4, <1>5 DEF IInv, TypeOK
  <2>6. flagged' \in BOOLEAN /\ auto_promote' \in [Recipe -> BOOLEAN]
    BY DEF Commit, IInv, TypeOK
  <2> QED
    BY <1>4, <2>1, <2>2, <2>3, <2>4, <2>5, <2>6 DEF TypeOK
<1>8. Imports'
  <2> SUFFICES ASSUME NEW i \in Import PROVE ImportInv(i)'
    BY DEF Imports
  <2>1. ImportInv(i) /\ i \in Sessions
    BY DEF IInv, Imports, Sessions
  <2> QED
    BY <1>1, <1>3, <1>4, <1>5, <2>1 DEF ImportInv
<1>9. Transactions'
  <2> SUFFICES ASSUME NEW u \in Sessions PROVE TxnInv(u)'
    BY DEF Transactions
  <2>1. CASE u = s
    BY <1>3, <2>1 DEF TxnInv, Decisions
  <2>2. CASE u # s
    <3>1. TxnInv(u)
      BY DEF IInv, Transactions
    <3>2. txn[u].pkg # None => txn[u].pkg \in Pkg
      BY DEF IInv, TypeOK, Transaction
    <3> HIDE DEF E1
    <3> QED
      BY <1>3, <1>4, <1>6, <2>2, <3>1, <3>2 DEF TxnInv
  <2> QED
    BY <2>1, <2>2
<1>10. HeldAreAccountedFor'
  <2> SUFFICES ASSUME NEW p \in Pkg, Held(p)', recipe[p] \in keyed
               PROVE  \E j \in Import : Accounts(j, p)'
    BY DEF HeldAreAccountedFor, HeldInv
  <2>1. CASE t.kind = "ingest" /\ t.pkg = p
    <3>1. /\ s \in Import /\ imports[s].pkg = p /\ imports[s].held \in {"held", "direct"}
          /\ imports[s].approval = None
      BY <1>1, <1>5, <2>1 DEF IInv, Transactions, TxnInv, Imports, ImportInv, TypeOK, ImportState
    <3>2. ASSUME NEW u \in Operators, txn'[u].kind \in Decisions PROVE txn'[u].result # s
      BY <1>3, <3>1, <3>2 DEF IInv, Transactions, TxnInv, Sessions, Decisions
    <3>3. imports'[s].approval \notin {"approved", "rejected"}
      BY <1>4, <2>1, <3>1, ImportAssumption DEF Decisions, ApprovalStatus
    <3>4. Accounts(s, p)'
      BY <1>4, <2>1, <3>1, <3>2, <3>3 DEF Accounts
    <3> QED
      BY <3>1, <3>4
  <2>2. CASE ~(t.kind = "ingest" /\ t.pkg = p)
    <3>1. Held(p) /\ ~(t.kind \in Decisions /\ t.pkg = p)
      <4>1. CASE t.pkg # p
        BY <1>2, <4>1 DEF Held, Live, Exists
      <4>2. CASE t.pkg = p
        <5>1. /\ t.base.is_deleted => t.row.is_deleted
              /\ t.kind \in Decisions => t.base.pending # JsonNull /\ t.row.pending = JsonNull
              /\ t.kind \notin Decisions => t.row.pending = t.base.pending
          BY <1>1, <1>2, <2>2, <4>2, ImportAssumption
             DEF IInv, Transactions, TxnInv, Transaction, Decisions
        <5>2. pkgs'[p] = FlushChanged(pkgs[p], t.base, t.row) /\ pkgs[p] \in Row /\ pkgs[p] # None
          BY <1>2, <2>2, <4>2, ImportAssumption
        <5>3. t.base.is_deleted \in BOOLEAN /\ t.row.is_deleted \in BOOLEAN
              /\ pkgs[p].is_deleted \in BOOLEAN
          BY <5>2 DEF Transaction, Row
        <5>4. ~pkgs'[p].is_deleted /\ pkgs'[p].pending.names # {}
          BY DEF Held, Live
        <5>5. ~pkgs[p].is_deleted
          BY <5>1, <5>2, <5>3, <5>4 DEF FlushChanged
        <5>6. t.kind \notin Decisions
          BY <5>1, <5>2, <5>4 DEF FlushChanged, JsonNull
        <5>7. pkgs'[p].pending = pkgs[p].pending
          BY <5>1, <5>2, <5>6 DEF FlushChanged
        <5> QED
          BY <5>2, <5>4, <5>5, <5>6, <5>7 DEF Held, Live, Exists
      <4> QED
        BY <4>1, <4>2
    <3>2. PICK j \in Import : Accounts(j, p)
      BY <3>1 DEF IInv, HeldAreAccountedFor, HeldInv
    <3>3. imports'[j].pkg = p /\ imports'[j].phase \in {"ingested", "posted"}
      BY <1>4, <3>2 DEF Accounts
    <3>4. CASE imports[j].held = "direct"
      BY <1>4, <3>3, <3>4 DEF Accounts
    <3>5. CASE imports[j].held = "held"
      <4>1. /\ imports[j].approval \notin {"approved", "rejected"}
            /\ \A u \in Operators :
                  txn[u].kind \in Decisions /\ txn[u].ready /\ txn[u].result = j => txn[u].pkg = p
        BY <3>2, <3>5 DEF Accounts
      <4>2. t.kind \in Decisions => s \in Operators
        BY <1>1 DEF IInv, Transactions, TxnInv
      <4>3. imports'[j].approval \notin {"approved", "rejected"}
        BY <1>1, <1>2, <1>4, <3>1, <4>1, <4>2
      <4>4. \A u \in Operators :
               txn'[u].kind \in Decisions /\ txn'[u].ready /\ txn'[u].result = j => txn'[u].pkg = p
        BY <1>3, <4>1 DEF Sessions
      <4> QED
        BY <1>4, <3>3, <3>5, <4>3, <4>4 DEF Accounts
    <3> QED
      BY <3>2, <3>4, <3>5 DEF Accounts
  <2> QED
    BY <2>1, <2>2
<1> QED
  BY <1>7, <1>8, <1>9, <1>10 DEF IInv

-----------------------------------------------------------------------------
(* The invariant.                                                          *)

LEMMA NextIInv == IInv /\ [Next]_vars => IInv'
<1> SUFFICES ASSUME IInv, [Next]_vars PROVE IInv'
  OBVIOUS
<1>1. ASSUME NEW i \in Import, Runner(i) PROVE IInv'
  BY <1>1, IngestNothingKeeps, IngestKeeps, TrustFailureKeeps, PostResultKeeps DEF Runner
<1>2. ASSUME NEW s \in Operators, Operator(s) PROVE IInv'
  <2>1. ASSUME NEW r \in Recipe, EditRecipe(s, r) PROVE IInv'
    BY <2>1, FlagsKeep DEF EditRecipe, IInv, TypeOK
  <2>2. CASE FlagQuarantine(s)
    BY <2>2, FlagsKeep DEF FlagQuarantine, IInv, TypeOK
  <2> QED
    BY <1>2, <2>1, <2>2, DecideKeeps, ResolveKeeps, AssignKeeps, DeleteKeeps DEF Operator, Decisions
<1>3. ASSUME NEW s \in Sessions, Commit(s) \/ Refused(s) \/ Crash(s) PROVE IInv'
  BY <1>3, CommitKeeps, RollbackKeeps DEF Refused, Crash
<1>4. CASE UNCHANGED vars
  BY <1>4, FlagsKeep DEF vars, IInv, TypeOK
<1> QED
  BY <1>1, <1>2, <1>3, <1>4 DEF Next

LEMMA IInvHolds == Spec => []IInv
BY InitIInv, NextIInv, PTL DEF Spec

\* The types of the rows, of the transactions and of what the runner has done; the
\* links belong to rows, and a result row has its approval status.
THEOREM TypeCorrect == Spec => []TypeOK
<1>1. IInv => TypeOK
  BY DEF IInv
<1> QED
  BY <1>1, IInvHolds, PTL

\* Once all results are decided, no version of a title that its recipe names waits for
\* a decision, whatever imports, decisions, deletions and assignments overlapped and
\* whatever was lost, but for those that an import wrote without asking for one.
THEOREM NobodyIsForgotten == Spec => []NothingLeftHeld
<1>1. IInv => NothingLeftHeld
  <2> SUFFICES ASSUME IInv, \A i \in Import : imports[i].approval # "pending",
                      NEW p \in Pkg, Held(p), recipe[p] \in keyed
               PROVE  \E i \in Import \ Queued(p) :
                         imports[i].pkg = p /\ imports[i].held # "not_ingested"
    BY DEF NothingLeftHeld
  <2>1. PICK i \in Import : Accounts(i, p)
    BY DEF IInv, HeldAreAccountedFor, HeldInv
  <2>2. i \notin Queued(p)
    BY <2>1 DEF Accounts, Queued
  <2> QED
    BY <2>1, <2>2 DEF Accounts
<1> QED
  BY <1>1, IInvHolds, PTL

-----------------------------------------------------------------------------
(* What a step may never do.                                               *)

LEMMA LinksChangeByCommit ==
    ASSUME [Next]_vars, pkgs' # pkgs \/ links' # links
    PROVE  \E s \in Sessions : Commit(s)
<1>1. ASSUME NEW i \in Import, Runner(i) PROVE UNCHANGED <<pkgs, links>>
  BY <1>1 DEF Runner, IngestNothing, Ingest, TrustFailure, PostResult
<1>2. ASSUME NEW s \in Operators, Operator(s) PROVE UNCHANGED <<pkgs, links>>
  BY <1>2 DEF Operator, Decide, Resolve, Assign, Delete, EditRecipe, FlagQuarantine
<1>3. ASSUME NEW s \in Sessions, Refused(s) \/ Crash(s) PROVE UNCHANGED <<pkgs, links>>
  BY <1>3 DEF Refused, Crash, Rollback
<1>4. ~UNCHANGED vars
  BY DEF vars
<1> QED
  BY <1>1, <1>2, <1>3, <1>4 DEF Next

\* A version in no other catalog than quarantine gets into one only by the commit of
\* an operator's approval or assignment, or of an ingest that needs no approval:
\* neither a rejection nor a held ingest that overlaps one releases it.
THEOREM HeldVersionsWait == Spec => HeldUntilDecided
<1> DEFINE Waits ==
      \A p \in Pkg : links[p] \subseteq {Quarantine} /\ ~(links'[p] \subseteq {Quarantine}) =>
         \E s \in Sessions :
            /\ txn[s].pkg = p /\ txn'[s] = Idle
            /\ \/ s \in Operators /\ txn[s].kind \in {"approve", "assign"}
               \/ s \in Import /\ imports[s].held = "direct"
<1>1. ASSUME IInv, [Next]_vars PROVE Waits
  <2> SUFFICES ASSUME NEW p \in Pkg, links[p] \subseteq {Quarantine},
                      ~(links'[p] \subseteq {Quarantine})
               PROVE  \E s \in Sessions :
                         /\ txn[s].pkg = p /\ txn'[s] = Idle
                         /\ \/ s \in Operators /\ txn[s].kind \in {"approve", "assign"}
                            \/ s \in Import /\ imports[s].held = "direct"
    OBVIOUS
  <2>1. PICK s \in Sessions : Commit(s)
    BY <1>1, LinksChangeByCommit
  <2>2. PICK t \in Transaction : t = txn[s]
    BY <1>1 DEF IInv, TypeOK
  <2>3. /\ t.kind # "idle" /\ txn'[s] = Idle
        /\ p # t.pkg => links'[p] = links[p]
        /\ t.pkg # None => links'[t.pkg] = (links[t.pkg] \ t.removes) \cup t.adds
    BY <1>1, <2>1, <2>2, CommitEffects
  <2>4. t.pkg = p /\ ~(t.adds \subseteq {Quarantine})
    BY <2>3, ImportAssumption
  <2>5. TxnInv(s)
    BY <1>1 DEF IInv, Transactions
  <2>6. CASE t.kind = "ingest"
    <3>1. s \in Import /\ imports[s].held # "held" /\ imports[s].held # "not_ingested"
      BY <1>1, <2>2, <2>4, <2>5, <2>6 DEF TxnInv, IInv, Imports, ImportInv
    <3>2. imports[s].held = "direct"
      BY <1>1, <3>1 DEF IInv, TypeOK, ImportState
    <3> QED
      BY <2>2, <2>3, <2>4, <3>1, <3>2
  <2>7. CASE t.kind # "ingest"
    <3>1. t.kind \in {"approve", "assign"} /\ s \in Operators
      BY <2>2, <2>3, <2>4, <2>5, <2>7 DEF TxnInv, Decisions, Transaction
    <3> QED
      BY <2>2, <2>3, <2>4, <3>1
  <2> QED
    BY <2>6, <2>7
<1>2. ASSUME IInv, [Next]_vars PROVE [Waits]_vars
  BY <1>1, <1>2
<1> QED
  BY <1>2, IInvHolds, PTL DEF Spec, HeldUntilDecided

\* A version that was rejected or deleted is revived only by an ingest that found it
\* deleted: no approval or assignment that overlaps the deletion undoes it.
THEOREM DeletionsStand == Spec => DeletionIsFinal
<1> DEFINE Stands ==
      \A p \in Pkg : (Exists(p) /\ pkgs[p].is_deleted /\ Live(p)') =>
         \E i \in Import : txn[i].pkg = p /\ txn[i].base.is_deleted /\ txn'[i] = Idle
<1>1. ASSUME IInv, [Next]_vars PROVE Stands
  <2> SUFFICES ASSUME NEW p \in Pkg, Exists(p), pkgs[p].is_deleted, Live(p)'
               PROVE  \E i \in Import : txn[i].pkg = p /\ txn[i].base.is_deleted /\ txn'[i] = Idle
    OBVIOUS
  <2>1. PICK s \in Sessions : Commit(s)
    BY <1>1, LinksChangeByCommit DEF Live, Exists
  <2>2. PICK t \in Transaction : t = txn[s]
    BY <1>1 DEF IInv, TypeOK
  <2>3. /\ txn'[s] = Idle
        /\ t.fresh => ~Exists(t.pkg)
        /\ p # t.pkg => pkgs'[p] = pkgs[p]
        /\ t.pkg # None =>
             pkgs'[t.pkg] = IF t.fresh THEN t.row ELSE FlushChanged(pkgs[t.pkg], t.base, t.row)
    BY <1>1, <2>1, <2>2, CommitEffects
  <2>4. t.pkg = p /\ ~t.fresh
    BY <2>3 DEF Live
  <2>5. pkgs'[p] = FlushChanged(pkgs[p], t.base, t.row)
    BY <2>3, <2>4, ImportAssumption
  <2>6. t.base.is_deleted \in BOOLEAN /\ t.row.is_deleted \in BOOLEAN
    BY DEF Transaction, Row
  <2>7. t.base.is_deleted /\ ~t.row.is_deleted
    BY <2>5, <2>6 DEF FlushChanged, Live
  <2>8. TxnInv(s)
    BY <1>1 DEF IInv, Transactions
  <2>9. s \in Import
    BY <2>2, <2>7, <2>8 DEF TxnInv
  <2> QED
    BY <2>2, <2>3, <2>4, <2>7, <2>9
<1>2. ASSUME IInv, [Next]_vars PROVE [Stands]_vars
  BY <1>1, <1>2
<1> QED
  BY <1>2, IInvHolds, PTL DEF Spec, DeletionIsFinal
=============================================================================
