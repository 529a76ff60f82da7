--------------------------- MODULE ImportApproval ---------------------------
(***************************************************************************)
(* From an AutoPkg import to the fleet: api/routes/autopkg.py puts the     *)
(* versions that a managed recipe imports into the quarantine catalog and  *)
(* keeps the catalogs they are meant for in pending_catalog_names, until   *)
(* an operator decides on the result of the import.                        *)
(*                                                                         *)
(* The runner ingests the pkginfo and posts the result in two calls, and   *)
(* goes on whatever the first returned (AutoPkg/scripts/report_results.py) *)
(* or dies in between.  Ingests, decisions and catalog assignments are     *)
(* database transactions at READ COMMITTED that load, compute and commit   *)
(* the columns they changed; a DELETE of links that has waited for another *)
(* session no longer finds the links that session deleted.                 *)
(*                                                                         *)
(* Rollouts that a release starts are in ShardRollout, later moves from    *)
(* catalog to catalog in Promotion.                                        *)
(***************************************************************************)
EXTENDS Naturals, FiniteSets

CONSTANTS
    None,             \* absent
    Pkg,              \* pkginfo rows that may exist: versions of titles
    Recipe,           \* recipe rows
    Version,          \* version strings
    recipe,           \* the recipe that imports each version of a title
    version,          \* the version string of each row
    keyed,            \* recipes whose pkginfo key is the name of their title
    Import,           \* imports that AutoPkg runs make
    Operators,        \* sessions of request handlers
    Catalog,          \* catalogs
    Quarantine,       \* the catalog that carries the quarantine flag
    IntendedChoices,  \* catalog lists that an override may name
    AssignChoices,    \* catalog lists that an operator may assign
    NamingChoices,    \* how reports may name their recipe
    MaxRequests,      \* bound: requests of operators in one behaviour
    MaxAborts         \* bound: transactions lost to crashes in one behaviour

VARIABLES
    flagged,      \* whether exactly one catalog carries the quarantine flag
    auto_promote, \* of each recipe
    pkgs,         \* munki_pkginfo
    links,        \* munki_pkginfo_catalog
    imports,      \* what the runner has done, and the result row of each import
    txn,          \* the open transaction of each session
    requests,     \* operators' requests begun so far (a bound, not in the code)
    aborts        \* crashes so far (a bound, not in the code)

vars == <<flagged, auto_promote, pkgs, links, imports, txn, requests, aborts>>

Sessions == Import \cup Operators

\* pending_catalog_names: SQL NULL in a row no ingest has written, the JSON null
\* that SQLAlchemy writes for None, or a list.
Pending == [kind : {"sql_null", "json_null", "list"}, names : SUBSET Catalog]
SqlNull == [kind |-> "sql_null", names |-> {}]
JsonNull == [kind |-> "json_null", names |-> {}]
ListOf(names) == [kind |-> "list", names |-> names]

Row == [pending : Pending, is_deleted : BOOLEAN]
Uploaded == [pending |-> SqlNull, is_deleted |-> FALSE]

ApprovalStatus == {"pending", "approved", "rejected", "auto_approved"}

\* uq_munki_pkginfo_name_version: the versions of one title differ.
ASSUME ImportAssumption ==
    /\ recipe \in [Pkg -> Recipe]
    /\ version \in [Pkg -> Version]
    /\ keyed \subseteq Recipe
    /\ \A p, q \in Pkg :
          recipe[p] \in keyed /\ recipe[q] = recipe[p] /\ version[q] = version[p] => p = q
    /\ Import \cap Operators = {}
    /\ Quarantine \in Catalog
    /\ IntendedChoices \subseteq SUBSET Catalog
    /\ AssignChoices \subseteq SUBSET Catalog
    /\ NamingChoices \subseteq {"identifier", "name", "neither"}
    /\ MaxRequests \in Nat
    /\ MaxAborts \in Nat
    /\ None \notin Pkg /\ None \notin Import /\ None \notin Row /\ None \notin ApprovalStatus

\* How the report names its recipe: by the identifier of a recipe row, by the name
\* of one only (a mismatched identifier), or neither.
Naming == {"identifier", "name", "neither"}

\* `held` records which branch the ingest took (a history field).
ImportState ==
    [ phase    : {"todo", "ingesting", "ingested", "posted"},
      pkg      : Pkg \cup {None},
      naming   : Naming,
      status   : {"imported", "trust_failed"},
      held     : {"not_ingested", "held", "direct"},
      approval : ApprovalStatus \cup {None} ]

Todo == [phase |-> "todo", pkg |-> None, naming |-> "neither", status |-> "imported",
         held |-> "not_ingested", approval |-> None]

Transaction ==
    [ kind    : {"idle", "ingest", "approve", "reject", "assign", "delete"},
      result  : Import \cup {None},  \* the result row it works on
      ready   : BOOLEAN,             \* all statements but the commit are done
      pkg     : Pkg \cup {None},     \* the row it has loaded, if any
      fresh   : BOOLEAN,             \* it inserts that row
      base    : Row,                 \* the row as it was loaded
      row     : Row,                 \* the row as the session leaves it
      removes : SUBSET Catalog,      \* links its DELETE has found
      adds    : SUBSET Catalog ]     \* links it inserts

Idle == [kind |-> "idle", result |-> None, ready |-> FALSE, pkg |-> None, fresh |-> FALSE,
         base |-> Uploaded, row |-> Uploaded, removes |-> {}, adds |-> {}]

\* The types; links belong to rows, a result row has its approval status.
TypeOK ==
    /\ flagged \in BOOLEAN
    /\ auto_promote \in [Recipe -> BOOLEAN]
    /\ pkgs \in [Pkg -> Row \cup {None}]
    /\ links \in [Pkg -> SUBSET Catalog]
    /\ \A p \in Pkg : pkgs[p] = None => links[p] = {}
    /\ imports \in [Import -> ImportState]
    /\ \A i \in Import : imports[i].phase = "posted" <=> imports[i].approval # None
    /\ txn \in [Sessions -> Transaction]

\* Some versions have been uploaded by hand before, into any catalogs.
Init ==
    /\ flagged = TRUE
    /\ auto_promote \in [Recipe -> BOOLEAN]
    /\ \E uploaded \in SUBSET Pkg :
          /\ pkgs = [p \in Pkg |-> IF p \in uploaded THEN Uploaded ELSE None]
          /\ links \in [Pkg -> {{}} \cup IntendedChoices]
          /\ \A p \in Pkg \ uploaded : links[p] = {}
    /\ imports = [i \in Import |-> Todo]
    /\ txn = [s \in Sessions |-> Idle]
    /\ requests = 0
    /\ aborts = 0

-----------------------------------------------------------------------------

Exists(p) == pkgs[p] # None
Live(p) == Exists(p) /\ ~pkgs[p].is_deleted

\* A live row that waits for a decision: its list of catalogs is not empty.
Held(p) == Live(p) /\ pkgs[p].pending.names # {}

\* The columns of `row` that differ from `base` are written over `current`.
FlushChanged(current, base, row) ==
    [ pending    |-> IF row.pending # base.pending THEN row.pending ELSE current.pending,
      is_deleted |-> IF row.is_deleted # base.is_deleted THEN row.is_deleted
                     ELSE current.is_deleted ]

Request(s) ==
    /\ s \in Operators
    /\ txn[s] = Idle
    /\ requests < MaxRequests
    /\ requests' = requests + 1

-----------------------------------------------------------------------------
(* The runner: ingest_pkginfo, then post_run_result.                       *)

\* Mutant: the override's catalogs whatever the recipe says.
AssignedNames_Intended(held, intended) == intended

AssignedNames(held, intended) == IF held THEN {Quarantine} ELSE intended

\* A recipe row that is found by its identifier and does not promote by itself.
UseQuarantine(p, naming) == naming = "identifier" /\ ~auto_promote[recipe[p]]

Ingest(i, p, naming, intended) ==
    LET held == UseQuarantine(p, naming)
        pending == IF held THEN ListOf(intended) ELSE JsonNull
    IN  /\ imports[i].phase = "todo"
        /\ held => flagged
        /\ txn' = [txn EXCEPT ![i] =
                     [ kind    |-> "ingest",
                       result  |-> i,
                       ready   |-> TRUE,
                       pkg     |-> p,
                       fresh   |-> ~Exists(p),
                       base    |-> IF Exists(p) THEN pkgs[p] ELSE Uploaded,
                       row     |-> [pending |-> pending, is_deleted |-> FALSE],
                       removes |-> links[p],
                       adds    |-> AssignedNames(held, intended) ]]
        /\ imports' = [imports EXCEPT ![i].phase = "ingesting",
                                      ![i].pkg = p,
                                      ![i].naming = naming,
                                      ![i].held = IF held THEN "held" ELSE "direct"]
        /\ UNCHANGED <<flagged, auto_promote, pkgs, links, requests, aborts>>

\* No ingest: no pkginfo file, or 422 for want of one quarantine catalog.
IngestNothing(i, p, naming) ==
    /\ imports[i].phase = "todo"
    /\ imports' = [imports EXCEPT ![i].phase = "ingested", ![i].pkg = p, ![i].naming = naming]
    /\ UNCHANGED <<flagged, auto_promote, pkgs, links, txn, requests, aborts>>

\* Mutant: the rule for imported results is missing.
ApprovalAtPost_NoImportRule(i) ==
    IF imports[i].status = "trust_failed" THEN "pending"
    ELSE IF imports[i].naming # "neither" /\ auto_promote[recipe[imports[i].pkg]]
    THEN "auto_approved"
    ELSE None

\* The recipe row is looked up by identifier, then by name.
ApprovalAtPost(i) ==
    IF imports[i].status = "trust_failed" THEN "pending"
    ELSE IF imports[i].naming # "neither" /\ ~auto_promote[recipe[imports[i].pkg]]
    THEN "pending"
    ELSE "auto_approved"

\* A runner that dies after the ingest never gets here.
PostResult(i) ==
    /\ imports[i].phase = "ingested"
    /\ imports' = [imports EXCEPT ![i].phase = "posted", ![i].approval = ApprovalAtPost(i)]
    /\ UNCHANGED <<flagged, auto_promote, pkgs, links, txn, requests, aborts>>

\* A recipe whose trust failed imports nothing; its result waits for approval too.
TrustFailure(i, p) ==
    /\ imports[i].phase = "todo"
    /\ imports' = [imports EXCEPT ![i].phase = "ingested", ![i].pkg = p,
                                  ![i].naming = "identifier", ![i].status = "trust_failed"]
    /\ UNCHANGED <<flagged, auto_promote, pkgs, links, txn, requests, aborts>>

-----------------------------------------------------------------------------
(* Operators.                                                              *)

\* approve_result: the result is found pending.
Decide(s, i, kind) ==
    /\ Request(s)
    /\ imports[i].approval = "pending"
    /\ txn' = [txn EXCEPT ![s] = [Idle EXCEPT !.kind = kind, !.result = i]]
    /\ UNCHANGED <<flagged, auto_promote, pkgs, links, imports, aborts>>

\* pending_catalog_names IS NOT NULL holds of the JSON null too.
CandidatesOf(i) ==
    {p \in Pkg : /\ version[p] = version[imports[i].pkg]
                 /\ Live(p)
                 /\ pkgs[p].pending # SqlNull}

\* Mutant: the name is not looked at.
Resolved_ByVersionOnly(i) ==
    IF Cardinality(CandidatesOf(i)) = 1 THEN CHOOSE p \in CandidatesOf(i) : TRUE ELSE None

\* _resolve_pkg_for_pending_import_result: the candidate with the recipe's name,
\* else the only candidate.
Resolved(i) ==
    LET r     == recipe[imports[i].pkg]
        named == {p \in CandidatesOf(i) : /\ imports[i].naming = "identifier"
                                          /\ r \in keyed /\ recipe[p] = r}
    IN  IF named # {} THEN CHOOSE p \in named : TRUE
        ELSE IF Cardinality(CandidatesOf(i)) = 1 THEN CHOOSE p \in CandidatesOf(i) : TRUE
        ELSE None

\* The package is looked up and its links are deleted.
Resolve(s) ==
    LET t == txn[s]
        p == Resolved(t.result)
    IN  /\ t.kind \in {"approve", "reject"} /\ ~t.ready
        /\ txn' = [txn EXCEPT ![s] =
                     IF imports[t.result].status = "imported" /\ p # None /\ Held(p)
                     THEN [t EXCEPT !.ready   = TRUE,
                                    !.pkg     = p,
                                    !.base    = pkgs[p],
                                    !.row     = [pending    |-> JsonNull,
                                                 is_deleted |-> t.kind = "reject"],
                                    !.removes = links[p],
                                    !.adds    = IF t.kind = "approve" THEN pkgs[p].pending.names
                                                ELSE {}]
                     ELSE [t EXCEPT !.ready = TRUE]]
        /\ UNCHANGED <<flagged, auto_promote, pkgs, links, imports, requests, aborts>>

Loaded(s, kind, p) ==
    [Idle EXCEPT !.kind = kind, !.ready = TRUE, !.pkg = p, !.base = pkgs[p], !.row = pkgs[p]]

\* Mutant: assigning catalogs to a deleted version revives it.
Assign_Revives(s, p) ==
    /\ Request(s)
    /\ Exists(p)
    /\ \E names \in AssignChoices :
          txn' = [txn EXCEPT ![s] = [Loaded(s, "assign", p) EXCEPT !.row.is_deleted = FALSE,
                                                                   !.removes = links[p],
                                                                   !.adds = names]]
    /\ UNCHANGED <<flagged, auto_promote, pkgs, links, imports, aborts>>

\* PUT /pkginfo/{id}/catalogs: links are replaced, pending names stay
Assign(s, p) ==
    /\ Request(s)
    /\ Exists(p)
    /\ \E names \in AssignChoices :
          txn' = [txn EXCEPT ![s] = [Loaded(s, "assign", p) EXCEPT !.removes = links[p],
                                                                   !.adds = names]]
    /\ UNCHANGED <<flagged, auto_promote, pkgs, links, imports, aborts>>

\* DELETE /pkginfo/{id}
Delete(s, p) ==
    /\ Request(s)
    /\ Exists(p)
    /\ txn' = [txn EXCEPT ![s] = [Loaded(s, "delete", p) EXCEPT !.row.is_deleted = TRUE]]
    /\ UNCHANGED <<flagged, auto_promote, pkgs, links, imports, aborts>>

\* PUT /autopkg/recipes/{id} with auto_promote
EditRecipe(s, r) ==
    /\ Request(s)
    /\ auto_promote' = [auto_promote EXCEPT ![r] = ~@]
    /\ UNCHANGED <<flagged, pkgs, links, imports, txn, aborts>>

\* PUT /catalogs/{id} with is_quarantine: the flag is taken away or given back
FlagQuarantine(s) ==
    /\ Request(s)
    /\ flagged' = ~flagged
    /\ UNCHANGED <<auto_promote, pkgs, links, imports, txn, aborts>>

-----------------------------------------------------------------------------
(* The end of a transaction.                                               *)

\* An inserted row or link is there already.
Conflicts(t) ==
    t.pkg # None /\ ((t.fresh /\ Exists(t.pkg)) \/ t.adds \cap (links[t.pkg] \ t.removes) # {})

\* The result row and the runner's progress once session s is through.
Settled(s) ==
    CASE txn[s].kind = "approve" -> [imports EXCEPT ![txn[s].result].approval = "approved"]
      [] txn[s].kind = "reject"  -> [imports EXCEPT ![txn[s].result].approval = "rejected"]
      [] txn[s].kind = "ingest"  -> [imports EXCEPT ![s].phase = "ingested"]
      [] OTHER -> imports

\* Transaction u when t has committed.
Overtaken(u, t) == IF u.pkg = t.pkg THEN [u EXCEPT !.removes = @ \ t.removes] ELSE u

Commit(s) ==
    LET t == txn[s] IN
    /\ t.ready
    /\ ~Conflicts(t)
    /\ pkgs' = [p \in Pkg |-> IF p # t.pkg THEN pkgs[p]
                              ELSE IF t.fresh THEN t.row
                              ELSE FlushChanged(pkgs[p], t.base, t.row)]
    /\ links' = [p \in Pkg |-> IF p # t.pkg THEN links[p]
                               ELSE (links[p] \ t.removes) \cup t.adds]
    /\ imports' = Settled(s)
    /\ txn' = [u \in Sessions |-> IF u = s THEN Idle ELSE Overtaken(txn[u], t)]
    /\ UNCHANGED <<flagged, auto_promote, requests, aborts>>

\* Nothing is written.  The runner goes on after a failed ingest.
Rollback(s) ==
    /\ txn[s].kind # "idle"
    /\ txn' = [txn EXCEPT ![s] = Idle]
    /\ imports' = IF txn[s].kind = "ingest"
                  THEN [imports EXCEPT ![s].phase = "ingested", ![s].held = "not_ingested"]
                  ELSE imports
    /\ UNCHANGED <<flagged, auto_promote, pkgs, links, requests>>

\* A duplicate key: the request ends in an error.
Refused(s) ==
    /\ txn[s].ready /\ Conflicts(txn[s])
    /\ Rollback(s)
    /\ UNCHANGED aborts

\* The API process is restarted, the connection lost.
Crash(s) ==
    /\ aborts < MaxAborts
    /\ aborts' = aborts + 1
    /\ Rollback(s)

Runner(i) ==
    \/ \E p \in Pkg, naming \in NamingChoices :
          IngestNothing(i, p, naming) \/ \E names \in IntendedChoices : Ingest(i, p, naming, names)
    \/ \E p \in Pkg : TrustFailure(i, p)
    \/ PostResult(i)

Operator(s) ==
    \/ \E i \in Import, kind \in {"approve", "reject"} : Decide(s, i, kind)
    \/ Resolve(s)
    \/ \E p \in Pkg : Assign(s, p) \/ Delete(s, p)
    \/ \E r \in Recipe : EditRecipe(s, r)
    \/ FlagQuarantine(s)

Next ==
    \/ \E i \in Import : Runner(i)
    \/ \E s \in Operators : Operator(s)
    \/ \E s \in Sessions : Commit(s) \/ Refused(s) \/ Crash(s)

Spec == Init /\ [][Next]_vars

-----------------------------------------------------------------------------
(* Properties.                                                             *)

\* architecture.md:50: the import of a recipe that does not promote by itself is
\* in the quarantine catalog only, until an operator decides.  Whatever overlaps,
\* a version in no other catalog gets into one only by the commit of an operator's
\* approval or assignment, or of an ingest that needs no approval.
HeldUntilDecided ==
    [][\A p \in Pkg : links[p] \subseteq {Quarantine} /\ ~(links'[p] \subseteq {Quarantine}) =>
         \E s \in Sessions :
            /\ txn[s].pkg = p /\ txn'[s] = Idle
            /\ \/ s \in Operators /\ txn[s].kind \in {"approve", "assign"}
               \/ s \in Import /\ imports[s].held = "direct"
      ]_vars

\* Rejecting or deleting a version is not undone by an approval or assignment that
\* overlaps it: only an ingest that found the version deleted revives it
\* (ingest_pkginfo, autopkg.py:2517).
DeletionIsFinal ==
    [][\A p \in Pkg : (Exists(p) /\ pkgs[p].is_deleted /\ Live(p)') =>
         \E i \in Import : txn[i].pkg = p /\ txn[i].base.is_deleted /\ txn'[i] = Idle
      ]_vars

\* The imports that wrote row p and whose results are on the queue or decided.
Queued(p) ==
    {i \in Import : /\ imports[i].pkg = p /\ imports[i].held = "held"
                    /\ imports[i].approval \in {"pending", "approved", "rejected"}}

AtRest == \A s \in Sessions : txn[s] = Idle

\* Once all results are decided, no version waits for a decision any more, whatever
\* the decisions overlapped, but for versions that an import wrote whose result did
\* not reach the queue or that needed no approval, and recipes whose key is not the
\* title's name (approve_result).
NothingLeftHeld ==
    (AtRest /\ \A i \in Import : imports[i].approval # "pending") =>
        \A p \in Pkg :
            Held(p) /\ recipe[p] \in keyed =>
                \E i \in Import \ Queued(p) :
                    imports[i].pkg = p /\ imports[i].held # "not_ingested"
=============================================================================
