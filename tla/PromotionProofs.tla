--------------------------- MODULE PromotionProofs ---------------------------
(***************************************************************************)
(* Theorems about Promotion, for any versions, catalogs, channels, plans   *)
(* and sessions: its types and foreign keys, and that a tick moves a       *)
(* version along one step at most, whatever requests and other ticks       *)
(* overlap it, and only after its dwell time; and that ticks alone leave   *)
(* no version without a catalog.                                           *)
(***************************************************************************)
EXTENDS Promotion, WellFoundedInduction, TLAPS

-----------------------------------------------------------------------------
(* The inductive invariant.                                                *)

PlanFor(t, p) == t.plan[t.assigned[p]]

\* Transaction t is working on version p.
On(t, p) == t.work # None /\ t.work.pkg = p

\* It takes no link from version p and gives it none.
Untouched(t, p) ==
    \A c \in Catalog : <<p, c>> \notin t.removes /\ t.adds[<<p, c>>] = None

\* Whatever it takes from p and gives it is the source and the target of one step.
Along(t, p, step) ==
    /\ \E k \in Order : PlanFor(t, p)[k] = step
    /\ \A c \in Catalog : /\ <<p, c>> \in t.removes => c = step.source
                          /\ t.adds[<<p, c>>] # None => c = step.target

\* A tick: it has not touched what it has still to process, and has worked on the
\* rest one after the other.
TickInv(t) ==
    /\ t.kind \in {"idle", "tick"} /\ t.drops = {}
    /\ \A p \in t.queue : t.assigned[p] \in Channel /\ Untouched(t, p) /\ ~On(t, p)
    /\ \A p \in Pkg : On(t, p) =>
          /\ Along(t, p, t.work.step)
          /\ \A c \in Catalog : t.adds[<<p, c>>] = None
          /\ t.work.phase = "picked" => Untouched(t, p)
    /\ \A p \in Pkg : Untouched(t, p) \/ \E step \in Step : Along(t, p, step)

IInv ==
    /\ TypeOK
    /\ \A s \in Tickers : TickInv(txn[s])

-----------------------------------------------------------------------------
(* The operators.                                                          *)

LEMMA FirstOfType ==
    ASSUME NEW orders \in SUBSET Order, orders # {}
    PROVE  FirstOf(orders) \in orders
<1>1. PICK k \in orders : \A j \in orders : k <= j
  <2>1. IsWellFoundedOn(OpToRel(<, Nat), Nat)
    BY NatLessThanWellFounded
  <2>2. orders \subseteq Nat
    BY PromotionAssumption
  <2>3. PICK k \in orders : \A j \in orders : ~(<<j, k>> \in OpToRel(<, Nat))
    BY <2>1, <2>2, WFMin
  <2>4. ASSUME NEW j \in orders, j < k PROVE FALSE
    <3>1. <<j, k>> \in Nat \X Nat
      BY <2>2
    <3>2. <<j, k>> \in OpToRel(<, Nat)
      BY <2>4, <3>1 DEF OpToRel
    <3> QED
      BY <2>3, <3>2
  <2> QED
    BY <2>2, <2>4
<1> QED
  BY <1>1 DEF FirstOf

LEMMA StepCatalogsHas ==
    ASSUME NEW plan \in Plan, NEW S
    PROVE  StepCatalogs(plan) \subseteq S <=>
              \A k \in Order : plan[k] # None => plan[k].source \in S /\ plan[k].target \in S
BY DEF StepCatalogs

LEMMA NoPlanNamesNothing == NoPlan \in Plan /\ StepCatalogs(NoPlan) = {}
BY DEF NoPlan, Plan, StepCatalogs

LEMMA CascadedType ==
    ASSUME NEW plan \in Plan, NEW S \in SUBSET Catalog, NEW drops \in SUBSET Catalog,
           StepCatalogs(plan) \subseteq S
    PROVE  Cascaded(plan, drops) \in Plan /\ StepCatalogs(Cascaded(plan, drops)) \subseteq S \ drops
<1>1. Cascaded(plan, drops) \in Plan
  BY DEF Cascaded, Plan
<1>2. ASSUME NEW k \in Order, Cascaded(plan, drops)[k] # None
      PROVE  /\ Cascaded(plan, drops)[k].source \in S \ drops
             /\ Cascaded(plan, drops)[k].target \in S \ drops
  BY <1>2, StepCatalogsHas DEF Cascaded
<1> QED
  BY <1>1, <1>2, StepCatalogsHas

LEMMA IdleType == Idle \in Transaction /\ TickInv(Idle)
<1>1. NoLinks \in [Link -> Entered] /\ \A p \in Pkg, c \in Catalog : NoLinks[<<p, c>>] = None
  BY DEF NoLinks, Link, Entered
<1>2. Idle \in Transaction
  BY <1>1, NoPlanNamesNothing DEF Idle, Transaction
<1>3. Idle.kind = "idle" /\ Idle.drops = {} /\ Idle.queue = {} /\ Idle.removes = {}
      /\ Idle.work = None /\ Idle.adds = NoLinks
  BY DEF Idle
<1>4. \A p \in Pkg : Untouched(Idle, p) /\ ~On(Idle, p)
  BY <1>1, <1>3 DEF Untouched, On
<1> QED
  BY <1>2, <1>3, <1>4 DEF TickInv

LEMMA InitIInv == Init => IInv
<1> SUFFICES ASSUME Init PROVE IInv
  OBVIOUS
<1>1. links \in [Link -> Entered]
  BY DEF Init, Link, Entered
<1>2. steps \in [Channel -> Plan] /\ \A ch \in Channel : StepCatalogs(steps[ch]) \subseteq catalogs
  <2>1. steps \in [Channel -> Plan]
    BY PromotionAssumption DEF Init
  <2>2. ASSUME NEW ch \in Channel PROVE StepCatalogs(steps[ch]) \subseteq Catalog
    BY <2>1, StepCatalogsHas DEF Plan, Step
  <2> QED
    BY <2>1, <2>2 DEF Init
<1>3. automation \in [Pkg -> Automation]
  BY DEF Init, Automation
<1>4. txn \in [Sessions -> Transaction] /\ \A s \in Tickers : TickInv(txn[s])
  BY IdleType DEF Init, Sessions
<1>5. \A l \in Link : l[2] \in catalogs
  BY DEF Init, Link
<1> QED
  BY <1>1, <1>2, <1>3, <1>4, <1>5 DEF Init, IInv, TypeOK

-----------------------------------------------------------------------------
(* The transactions.                                                       *)

\* What an action that changes one transaction, and no table, has to show.
LEMMA TransactionKeeps ==
    ASSUME IInv, NEW s \in Sessions, NEW x \in Transaction, txn' = [txn EXCEPT ![s] = x],
           UNCHANGED <<today, catalogs, links, steps, automation>>,
           requests' \in Nat, crashes' \in Nat,
           s \in Tickers => TickInv(x)
    PROVE  IInv'
<1>1. txn' \in [Sessions -> Transaction]
  BY DEF IInv, TypeOK
<1>2. TypeOK'
  BY <1>1 DEF IInv, TypeOK
<1>3. \A u \in Sessions : txn'[u] = IF u = s THEN x ELSE txn[u]
  BY DEF IInv, TypeOK
<1> QED
  BY <1>2, <1>3 DEF IInv, Sessions

\* A transaction that has lost removes, or whose locks or history have changed.
LEMMA TickInvShrinks ==
    ASSUME NEW t \in Transaction, TickInv(t), NEW R \in SUBSET t.removes, NEW H \in SUBSET Link,
           NEW F \in SUBSET Link
    PROVE  TickInv([t EXCEPT !.removes = R, !.holds = H, !.restarted = F])
<1> DEFINE x == [t EXCEPT !.removes = R, !.holds = H, !.restarted = F]
<1>1. /\ x.kind = t.kind /\ x.drops = t.drops /\ x.queue = t.queue /\ x.work = t.work
      /\ x.plan = t.plan /\ x.assigned = t.assigned /\ x.adds = t.adds /\ x.removes = R
  BY DEF Transaction
<1> HIDE DEF x
<1>2. ASSUME NEW p \in Pkg
      PROVE  /\ Untouched(t, p) => Untouched(x, p)
             /\ On(x, p) = On(t, p)
             /\ \A step : Along(t, p, step) => Along(x, p, step)
  BY <1>1 DEF Untouched, On, Along, PlanFor
<1>3. t.queue \in SUBSET Pkg
  BY DEF Transaction
<1>4. TickInv(x)
  BY <1>1, <1>2, <1>3 DEF TickInv
<1> QED
  BY <1>4 DEF x

LEMMA TickLoadKeeps ==
    ASSUME IInv, NEW s \in Tickers, TickLoad(s)
    PROVE  IInv'
<1> DEFINE assigned == [p \in Pkg |-> IF p \in Candidates THEN automation[p].channel ELSE None]
           loaded == {c \in Catalog : \E p \in Candidates : Linked(p, c)}
           x == [Idle EXCEPT !.kind = "tick", !.now = today, !.plan = steps, !.assigned = assigned,
                             !.loaded = loaded, !.queue = Candidates]
<1>1. Idle \in Transaction /\ TickInv(Idle) /\ s \in Sessions
  BY IdleType DEF Sessions
<1>2. /\ assigned \in [Pkg -> Channel \cup {None}]
      /\ \A p \in Candidates : p \in Pkg /\ assigned[p] \in Channel
  BY DEF IInv, TypeOK, Automation, Candidates
<1>3. steps \in [Channel -> Plan] /\ today \in Nat
  BY DEF IInv, TypeOK
<1>4. txn' = [txn EXCEPT ![s] = x]
  BY DEF TickLoad
<1> HIDE DEF assigned, loaded
<1>5. loaded \in SUBSET Catalog
  BY DEF loaded
<1>6. x \in Transaction
  BY <1>1, <1>2, <1>3, <1>5 DEF Transaction
<1>7. /\ x.kind = "tick" /\ x.queue = Candidates /\ x.assigned = assigned /\ x.drops = {}
      /\ x.work = None /\ x.removes = {} /\ x.adds = NoLinks
  BY DEF Idle
<1> HIDE DEF x
<1>8. \A p \in Pkg : Untouched(x, p) /\ ~On(x, p)
  BY <1>7 DEF Untouched, On, NoLinks, Link
<1>9. TickInv(x)
  BY <1>2, <1>7, <1>8 DEF TickInv
<1> QED
  BY <1>1, <1>4, <1>6, <1>9, TransactionKeeps DEF TickLoad, IInv, TypeOK

LEMMA TickPickKeeps ==
    ASSUME IInv, NEW s \in Tickers, NEW p \in Pkg, TickPick(s, p)
    PROVE  IInv'
<1> DEFINE t == txn[s]
           plan == PlanFor(t, p)
           due == DueOrders(p, plan, t.now)
           work == IF due = {} THEN None
                   ELSE [pkg |-> p, step |-> plan[FirstOf(due)], phase |-> "picked"]
           x == [t EXCEPT !.queue = t.queue \ {p}, !.work = work]
<1>1. t \in Transaction /\ TickInv(t) /\ s \in Sessions
  BY DEF IInv, TypeOK, Sessions
<1>2. p \in t.queue /\ t.work = None /\ t.assigned[p] \in Channel
  BY <1>1 DEF TickPick, TickInv
<1>3. plan \in Plan
  BY <1>1, <1>2 DEF PlanFor, Transaction
<1>4. due # {} => \E k \in Order : plan[FirstOf(due)] = plan[k] /\ plan[k] \in Step
  <2>1. due \in SUBSET Order /\ \A k \in due : plan[k] # None
    BY DEF DueOrders
  <2>2. due # {} => FirstOf(due) \in due
    BY <2>1, FirstOfType
  <2> QED
    BY <1>3, <2>1, <2>2 DEF Plan
<1>5. txn' = [txn EXCEPT ![s] = x]
  BY <1>1 DEF TickPick, IInv, TypeOK, Transaction, PlanFor
<1> HIDE DEF due
<1>6. /\ work \in Work \cup {None}
      /\ work # None => /\ work.pkg = p /\ work.phase = "picked"
                        /\ \E k \in Order : plan[k] = work.step
  BY <1>4 DEF Work
<1> HIDE DEF work
<1>7. /\ x \in Transaction /\ x.queue = t.queue \ {p} /\ x.work = work
      /\ x.kind = t.kind /\ x.drops = t.drops
      /\ x.plan = t.plan /\ x.assigned = t.assigned /\ x.adds = t.adds /\ x.removes = t.removes
  BY <1>1, <1>6 DEF Transaction
<1> HIDE DEF x
<1>8. /\ \A q \in Pkg : Untouched(x, q) = Untouched(t, q)
      /\ \A q \in Pkg : \A step : Along(x, q, step) = Along(t, q, step)
      /\ \A q \in Pkg : On(x, q) => q = p
      /\ On(x, p) => \E k \in Order : PlanFor(x, p)[k] = work.step
  BY <1>6, <1>7 DEF Untouched, On, Along, PlanFor
<1>9. Untouched(t, p)
  BY <1>1, <1>2 DEF TickInv
<1>10. On(x, p) => /\ Along(x, p, x.work.step) /\ Untouched(x, p)
  BY <1>7, <1>8, <1>9 DEF Along, Untouched
<1>11. TickInv(x)
  <2>1. \A q \in x.queue : x.assigned[q] \in Channel /\ Untouched(x, q) /\ ~On(x, q)
    BY <1>1, <1>7, <1>8 DEF TickInv, Transaction
  <2>2. \A q \in Pkg : On(x, q) => /\ Along(x, q, x.work.step)
                                   /\ \A c \in Catalog : x.adds[<<q, c>>] = None
                                   /\ x.work.phase = "picked" => Untouched(x, q)
    BY <1>8, <1>10 DEF Untouched
  <2> QED
    BY <1>1, <1>7, <1>8, <2>1, <2>2 DEF TickInv
<1> HIDE DEF t
<1> QED
  BY <1>1, <1>5, <1>7, <1>11, TransactionKeeps DEF TickPick, IInv, TypeOK

LEMMA TickDeleteKeeps ==
    ASSUME IInv, NEW s \in Tickers, TickDelete(s)
    PROVE  IInv'
<1> DEFINE t == txn[s]
           w == t.work
           found == {l \in {<<w.pkg, w.step.source>>} : links[l] # None}
           x == [t EXCEPT !.work = [w EXCEPT !.phase = "deleted"],
                          !.removes = t.removes \cup found,
                          !.holds = t.holds \cup (found \ LockedByOthers(s))]
<1>1. t \in Transaction /\ TickInv(t) /\ s \in Sessions
  BY DEF IInv, TypeOK, Sessions
<1>2. w \in Work /\ w # None /\ w.phase = "picked"
  BY <1>1 DEF TickDelete, Transaction
<1>3. w.pkg \in Pkg /\ On(t, w.pkg) /\ found \in SUBSET Link
  BY <1>2 DEF Work, Step, On, Link
<1>4. txn' = [txn EXCEPT ![s] = x]
  BY <1>1, <1>2 DEF TickDelete, IInv, TypeOK, Transaction, Work
<1>5. \A l \in found : l = <<w.pkg, w.step.source>>
  OBVIOUS
<1> DEFINE v == [w EXCEPT !.phase = "deleted"]
<1>6. v \in Work /\ v # None /\ v.pkg = w.pkg /\ v.step = w.step /\ v.phase = "deleted"
  BY <1>2, PromotionAssumption DEF Work
<1> HIDE DEF found, v
<1>7. /\ x \in Transaction /\ x.removes = t.removes \cup found /\ x.work = v
      /\ x.kind = t.kind /\ x.drops = t.drops /\ x.queue = t.queue
      /\ x.plan = t.plan /\ x.assigned = t.assigned /\ x.adds = t.adds
  BY <1>1, <1>3, <1>6 DEF Transaction, v
<1> HIDE DEF x
<1>8. ASSUME NEW q \in Pkg, q # w.pkg
      PROVE  /\ Untouched(x, q) = Untouched(t, q)
             /\ \A step : Along(x, q, step) = Along(t, q, step)
             /\ ~On(x, q)
  BY <1>5, <1>6, <1>7, <1>8 DEF Untouched, On, Along, PlanFor
<1>9. /\ Along(x, w.pkg, w.step)
      /\ \A c \in Catalog : x.adds[<<w.pkg, c>>] = None
  <2>1. Along(t, w.pkg, w.step) /\ Untouched(t, w.pkg)
    BY <1>1, <1>2, <1>3 DEF TickInv
  <2> QED
    BY <1>5, <1>7, <2>1 DEF Along, PlanFor, Untouched
<1>10. TickInv(x)
  <2>1. \A q \in x.queue : q \in Pkg /\ q # w.pkg
    BY <1>1, <1>3, <1>7 DEF TickInv, Transaction
  <2>2. \A q \in x.queue : x.assigned[q] \in Channel /\ Untouched(x, q) /\ ~On(x, q)
    BY <1>1, <1>7, <1>8, <2>1 DEF TickInv
  <2>3. \A q \in Pkg : On(x, q) => /\ Along(x, q, x.work.step)
                                   /\ \A c \in Catalog : x.adds[<<q, c>>] = None
                                   /\ x.work.phase = "picked" => Untouched(x, q)
    BY <1>6, <1>7, <1>8, <1>9
  <2>4. \A q \in Pkg : Untouched(x, q) \/ \E step \in Step : Along(x, q, step)
    BY <1>1, <1>2, <1>8, <1>9 DEF TickInv, Work
  <2> QED
    BY <1>1, <1>7, <2>2, <2>3, <2>4 DEF TickInv
<1> HIDE DEF t
<1> QED
  BY <1>1, <1>4, <1>7, <1>10, TransactionKeeps DEF TickDelete, IInv, TypeOK

LEMMA TickPromoteKeeps ==
    ASSUME IInv, NEW s \in Tickers, TickPromote(s)
    PROVE  IInv'
<1> DEFINE t == txn[s]
           w == t.work
           l == <<w.pkg, w.step.target>>
           entered == IF /\ w.step.target \in catalogs \cup t.loaded
                         /\ links[l] = None \/ l \in t.removes
                      THEN today ELSE t.adds[l]
           adds == [t.adds EXCEPT ![l] = entered]
           x == [t EXCEPT !.work = None, !.adds = adds]
<1>1. t \in Transaction /\ TickInv(t) /\ s \in Sessions /\ today \in Nat
  BY DEF IInv, TypeOK, Sessions
<1>2. w \in Work /\ w # None
  BY <1>1 DEF TickPromote, Transaction
<1>3. w.pkg \in Pkg /\ w.step \in Step /\ On(t, w.pkg) /\ l \in Link
  BY <1>2 DEF Work, Step, On, Link
<1>4. t.adds \in [Link -> Entered]
  BY <1>1 DEF Transaction
<1>5. entered \in Entered
  BY <1>1, <1>3, <1>4 DEF Entered
<1>6. txn' = [txn EXCEPT ![s] = x]
  BY <1>1, <1>4 DEF TickPromote, IInv, TypeOK, Transaction
<1> HIDE DEF entered
<1>7. adds \in [Link -> Entered] /\ \A m \in Link : m # l => adds[m] = t.adds[m]
  BY <1>3, <1>4, <1>5
<1> HIDE DEF adds
<1>8. /\ x \in Transaction /\ x.work = None /\ x.adds = adds
      /\ x.kind = t.kind /\ x.drops = t.drops /\ x.queue = t.queue
      /\ x.plan = t.plan /\ x.assigned = t.assigned /\ x.removes = t.removes
  BY <1>1, <1>7 DEF Transaction
<1> HIDE DEF x
<1>9. \A q \in Pkg, c \in Catalog : <<q, c>> \in Link /\ (<<q, c>> = l => q = w.pkg /\ c = w.step.target)
  BY DEF Link
<1>10. ASSUME NEW q \in Pkg, q # w.pkg
       PROVE  /\ Untouched(x, q) = Untouched(t, q)
              /\ \A step : Along(x, q, step) = Along(t, q, step)
  BY <1>7, <1>8, <1>9, <1>10 DEF Untouched, Along, PlanFor
<1>11. Along(x, w.pkg, w.step)
  <2>1. Along(t, w.pkg, w.step)
    BY <1>1, <1>3 DEF TickInv
  <2>2. \A c \in Catalog : t.adds[<<w.pkg, c>>] = None
    BY <1>1, <1>3 DEF TickInv
  <2> QED
    BY <1>3, <1>7, <1>8, <1>9, <2>1, <2>2 DEF Along, PlanFor
<1>12. TickInv(x)
  <2>1. \A q \in x.queue : q \in Pkg /\ q # w.pkg
    BY <1>1, <1>3, <1>8 DEF TickInv, Transaction
  <2>2. \A q \in x.queue : x.assigned[q] \in Channel /\ Untouched(x, q)
    BY <1>1, <1>8, <1>10, <2>1 DEF TickInv
  <2>3. \A q \in Pkg : ~On(x, q)
    BY <1>8 DEF On
  <2>4. \A q \in Pkg : Untouched(x, q) \/ \E step \in Step : Along(x, q, step)
    BY <1>1, <1>3, <1>10, <1>11 DEF TickInv
  <2> QED
    BY <1>1, <1>8, <2>1, <2>2, <2>3, <2>4 DEF TickInv
<1> HIDE DEF t
<1> QED
  BY <1>1, <1>6, <1>8, <1>12, TransactionKeeps DEF TickPromote, IInv, TypeOK

\* The requests that open a transaction.
LEMMA BeginKeeps ==
    ASSUME IInv, NEW s \in Operators, NEW kind \in {"assign", "promote", "drop"},
           NEW removes \in SUBSET Link, NEW adds \in [Link -> Entered], NEW drops \in SUBSET Catalog,
           Begin(s, kind, removes, adds, drops)
    PROVE  IInv'
<1> DEFINE x == [Idle EXCEPT !.kind = kind, !.removes = removes,
                             !.holds = removes \ LockedByOthers(s), !.adds = adds, !.drops = drops]
<1>1. x \in Transaction
  <2>1. removes \ LockedByOthers(s) \in SUBSET Link
    OBVIOUS
  <2> QED
    BY <2>1, IdleType DEF Transaction
<1>2. txn' = [txn EXCEPT ![s] = x]
  BY DEF Begin
<1> HIDE DEF x
<1>3. s \in Sessions /\ s \notin Tickers
  BY PromotionAssumption DEF Sessions
<1> QED
  BY <1>1, <1>2, <1>3, TransactionKeeps DEF Begin, IInv, TypeOK

LEMMA ReassignKeeps ==
    ASSUME IInv, NEW s \in Operators, NEW pkgs \in SUBSET Pkg, NEW names \in SUBSET catalogs,
           Reassign(s, pkgs, names)
    PROVE  IInv'
<1>1. {l \in pkgs \X Catalog : links[l] # None} \in SUBSET Link
  BY DEF Link
<1>2. [l \in Link |-> IF l \in pkgs \X names THEN today ELSE None] \in [Link -> Entered]
  BY DEF Entered, IInv, TypeOK
<1> QED
  BY <1>1, <1>2, BeginKeeps DEF Reassign

LEMMA PromoteKeeps ==
    ASSUME IInv, NEW s \in Operators, NEW p \in Pkg, Promote(s, p)
    PROVE  IInv'
<1>1. PICK c \in catalogs : Begin(s, "promote", {}, [NoLinks EXCEPT ![<<p, c>>] = today], {})
  BY DEF Promote
<1>2. [NoLinks EXCEPT ![<<p, c>>] = today] \in [Link -> Entered]
  BY DEF NoLinks, Entered, IInv, TypeOK
<1> QED
  BY <1>1, <1>2, BeginKeeps

LEMMA DeleteCatalogKeeps ==
    ASSUME IInv, NEW s \in Operators, NEW c \in Catalog, DeleteCatalog(s, c)
    PROVE  IInv'
<1>1. NoLinks \in [Link -> Entered]
  BY DEF NoLinks, Entered
<1> QED
  BY <1>1, BeginKeeps DEF DeleteCatalog

\* The requests of one step.
LEMMA RequestKeeps ==
    ASSUME IInv, Request, automation' \in [Pkg -> Automation], steps' \in [Channel -> Plan],
           \A ch \in Channel : StepCatalogs(steps'[ch]) \subseteq catalogs
    PROVE  IInv'
BY DEF IInv, TypeOK, Request

LEMMA EditKeeps ==
    ASSUME IInv, NEW p \in Pkg, EditAutomation(p) \/ DeletePkginfo(p)
    PROVE  IInv'
<1>1. automation' \in [Pkg -> Automation]
  <2>1. automation[p] \in Automation /\ automation \in [Pkg -> Automation]
    BY DEF IInv, TypeOK
  <2>2. PICK a \in Automation : automation' = [automation EXCEPT ![p] = a]
    <3>1. CASE EditAutomation(p)
      <4>1. PICK auto \in BOOLEAN, channel \in Channel \cup {None} :
              automation' = [automation EXCEPT ![p].auto_promote = auto, ![p].channel = channel]
        BY <3>1 DEF EditAutomation
      <4>2. [automation[p] EXCEPT !.auto_promote = auto, !.channel = channel] \in Automation
        BY <2>1 DEF Automation
      <4>3. automation' = [automation EXCEPT ![p] =
                             [automation[p] EXCEPT !.auto_promote = auto, !.channel = channel]]
        BY <2>1, <4>1 DEF Automation
      <4> QED
        BY <4>2, <4>3
    <3>2. CASE DeletePkginfo(p)
      <4>1. [automation[p] EXCEPT !.is_deleted = TRUE] \in Automation
        BY <2>1 DEF Automation
      <4> QED
        BY <3>2, <4>1 DEF DeletePkginfo
    <3> QED
      BY <3>1, <3>2
  <2> QED
    BY <2>1, <2>2
<1>2. Request /\ steps' = steps
  BY DEF EditAutomation, DeletePkginfo
<1> QED
  BY <1>1, <1>2, RequestKeeps DEF IInv, TypeOK

LEMMA ChannelKeeps ==
    ASSUME IInv, NEW ch \in Channel, UpdateChannel(ch) \/ DeleteChannel(ch)
    PROVE  IInv'
<1>1. PICK plan \in Plan : StepCatalogs(plan) \subseteq catalogs /\ steps' = [steps EXCEPT ![ch] = plan]
  BY PromotionAssumption, NoPlanNamesNothing DEF UpdateChannel, DeleteChannel
<1>2. automation' \in [Pkg -> Automation]
  BY DEF UpdateChannel, DeleteChannel, IInv, TypeOK, Automation
<1>3. Request
  BY DEF UpdateChannel, DeleteChannel
<1> QED
  BY <1>1, <1>2, <1>3, RequestKeeps DEF IInv, TypeOK

-----------------------------------------------------------------------------
(* The ends of transactions.                                               *)

LEMMA RollbackKeeps ==
    ASSUME IInv, NEW s \in Sessions, Rollback(s), crashes' \in Nat
    PROVE  IInv'
<1>1. ASSUME NEW u \in Sessions
      PROVE  txn'[u] \in Transaction /\ (u \in Tickers => TickInv(txn'[u]))
  <2> DEFINE t == txn[u]
  <2>1. t \in Transaction /\ (u \in Tickers => TickInv(t))
    BY DEF IInv, TypeOK
  <2>2. /\ t.removes \in SUBSET t.removes /\ t.removes \in SUBSET Link /\ t.holds \in SUBSET Link
        /\ t.restarted \in SUBSET Link
    BY <2>1 DEF Transaction
  <2>3. PICK H \in SUBSET Link : \/ txn'[u] = Idle
                                 \/ txn'[u] = t
                                 \/ txn'[u] = [t EXCEPT !.removes = t.removes, !.holds = H,
                                                             !.restarted = t.restarted]
    <3>1. PICK heir \in Sessions \cup {s} :
            txn' = [v \in Sessions |->
                     IF v = s THEN Idle
                     ELSE IF v = heir
                     THEN [txn[v] EXCEPT !.holds = @ \cup (txn[v].removes \cap txn[s].holds)]
                     ELSE txn[v]]
      BY DEF Rollback, Waiters
    <3> DEFINE H == t.holds \cup (t.removes \cap txn[s].holds)
    <3>2. H \in SUBSET Link
      BY <2>2
    <3>3. [t EXCEPT !.holds = H] = [t EXCEPT !.removes = t.removes, !.holds = H,
                                             !.restarted = t.restarted]
      BY <2>1 DEF Transaction
    <3> QED
      BY <3>1, <3>2, <3>3
  <2>4. [t EXCEPT !.removes = t.removes, !.holds = H, !.restarted = t.restarted] \in Transaction
    BY <2>1, <2>2 DEF Transaction
  <2>5. u \in Tickers => TickInv([t EXCEPT !.removes = t.removes, !.holds = H,
                                            !.restarted = t.restarted])
    BY <2>1, <2>2, TickInvShrinks
  <2> HIDE DEF t
  <2> QED
    BY <2>1, <2>3, <2>4, <2>5, IdleType
<1>2. txn' \in [Sessions -> Transaction]
  <2>1. DOMAIN txn' = Sessions /\ txn' = [v \in Sessions |-> txn'[v]]
    BY DEF Rollback
  <2> QED
    BY <1>1, <2>1
<1> QED
  BY <1>1, <1>2 DEF IInv, TypeOK, Rollback, Sessions

\* A commit keeps the foreign keys: what it inserts names a catalog that is there, and
\* what it drops takes its links and the steps that name it along.
LEMMA CommittedTables ==
    ASSUME IInv, NEW s \in Sessions, Commit(s)
    PROVE  /\ links' \in [Link -> Entered] /\ \A l \in Link : links'[l] # None => l[2] \in catalogs'
           /\ steps' \in [Channel -> Plan]
           /\ \A ch \in Channel : StepCatalogs(steps'[ch]) \subseteq catalogs'
           /\ catalogs' \subseteq Catalog
<1>1. /\ txn[s].drops \in SUBSET Catalog /\ txn[s].adds \in [Link -> Entered]
      /\ links \in [Link -> Entered] /\ catalogs \in SUBSET Catalog
      /\ catalogs' = catalogs \ txn[s].drops
  BY DEF IInv, TypeOK, Transaction, Commit
<1>2. ASSUME NEW l \in Link
      PROVE  /\ links'[l] = CommittedLink(s, l) /\ links'[l] \in Entered
             /\ links'[l] # None => l[2] \in catalogs'
  <2>1. links'[l] = CommittedLink(s, l)
    BY DEF Commit
  <2>2. None \in Entered
    BY DEF Entered
  <2>3. txn[s].adds[l] # None => l[2] \in catalogs
    BY DEF Commit, Conflicts, Added
  <2>4. links[l] # None => l[2] \in catalogs
    BY DEF IInv, TypeOK
  <2> QED
    BY <1>1, <2>1, <2>2, <2>3, <2>4 DEF CommittedLink
<1>3. links' \in [Link -> Entered]
  BY <1>2 DEF Commit
<1>4. ASSUME NEW ch \in Channel
      PROVE  steps'[ch] \in Plan /\ StepCatalogs(steps'[ch]) \subseteq catalogs'
  <2>1. steps'[ch] = Cascaded(steps[ch], txn[s].drops)
    BY DEF Commit
  <2>2. steps[ch] \in Plan /\ StepCatalogs(steps[ch]) \subseteq catalogs
    BY DEF IInv, TypeOK
  <2>3. /\ Cascaded(steps[ch], txn[s].drops) \in Plan
        /\ StepCatalogs(Cascaded(steps[ch], txn[s].drops)) \subseteq catalogs \ txn[s].drops
    BY <1>1, <2>2, CascadedType
  <2> QED
    BY <1>1, <2>1, <2>3
<1>5. steps' \in [Channel -> Plan]
  BY <1>4 DEF Commit
<1> QED
  BY <1>1, <1>2, <1>3, <1>4, <1>5

LEMMA CommitKeeps ==
    ASSUME IInv, NEW s \in Sessions, Commit(s)
    PROVE  IInv'
<1>1. ASSUME NEW u \in Sessions
      PROVE  txn'[u] \in Transaction /\ (u \in Tickers => TickInv(txn'[u]))
  <2> DEFINE t == txn[u]
             R == {l \in t.removes : l \notin txn[s].removes /\ l[2] \notin txn[s].drops}
             H == {l \in t.holds : l[2] \notin txn[s].drops}
             F == t.restarted \cup {l \in Added(s) : About(u, l)}
  <2>1. t \in Transaction /\ (u \in Tickers => TickInv(t))
    BY DEF IInv, TypeOK
  <2>2. R \in SUBSET t.removes /\ R \in SUBSET Link /\ H \in SUBSET Link /\ F \in SUBSET Link
    BY <2>1 DEF Transaction, Added
  <2>3. txn'[u] = Idle \/ txn'[u] = [t EXCEPT !.removes = R, !.holds = H, !.restarted = F]
    BY <2>1 DEF Commit, Transaction
  <2> HIDE DEF R, H, F
  <2>4. [t EXCEPT !.removes = R, !.holds = H, !.restarted = F] \in Transaction
    BY <2>1, <2>2 DEF Transaction
  <2>5. u \in Tickers => TickInv([t EXCEPT !.removes = R, !.holds = H, !.restarted = F])
    BY <2>1, <2>2, TickInvShrinks
  <2> QED
    BY <2>3, <2>4, <2>5, IdleType
<1>2. txn' \in [Sessions -> Transaction]
  BY <1>1 DEF Commit
<1> QED
  BY <1>1, <1>2, CommittedTables DEF IInv, TypeOK, Commit, Sessions

LEMMA NextIInv ==
    ASSUME IInv, [Next]_vars
    PROVE  IInv'
<1>1. CASE UNCHANGED vars
  BY <1>1 DEF vars, IInv, TypeOK
<1>2. ASSUME NEW s \in Tickers, Tick(s) PROVE IInv'
  BY <1>2, TickLoadKeeps, TickPickKeeps, TickDeleteKeeps, TickPromoteKeeps DEF Tick
<1>3. ASSUME NEW s \in Operators, NEW p \in Pkg, ReplaceCatalogs(s, p) \/ Promote(s, p) PROVE IInv'
  <2>1. {p} \in SUBSET Pkg
    OBVIOUS
  <2> QED
    BY <1>3, <2>1, ReassignKeeps, PromoteKeeps DEF ReplaceCatalogs
<1>4. ASSUME NEW s \in Operators, BulkUpdate(s) PROVE IInv'
  BY <1>4, ReassignKeeps DEF BulkUpdate
<1>5. ASSUME NEW s \in Operators, NEW c \in Catalog, DeleteCatalog(s, c) PROVE IInv'
  BY <1>5, DeleteCatalogKeeps
<1>6. ASSUME NEW p \in Pkg, EditAutomation(p) \/ DeletePkginfo(p) PROVE IInv'
  BY <1>6, EditKeeps
<1>7. ASSUME NEW ch \in Channel, UpdateChannel(ch) \/ DeleteChannel(ch) PROVE IInv'
  BY <1>7, ChannelKeeps
<1>8. ASSUME NEW s \in Sessions, Commit(s) \/ Abort(s) \/ Crash(s) PROVE IInv'
  <2>1. crashes \in Nat
    BY DEF IInv, TypeOK
  <2> QED
    BY <1>8, <2>1, CommitKeeps, RollbackKeeps DEF Abort, Crash
<1>9. CASE NextDay
  BY <1>9 DEF NextDay, IInv, TypeOK
<1> QED
  BY <1>1, <1>2, <1>3, <1>4, <1>5, <1>6, <1>7, <1>8, <1>9 DEF Next

LEMMA IInvHolds == Spec => []IInv
<1> QED
  BY InitIInv, NextIInv, PTL DEF Spec

-----------------------------------------------------------------------------
(* The theorems.                                                           *)

\* The tables and the open transactions keep their types, and the foreign keys hold:
\* no link and no step of a channel names a catalog that is gone, whatever deletions,
\* reassignments and ticks overlap.
THEOREM TypeCorrect == Spec => []TypeOK
<1>1. IInv => TypeOK
  BY DEF IInv
<1> QED
  BY <1>1, IInvHolds, PTL

\* What the commit of a tick takes from version p, and gives it, is on one step.
LEMMA CommitAlong ==
    ASSUME IInv, NEW s \in Tickers, TickCommits(s), NEW p \in Pkg
    PROVE  /\ \A c \in Catalog : Linked(p, c) /\ ~Linked(p, c)' => <<p, c>> \in txn[s].removes
           /\ \A c \in Catalog : ~Linked(p, c) /\ Linked(p, c)' => txn[s].adds[<<p, c>>] # None
           /\ Untouched(txn[s], p) \/ \E step \in Step : Along(txn[s], p, step)
<1>1. TickInv(txn[s]) /\ Commit(s) /\ s \in Sessions
  BY DEF IInv, TickCommits, Sessions
<1>2. txn[s].drops = {}
  BY <1>1 DEF TickInv
<1>3. \A c \in Catalog : <<p, c>> \in Link /\ links'[<<p, c>>] = CommittedLink(s, <<p, c>>)
  BY <1>1 DEF Commit, Link
<1> QED
  BY <1>1, <1>2, <1>3 DEF TickInv, CommittedLink, Linked

\* A tick moves a version along one step at most (the break in
\* run_promotion_channel_tick): also when requests reassign the version, edit the
\* channel or delete catalogs, and other ticks commit, between its statements.
THEOREM OneStep == Spec => OneStepPerTick
<1>1. ASSUME IInv, NEW s \in Tickers, TickCommits(s), NEW p \in Pkg,
             NEW c \in Catalog, NEW d \in Catalog, NEW e \in Catalog
      PROVE  /\ (Linked(p, c) /\ ~Linked(p, c)') /\ (Linked(p, d) /\ ~Linked(p, d)') => c = d
             /\ (~Linked(p, c) /\ Linked(p, c)') /\ (~Linked(p, d) /\ Linked(p, d)') => c = d
             /\ (Linked(p, c) /\ ~Linked(p, c)') /\ (~Linked(p, e) /\ Linked(p, e)') =>
                   \E k \in Order :
                      LET step == txn[s].plan[txn[s].assigned[p]][k]
                      IN  step # None /\ step.source = c /\ step.target = e
  <2>1. CASE Untouched(txn[s], p)
    BY <1>1, <2>1, CommitAlong DEF Untouched
  <2>2. ASSUME NEW step \in Step, Along(txn[s], p, step)
        PROVE  /\ (Linked(p, c) /\ ~Linked(p, c)') /\ (Linked(p, d) /\ ~Linked(p, d)') => c = d
               /\ (~Linked(p, c) /\ Linked(p, c)') /\ (~Linked(p, d) /\ Linked(p, d)') => c = d
               /\ (Linked(p, c) /\ ~Linked(p, c)') /\ (~Linked(p, e) /\ Linked(p, e)') =>
                     \E k \in Order : LET st == txn[s].plan[txn[s].assigned[p]][k]
                                      IN  st # None /\ st.source = c /\ st.target = e
    <3>1. /\ Linked(p, c) /\ ~Linked(p, c)' => c = step.source
          /\ Linked(p, d) /\ ~Linked(p, d)' => d = step.source
          /\ ~Linked(p, c) /\ Linked(p, c)' => c = step.target
          /\ ~Linked(p, d) /\ Linked(p, d)' => d = step.target
          /\ ~Linked(p, e) /\ Linked(p, e)' => e = step.target
      <4>1. /\ \A x \in Catalog : Linked(p, x) /\ ~Linked(p, x)' => <<p, x>> \in txn[s].removes
            /\ \A x \in Catalog : ~Linked(p, x) /\ Linked(p, x)' => txn[s].adds[<<p, x>>] # None
        BY <1>1, CommitAlong
      <4>2. \A x \in Catalog : /\ <<p, x>> \in txn[s].removes => x = step.source
                               /\ txn[s].adds[<<p, x>>] # None => x = step.target
        BY <2>2 DEF Along
      <4> QED
        BY <4>1, <4>2
    <3>2. PICK k \in Order : txn[s].plan[txn[s].assigned[p]][k] = step
      BY <2>2 DEF Along, PlanFor
    <3>3. step # None
      BY PromotionAssumption
    <3> QED
      BY <3>1, <3>2, <3>3
  <2> QED
    BY <1>1, <2>1, <2>2, CommitAlong
<1>2. IInv => \A s \in Tickers : TickCommits(s) =>
         \A p \in Pkg, c, d, e \in Catalog :
            /\ (Linked(p, c) /\ ~Linked(p, c)') /\ (Linked(p, d) /\ ~Linked(p, d)') => c = d
            /\ (~Linked(p, c) /\ Linked(p, c)') /\ (~Linked(p, d) /\ Linked(p, d)') => c = d
            /\ (Linked(p, c) /\ ~Linked(p, c)') /\ (~Linked(p, e) /\ Linked(p, e)') =>
                  \E k \in Order :
                     LET step == txn[s].plan[txn[s].assigned[p]][k]
                     IN  step # None /\ step.source = c /\ step.target = e
  BY <1>1
<1> QED
  BY <1>2, IInvHolds, PTL DEF OneStepPerTick

-----------------------------------------------------------------------------
(* The dwell time.                                                         *)

\* Where links are L: version p has dwelt in catalog c for a step that transaction t
\* knows.
Had(t, p, c, L) ==
    \E k \in Order : LET step == PlanFor(t, p)[k]
                     IN  /\ step # None /\ step.source = c
                         /\ step.dwell <= 0 \/ L[<<p, c>>] + step.dwell <= t.now

Excused(t, p, c, L) == <<p, c>> \in t.restarted \/ Had(t, p, c, L)

\* What it takes is there, and had dwelt or was written anew; so had what it is about
\* to take, if it is there.
TakesDwelt(t, L) ==
    /\ \A p \in Pkg, c \in Catalog :
          <<p, c>> \in t.removes => L[<<p, c>>] # None /\ Excused(t, p, c, L)
    /\ \A p \in Pkg, c \in Catalog :
          (On(t, p) /\ t.work.phase = "picked" /\ t.work.step.source = c /\ L[<<p, c>>] # None) =>
             Excused(t, p, c, L)

DwellInv == \A s \in Tickers : TakesDwelt(txn[s], links)

LEMMA IdleDwelt == TakesDwelt(Idle, links)
BY DEF Idle, TakesDwelt, On

\* What an action that changes one transaction, and no link, has to show.
LEMMA DwellKeeps ==
    ASSUME DwellInv, TypeOK, NEW s \in Tickers, NEW x, TakesDwelt(x, links),
           txn' = [txn EXCEPT ![s] = x], UNCHANGED links
    PROVE  DwellInv'
<1>1. \A u \in Tickers : txn'[u] = IF u = s THEN x ELSE txn[u]
  BY DEF TypeOK, Sessions
<1>2. \A u \in Tickers : TakesDwelt(txn'[u], links)
  BY <1>1 DEF DwellInv
<1> QED
  BY <1>2 DEF DwellInv

LEMMA TickLoadDwelt ==
    ASSUME DwellInv, IInv, NEW s \in Tickers, TickLoad(s)
    PROVE  DwellInv'
<1> DEFINE assigned == [p \in Pkg |-> IF p \in Candidates THEN automation[p].channel ELSE None]
           loaded == {c \in Catalog : \E p \in Candidates : Linked(p, c)}
           x == [Idle EXCEPT !.kind = "tick", !.now = today, !.plan = steps, !.assigned = assigned,
                             !.loaded = loaded, !.queue = Candidates]
<1>1. txn' = [txn EXCEPT ![s] = x] /\ UNCHANGED links
  BY DEF TickLoad
<1> HIDE DEF assigned, loaded
<1>2. x.work = None /\ x.removes = {}
  BY DEF Idle
<1> HIDE DEF x
<1>3. TakesDwelt(x, links)
  BY <1>2 DEF TakesDwelt, On
<1> QED
  BY <1>1, <1>3, DwellKeeps DEF IInv

\* The step that is picked is due.
LEMMA TickPickDwelt ==
    ASSUME DwellInv, IInv, NEW s \in Tickers, NEW p \in Pkg, TickPick(s, p)
    PROVE  DwellInv'
<1> DEFINE t == txn[s]
           plan == PlanFor(t, p)
           due == DueOrders(p, plan, t.now)
           work == IF due = {} THEN None
                   ELSE [pkg |-> p, step |-> plan[FirstOf(due)], phase |-> "picked"]
           x == [t EXCEPT !.queue = t.queue \ {p}, !.work = work]
<1>1. t \in Transaction /\ TakesDwelt(t, links)
  BY DEF IInv, TypeOK, Sessions, DwellInv
<1>2. work # None => /\ work.pkg = p
                     /\ \E k \in Order : /\ plan[k] # None /\ Dwelt(p, plan[k], t.now)
                                         /\ work.step = plan[k]
  <2>1. due \in SUBSET Order
    BY DEF DueOrders
  <2>2. due # {} => FirstOf(due) \in due
    BY <2>1, FirstOfType
  <2>3. \A k \in due : k \in Order /\ plan[k] # None /\ Dwelt(p, plan[k], t.now)
    BY DEF DueOrders, Due
  <2> HIDE DEF due
  <2> QED
    BY <2>2, <2>3
<1>3. txn' = [txn EXCEPT ![s] = x] /\ UNCHANGED links
  BY <1>1 DEF TickPick, IInv, TypeOK, Transaction, PlanFor
<1> HIDE DEF work
<1>4. /\ x.plan = t.plan /\ x.assigned = t.assigned /\ x.now = t.now /\ x.work = work
      /\ x.removes = t.removes /\ x.restarted = t.restarted
  BY <1>1 DEF Transaction
<1> HIDE DEF x
<1>5. \A q \in Pkg, c \in Catalog : Excused(x, q, c, links) = Excused(t, q, c, links)
  BY <1>4 DEF Excused, Had, PlanFor
<1>6. ASSUME NEW c \in Catalog, On(x, p), x.work.step.source = c PROVE Had(x, p, c, links)
  BY <1>2, <1>4, <1>6 DEF Had, On, PlanFor, Dwelt
<1>7. \A q \in Pkg : On(x, q) => q = p
  BY <1>2, <1>4 DEF On
<1>8. TakesDwelt(x, links)
  BY <1>1, <1>4, <1>5, <1>6, <1>7 DEF TakesDwelt, Excused
<1> QED
  BY <1>3, <1>8, DwellKeeps DEF IInv

LEMMA TickDeleteDwelt ==
    ASSUME DwellInv, IInv, NEW s \in Tickers, TickDelete(s)
    PROVE  DwellInv'
<1> DEFINE t == txn[s]
           w == t.work
           found == {l \in {<<w.pkg, w.step.source>>} : links[l] # None}
           x == [t EXCEPT !.work = [w EXCEPT !.phase = "deleted"], !.removes = t.removes \cup found,
                          !.holds = t.holds \cup (found \ LockedByOthers(s))]
<1>1. t \in Transaction /\ TakesDwelt(t, links)
  BY DEF IInv, TypeOK, Sessions, DwellInv
<1>2. w \in Work /\ w # None /\ w.phase = "picked" /\ UNCHANGED links
  BY <1>1 DEF TickDelete, Transaction
<1>3. txn' = [txn EXCEPT ![s] = x]
  BY <1>1, <1>2 DEF TickDelete, IInv, TypeOK, Transaction, Work
<1> DEFINE v == [w EXCEPT !.phase = "deleted"]
<1>4. ASSUME NEW p \in Pkg, NEW c \in Catalog, <<p, c>> \in found
      PROVE  On(t, p) /\ w.step.source = c /\ links[<<p, c>>] # None
  BY <1>2, <1>4 DEF On
<1>5. v # None /\ v.phase = "deleted"
  BY <1>2, PromotionAssumption DEF Work
<1> HIDE DEF found, v
<1>6. /\ x.plan = t.plan /\ x.assigned = t.assigned /\ x.now = t.now /\ x.work = v
      /\ x.removes = t.removes \cup found /\ x.restarted = t.restarted
  BY <1>1 DEF Transaction, v
<1> HIDE DEF x
<1>7. \A q \in Pkg, c \in Catalog : Excused(x, q, c, links) = Excused(t, q, c, links)
  BY <1>6 DEF Excused, Had, PlanFor
<1>8. TakesDwelt(x, links)
  BY <1>1, <1>2, <1>4, <1>5, <1>6, <1>7 DEF TakesDwelt
<1> QED
  BY <1>2, <1>3, <1>8, DwellKeeps DEF IInv

LEMMA TickPromoteDwelt ==
    ASSUME DwellInv, IInv, NEW s \in Tickers, TickPromote(s)
    PROVE  DwellInv'
<1> DEFINE t == txn[s]
           w == t.work
           l == <<w.pkg, w.step.target>>
           entered == IF /\ w.step.target \in catalogs \cup t.loaded
                         /\ links[l] = None \/ l \in t.removes
                      THEN today ELSE t.adds[l]
           adds == [t.adds EXCEPT ![l] = entered]
           x == [t EXCEPT !.work = None, !.adds = adds]
<1>1. t \in Transaction /\ TakesDwelt(t, links)
  BY DEF IInv, TypeOK, Sessions, DwellInv
<1>2. t.adds \in [Link -> Entered]
  BY <1>1 DEF Transaction
<1>3. txn' = [txn EXCEPT ![s] = x] /\ UNCHANGED links
  BY <1>1, <1>2 DEF TickPromote, IInv, TypeOK, Transaction
<1> HIDE DEF adds
<1>4. /\ x.plan = t.plan /\ x.assigned = t.assigned /\ x.now = t.now /\ x.work = None
      /\ x.removes = t.removes /\ x.restarted = t.restarted
  BY <1>1 DEF Transaction
<1> HIDE DEF x
<1>5. \A q \in Pkg, c \in Catalog : Excused(x, q, c, links) = Excused(t, q, c, links)
  BY <1>4 DEF Excused, Had, PlanFor
<1>6. TakesDwelt(x, links)
  BY <1>1, <1>4, <1>5 DEF TakesDwelt, On
<1> QED
  BY <1>3, <1>6, DwellKeeps DEF IInv

\* A commit leaves alone what another tick takes: a row that is there is not inserted.
\* What it writes under a tick's nose is in the history.
LEMMA CommitDwelt ==
    ASSUME DwellInv, IInv, NEW s \in Sessions, Commit(s)
    PROVE  DwellInv'
<1>1. ASSUME NEW u \in Tickers PROVE TakesDwelt(txn'[u], links')
  <2>1. CASE u = s
    <3>1. txn'[u] = Idle
      BY <2>1 DEF Commit, Sessions
    <3>2. Idle.removes = {} /\ Idle.work = None
      BY DEF Idle
    <3> QED
      BY <3>1, <3>2 DEF TakesDwelt, On
  <2>2. CASE u # s
    <3> DEFINE t == txn[u]
               R == {l \in t.removes : l \notin txn[s].removes /\ l[2] \notin txn[s].drops}
               H == {l \in t.holds : l[2] \notin txn[s].drops}
               F == t.restarted \cup {l \in Added(s) : About(u, l)}
               x == [t EXCEPT !.removes = R, !.holds = H, !.restarted = F]
    <3>1. t \in Transaction /\ TakesDwelt(t, links) /\ t.removes \subseteq Link
      BY DEF IInv, TypeOK, Sessions, DwellInv, Transaction
    <3>2. txn'[u] = x
      BY <2>2, <3>1 DEF Commit, Sessions, Transaction
    <3>3. ASSUME NEW p \in Pkg, NEW c \in Catalog
          PROVE  /\ <<p, c>> \in Link /\ links'[<<p, c>>] = CommittedLink(s, <<p, c>>)
                 /\ <<p, c>> \in R => /\ <<p, c>> \in t.removes /\ <<p, c>> \notin txn[s].removes
                                      /\ c \notin txn[s].drops
                 /\ <<p, c>> \in F <=> \/ <<p, c>> \in t.restarted
                                       \/ txn[s].adds[<<p, c>>] # None /\ About(u, <<p, c>>)
      BY DEF Commit, Link, Added
    <3> HIDE DEF R, H, F
    <3>4. /\ x.plan = t.plan /\ x.assigned = t.assigned /\ x.now = t.now /\ x.work = t.work
          /\ x.removes = R /\ x.restarted = F
      BY <3>1 DEF Transaction
    <3> HIDE DEF x
    <3>5. ASSUME NEW p \in Pkg, NEW c \in Catalog, Excused(t, p, c, links),
                 links'[<<p, c>>] = links[<<p, c>>]
          PROVE  Excused(x, p, c, links')
      BY <3>3, <3>4, <3>5 DEF Excused, Had, PlanFor
    <3>6. ASSUME NEW p \in Pkg, NEW c \in Catalog, <<p, c>> \in R
          PROVE  links'[<<p, c>>] # None /\ Excused(x, p, c, links')
      <4>1. links[<<p, c>>] # None /\ Excused(t, p, c, links)
        BY <3>1, <3>3, <3>6 DEF TakesDwelt
      <4>2. txn[s].adds[<<p, c>>] = None
        BY <3>3, <3>6, <4>1 DEF Commit, Conflicts, Added
      <4>3. links'[<<p, c>>] = links[<<p, c>>]
        BY <3>3, <3>6, <4>2 DEF CommittedLink
      <4> QED
        BY <3>5, <4>1, <4>3
    <3>7. ASSUME NEW p \in Pkg, NEW c \in Catalog, On(t, p), t.work.phase = "picked",
                 t.work.step.source = c, links'[<<p, c>>] # None
          PROVE  Excused(x, p, c, links')
      <4>1. CASE txn[s].adds[<<p, c>>] # None
        <5>1. About(u, <<p, c>>)
          BY <3>7 DEF About, On
        <5>2. <<p, c>> \in F
          BY <3>3, <4>1, <5>1
        <5> QED
          BY <3>4, <5>2 DEF Excused
      <4>2. CASE txn[s].adds[<<p, c>>] = None
        <5>1. links'[<<p, c>>] = links[<<p, c>>]
          BY <3>3, <3>7, <4>2 DEF CommittedLink
        <5>2. Excused(t, p, c, links)
          BY <3>1, <3>7, <5>1 DEF TakesDwelt
        <5> QED
          BY <3>5, <5>1, <5>2
      <4> QED
        BY <4>1, <4>2
    <3>8. TakesDwelt(x, links')
      BY <3>4, <3>6, <3>7 DEF TakesDwelt, On
    <3> QED
      BY <3>2, <3>8
  <2> QED
    BY <2>1, <2>2
<1> QED
  BY <1>1 DEF DwellInv

LEMMA RollbackDwelt ==
    ASSUME DwellInv, IInv, NEW s \in Sessions, Rollback(s)
    PROVE  DwellInv'
<1>1. ASSUME NEW u \in Tickers PROVE TakesDwelt(txn'[u], links)
  <2> DEFINE t == txn[u]
  <2>1. t \in Transaction /\ TakesDwelt(t, links) /\ u \in Sessions
    BY DEF IInv, TypeOK, Sessions, DwellInv
  <2>2. PICK H : txn'[u] = Idle \/ txn'[u] = t \/ txn'[u] = [t EXCEPT !.holds = H]
    BY <2>1 DEF Rollback
  <2> DEFINE x == [t EXCEPT !.holds = H]
  <2>3. /\ x.plan = t.plan /\ x.assigned = t.assigned /\ x.now = t.now /\ x.work = t.work
        /\ x.removes = t.removes /\ x.restarted = t.restarted
    BY <2>1 DEF Transaction
  <2> HIDE DEF x
  <2>4. \A q \in Pkg, c \in Catalog : Excused(x, q, c, links) = Excused(t, q, c, links)
    BY <2>3 DEF Excused, Had, PlanFor
  <2>5. TakesDwelt(x, links)
    BY <2>1, <2>3, <2>4 DEF TakesDwelt, On
  <2> QED
    BY <2>1, <2>2, <2>5, IdleDwelt DEF x
<1> QED
  BY <1>1 DEF Rollback, DwellInv

\* The requests write no link before they commit, and are no ticks.
LEMMA RequestDwelt ==
    ASSUME DwellInv, IInv,
           \/ \E s \in Operators : \/ \E p \in Pkg : ReplaceCatalogs(s, p) \/ Promote(s, p)
                                   \/ BulkUpdate(s)
                                   \/ \E c \in Catalog : DeleteCatalog(s, c)
           \/ UNCHANGED <<links, txn>>
    PROVE  DwellInv'
<1>1. UNCHANGED links /\ \A u \in Tickers : txn'[u] = txn[u]
  <2>1. \A s \in Operators, u \in Tickers : u \in Sessions /\ u # s
    BY PromotionAssumption DEF Sessions
  <2>2. ASSUME NEW s \in Operators, NEW kind, NEW removes, NEW adds, NEW drops,
               Begin(s, kind, removes, adds, drops)
        PROVE  UNCHANGED links /\ \A u \in Tickers : txn'[u] = txn[u]
    <3>1. txn \in [Sessions -> Transaction]
      BY DEF IInv, TypeOK
    <3> QED
      BY <2>1, <2>2, <3>1 DEF Begin
  <2>3. ASSUME NEW s \in Operators, NEW pkgs, NEW names, Reassign(s, pkgs, names)
        PROVE  UNCHANGED links /\ \A u \in Tickers : txn'[u] = txn[u]
    BY <2>2, <2>3 DEF Reassign
  <2>4. ASSUME NEW s \in Operators, NEW p \in Pkg, ReplaceCatalogs(s, p) \/ Promote(s, p)
        PROVE  UNCHANGED links /\ \A u \in Tickers : txn'[u] = txn[u]
    BY <2>2, <2>3, <2>4 DEF ReplaceCatalogs, Promote
  <2>5. ASSUME NEW s \in Operators, BulkUpdate(s)
        PROVE  UNCHANGED links /\ \A u \in Tickers : txn'[u] = txn[u]
    BY <2>3, <2>5 DEF BulkUpdate
  <2>6. ASSUME NEW s \in Operators, NEW c \in Catalog, DeleteCatalog(s, c)
        PROVE  UNCHANGED links /\ \A u \in Tickers : txn'[u] = txn[u]
    BY <2>2, <2>6 DEF DeleteCatalog
  <2> QED
    BY <2>4, <2>5, <2>6
<1> QED
  BY <1>1 DEF DwellInv

\* Versions move after the dwell time in their source catalog, whatever requests, other
\* ticks, crashes and midnights overlap the tick, for any plans and sessions: a link that
\* a tick takes away had dwelt by the tick's clock, unless another session wrote it
\* between the tick's SELECT and its DELETE.
THEOREM DwellTimes == Spec => DwellRespected
<1> DEFINE Both == IInv /\ DwellInv
           Kept == \A s \in Tickers : TickCommits(s) =>
                     \A p \in Pkg, c \in Catalog : (Linked(p, c) /\ ~Linked(p, c)') =>
                        \/ <<p, c>> \in txn[s].restarted
                        \/ \E k \in Order :
                              LET step == txn[s].plan[txn[s].assigned[p]][k]
                              IN  step # None /\ step.source = c /\ Dwelt(p, step, txn[s].now)
<1>1. Init => Both
  <2>1. Init => \A s \in Tickers : txn[s] = Idle
    BY DEF Init, Sessions
  <2> QED
    BY <2>1, InitIInv, IdleDwelt DEF DwellInv
<1>2. Both /\ [Next]_vars => Both'
  <2> SUFFICES ASSUME IInv, DwellInv, [Next]_vars PROVE DwellInv'
    BY NextIInv
  <2>1. CASE UNCHANGED vars
    BY <2>1, RequestDwelt DEF vars
  <2>2. ASSUME NEW s \in Tickers, Tick(s) PROVE DwellInv'
    BY <2>2, TickLoadDwelt, TickPickDwelt, TickDeleteDwelt, TickPromoteDwelt DEF Tick
  <2>3. ASSUME NEW s \in Operators,
               \/ \E p \in Pkg : ReplaceCatalogs(s, p) \/ Promote(s, p)
               \/ BulkUpdate(s)
               \/ \E c \in Catalog : DeleteCatalog(s, c)
        PROVE  DwellInv'
    BY <2>3, RequestDwelt
  <2>4. ASSUME \/ \E p \in Pkg : EditAutomation(p) \/ DeletePkginfo(p)
               \/ \E ch \in Channel : UpdateChannel(ch) \/ DeleteChannel(ch)
               \/ NextDay
        PROVE  DwellInv'
    <3>1. UNCHANGED <<links, txn>>
      BY <2>4 DEF EditAutomation, DeletePkginfo, UpdateChannel, DeleteChannel, NextDay, Request
    <3> QED
      BY <3>1, RequestDwelt
  <2>5. ASSUME NEW s \in Sessions, Commit(s) \/ Abort(s) \/ Crash(s) PROVE DwellInv'
    BY <2>5, CommitDwelt, RollbackDwelt DEF Abort, Crash
  <2> QED
    BY <2>1, <2>2, <2>3, <2>4, <2>5 DEF Next
<1>3. Both => Kept
  <2>1. ASSUME Both, NEW s \in Tickers, TickCommits(s), NEW p \in Pkg, NEW c \in Catalog,
               Linked(p, c), ~Linked(p, c)'
        PROVE  \/ <<p, c>> \in txn[s].restarted
               \/ \E k \in Order :
                     LET step == txn[s].plan[txn[s].assigned[p]][k]
                     IN  step # None /\ step.source = c /\ Dwelt(p, step, txn[s].now)
    <3>1. <<p, c>> \in txn[s].removes
      BY <2>1, CommitAlong
    <3>2. Excused(txn[s], p, c, links)
      BY <2>1, <3>1 DEF DwellInv, TakesDwelt
    <3>3. CASE Had(txn[s], p, c, links)
      BY <3>3 DEF Had, PlanFor, Dwelt
    <3> QED
      BY <3>2, <3>3 DEF Excused
  <2> QED
    BY <2>1
<1> HIDE DEF Both, Kept
<1>4. Spec => [][Kept]_vars
  BY <1>1, <1>2, <1>3, PTL DEF Spec
<1> QED
  BY <1>4 DEF DwellRespected, Kept

-----------------------------------------------------------------------------
(* Ticks alone, on plans whose steps all lead upwards.                     *)

Upwards(above) ==
    /\ above \in SUBSET (Catalog \X Catalog)
    /\ \A c \in Catalog : <<c, c>> \notin above
    /\ \A c, d, e \in Catalog : <<c, d>> \in above /\ <<d, e>> \in above => <<c, e>> \in above

Leads(step, above) == step # None => <<step.source, step.target>> \in above

\* No plan comes back to a catalog.
Acyclic ==
    \E above : Upwards(above) /\ \A plan \in PlanChoices, k \in Order : Leads(plan[k], above)

\* What transaction t has taken from a version, and is done with, is followed by a
\* link further up: one that is there, or one that t brings.
Followed(t, above) ==
    \A p \in Pkg, c \in Catalog : <<p, c>> \in t.removes /\ ~(t.work # None /\ t.work.pkg = p) =>
        \E d \in Catalog : <<c, d>> \in above /\ (Linked(p, d) \/ t.adds[<<p, d>>] # None)

Climbs(t, above) ==
    /\ \A ch \in Channel, k \in Order : Leads(t.plan[ch][k], above)
    /\ t.work # None => Leads(t.work.step, above)
    /\ Followed(t, above)

ClimbInv(above) ==
    /\ catalogs = Catalog
    /\ \A ch \in Channel, k \in Order : Leads(steps[ch][k], above)
    /\ \A s \in Tickers : Climbs(txn[s], above)

LEMMA IdleClimbs == ASSUME NEW above PROVE Climbs(Idle, above)
<1>1. Idle.removes = {} /\ Idle.work = None /\ Idle.plan = [ch \in Channel |-> NoPlan]
  BY DEF Idle
<1>2. \A ch \in Channel, k \in Order : Idle.plan[ch][k] = None
  BY <1>1 DEF NoPlan
<1> QED
  BY <1>1, <1>2 DEF Climbs, Leads, Followed

\* What an action that changes one transaction, and no table, has to show.
LEMMA ClimbKeeps ==
    ASSUME NEW above, ClimbInv(above), TypeOK, NEW s \in Tickers, NEW x, Climbs(x, above),
           txn' = [txn EXCEPT ![s] = x], UNCHANGED <<catalogs, links, steps>>
    PROVE  ClimbInv(above)'
<1>1. \A u \in Tickers : txn'[u] = IF u = s THEN x ELSE txn[u]
  BY DEF TypeOK, Sessions
<1>2. \A u \in Tickers : Climbs(txn'[u], above)
  BY <1>1 DEF ClimbInv
<1> QED
  BY <1>2 DEF ClimbInv, Climbs, Followed, Linked

LEMMA TickLoadClimbs ==
    ASSUME NEW above, ClimbInv(above), IInv, NEW s \in Tickers, TickLoad(s)
    PROVE  ClimbInv(above)'
<1> DEFINE assigned == [p \in Pkg |-> IF p \in Candidates THEN automation[p].channel ELSE None]
           loaded == {c \in Catalog : \E p \in Candidates : Linked(p, c)}
           x == [Idle EXCEPT !.kind = "tick", !.now = today, !.plan = steps, !.assigned = assigned,
                             !.loaded = loaded, !.queue = Candidates]
<1>1. txn' = [txn EXCEPT ![s] = x] /\ UNCHANGED <<catalogs, links, steps>>
  BY DEF TickLoad
<1> HIDE DEF assigned, loaded
<1>2. x.plan = steps /\ x.work = None /\ x.removes = {}
  BY DEF Idle
<1> HIDE DEF x
<1>3. Climbs(x, above)
  BY <1>2 DEF ClimbInv, Climbs, Followed
<1> QED
  BY <1>1, <1>3, ClimbKeeps DEF IInv

LEMMA TickPickClimbs ==
    ASSUME NEW above, ClimbInv(above), IInv, NEW s \in Tickers, NEW p \in Pkg, TickPick(s, p)
    PROVE  ClimbInv(above)'
<1> DEFINE t == txn[s]
           plan == PlanFor(t, p)
           due == DueOrders(p, plan, t.now)
           work == IF due = {} THEN None
                   ELSE [pkg |-> p, step |-> plan[FirstOf(due)], phase |-> "picked"]
           x == [t EXCEPT !.queue = t.queue \ {p}, !.work = work]
<1>1. t \in Transaction /\ TickInv(t) /\ Climbs(t, above)
  BY DEF IInv, TypeOK, Sessions, ClimbInv
<1>2. p \in t.queue /\ t.work = None /\ t.assigned[p] \in Channel
  BY <1>1 DEF TickPick, TickInv
<1>3. work # None => work.pkg = p /\ Leads(work.step, above)
  <2>1. due \in SUBSET Order
    BY DEF DueOrders
  <2>2. due # {} => FirstOf(due) \in Order
    BY <2>1, FirstOfType
  <2>3. \A k \in Order : Leads(plan[k], above)
    BY <1>1, <1>2 DEF Climbs, PlanFor
  <2> QED
    BY <2>2, <2>3
<1>4. txn' = [txn EXCEPT ![s] = x] /\ UNCHANGED <<catalogs, links, steps>>
  BY <1>1 DEF TickPick, IInv, TypeOK, Transaction, PlanFor
<1> HIDE DEF work
<1>5. x.plan = t.plan /\ x.work = work /\ x.removes = t.removes /\ x.adds = t.adds
  BY <1>1 DEF Transaction
<1> HIDE DEF x
<1>6. Climbs(x, above)
  BY <1>1, <1>2, <1>3, <1>5 DEF Climbs, Followed
<1> QED
  BY <1>4, <1>6, ClimbKeeps DEF IInv

\* The link that is taken is followed once its version is done with.
LEMMA TickDeleteClimbs ==
    ASSUME NEW above, ClimbInv(above), IInv, NEW s \in Tickers, TickDelete(s)
    PROVE  ClimbInv(above)'
<1> DEFINE t == txn[s]
           w == t.work
           found == {l \in {<<w.pkg, w.step.source>>} : links[l] # None}
           x == [t EXCEPT !.work = [w EXCEPT !.phase = "deleted"], !.removes = t.removes \cup found,
                          !.holds = t.holds \cup (found \ LockedByOthers(s))]
<1>1. t \in Transaction /\ Climbs(t, above)
  BY DEF IInv, TypeOK, Sessions, ClimbInv
<1>2. w \in Work /\ w # None
  BY <1>1 DEF TickDelete, Transaction
<1>3. txn' = [txn EXCEPT ![s] = x]
  BY <1>1, <1>2 DEF TickDelete, IInv, TypeOK, Transaction, Work
<1> DEFINE v == [w EXCEPT !.phase = "deleted"]
<1>4. \A l \in found : l[1] = w.pkg
  OBVIOUS
<1>5. v # None /\ v.pkg = w.pkg /\ v.step = w.step
  BY <1>2, PromotionAssumption DEF Work
<1> HIDE DEF found, v
<1>6. x.plan = t.plan /\ x.work = v /\ x.removes = t.removes \cup found /\ x.adds = t.adds
  BY <1>1 DEF Transaction, v
<1> HIDE DEF x
<1>7. Followed(x, above)
  <2> SUFFICES ASSUME NEW p \in Pkg, NEW c \in Catalog, <<p, c>> \in x.removes, p # w.pkg
               PROVE  \E d \in Catalog : <<c, d>> \in above /\ (Linked(p, d) \/ x.adds[<<p, d>>] # None)
    BY <1>5, <1>6 DEF Followed
  <2>1. <<p, c>> \in t.removes
    BY <1>4, <1>6
  <2> QED
    BY <1>1, <1>6, <2>1 DEF Climbs, Followed
<1> HIDE DEF t
<1> QED
  BY <1>1, <1>2, <1>3, <1>5, <1>6, <1>7, ClimbKeeps DEF IInv, Climbs, TickDelete

\* promote_pkginfo inserts nothing only if the version is in the target.
LEMMA TickPromoteClimbs ==
    ASSUME NEW above, ClimbInv(above), IInv, NEW s \in Tickers, TickPromote(s)
    PROVE  ClimbInv(above)'
<1> DEFINE t == txn[s]
           w == t.work
           l == <<w.pkg, w.step.target>>
           entered == IF /\ w.step.target \in catalogs \cup t.loaded
                         /\ links[l] = None \/ l \in t.removes
                      THEN today ELSE t.adds[l]
           adds == [t.adds EXCEPT ![l] = entered]
           x == [t EXCEPT !.work = None, !.adds = adds]
<1>1. t \in Transaction /\ TickInv(t) /\ Climbs(t, above) /\ today \in Nat
  BY DEF IInv, TypeOK, Sessions, ClimbInv
<1>2. w \in Work /\ w # None
  BY <1>1 DEF TickPromote, Transaction
<1>3. /\ w.pkg \in Pkg /\ w.step \in Step /\ l \in Link /\ w.step.target \in Catalog
      /\ w.step.source \in Catalog /\ On(t, w.pkg)
  BY <1>2 DEF Work, Step, On, Link
<1>4. t.adds \in [Link -> Entered]
  BY <1>1 DEF Transaction
<1>5. txn' = [txn EXCEPT ![s] = x] /\ UNCHANGED <<catalogs, links, steps>>
  BY <1>1, <1>4 DEF TickPromote, IInv, TypeOK, Transaction
<1>6. links[l] # None \/ entered # None
  BY <1>1, <1>3, PromotionAssumption DEF ClimbInv
<1> HIDE DEF entered
<1>7. adds[l] = entered /\ \A m \in Link : m # l => adds[m] = t.adds[m]
  BY <1>3, <1>4
<1> HIDE DEF adds
<1>8. x.plan = t.plan /\ x.work = None /\ x.removes = t.removes /\ x.adds = adds
  BY <1>1 DEF Transaction
<1> HIDE DEF x
<1>9. Followed(x, above)
  <2> SUFFICES ASSUME NEW p \in Pkg, NEW c \in Catalog, <<p, c>> \in t.removes
               PROVE  \E d \in Catalog : <<c, d>> \in above /\ (Linked(p, d) \/ adds[<<p, d>>] # None)
    BY <1>8 DEF Followed
  <2>1. CASE p = w.pkg
    <3>1. c = w.step.source
      BY <1>1, <1>3, <2>1 DEF TickInv, Along
    <3>2. <<c, w.step.target>> \in above
      BY <1>1, <1>2, <1>3, <3>1, PromotionAssumption DEF Climbs, Leads
    <3> QED
      BY <1>3, <1>6, <1>7, <2>1, <3>2 DEF Linked
  <2>2. CASE p # w.pkg
    <3>1. \A d \in Catalog : <<p, d>> \in Link /\ <<p, d>> # l
      BY <2>2 DEF Link
    <3>2. PICK d \in Catalog : <<c, d>> \in above /\ (Linked(p, d) \/ t.adds[<<p, d>>] # None)
      BY <1>1, <2>2 DEF Climbs, Followed
    <3> QED
      BY <1>7, <3>1, <3>2
  <2> QED
    BY <2>1, <2>2
<1> HIDE DEF t
<1> QED
  BY <1>1, <1>5, <1>8, <1>9, ClimbKeeps DEF IInv, Climbs

\* What a finished tick commits leaves a link further up.
LEMMA CommitFollows ==
    ASSUME NEW above, Upwards(above), ClimbInv(above), IInv, NEW s \in Tickers, Commit(s),
           NEW p \in Pkg, NEW c \in Catalog, Linked(p, c), ~Linked(p, c)'
    PROVE  \E d \in Catalog : <<c, d>> \in above /\ Linked(p, d)'
<1> DEFINE t == txn[s]
<1>1. t \in Transaction /\ TickInv(t) /\ Climbs(t, above) /\ t.drops = {} /\ t.work = None
  BY DEF IInv, TypeOK, Sessions, ClimbInv, TickInv, Commit, Finished
<1>2. \A d \in Catalog : Linked(p, d)' <=> \/ t.adds[<<p, d>>] # None
                                           \/ Linked(p, d) /\ <<p, d>> \notin t.removes
  <2>1. \A d \in Catalog : <<p, d>> \in Link /\ links'[<<p, d>>] = CommittedLink(s, <<p, d>>)
    BY DEF Commit, Link
  <2> QED
    BY <1>1, <2>1 DEF CommittedLink, Linked
<1>3. <<p, c>> \in t.removes
  BY <1>2
<1>4. PICK d \in Catalog : <<c, d>> \in above /\ (Linked(p, d) \/ t.adds[<<p, d>>] # None)
  BY <1>1, <1>3 DEF Climbs, Followed
<1>5. <<p, d>> \in t.removes => d = c
  BY <1>1, <1>3 DEF TickInv, Untouched, Along
<1>6. d # c
  BY <1>4 DEF Upwards
<1> QED
  BY <1>2, <1>4, <1>5, <1>6

LEMMA CommitClimbs ==
    ASSUME NEW above, Upwards(above), ClimbInv(above), IInv, NEW s \in Tickers, Commit(s)
    PROVE  ClimbInv(above)'
<1>1. txn[s].drops = {}
  BY DEF IInv, TickInv
<1>2. catalogs' = Catalog
  BY <1>1 DEF Commit, ClimbInv
<1>3. \A ch \in Channel, k \in Order : Leads(steps'[ch][k], above)
  <2>1. \A ch \in Channel : steps'[ch] = Cascaded(steps[ch], {})
    BY <1>1 DEF Commit
  <2>2. ASSUME NEW ch \in Channel, NEW k \in Order PROVE steps'[ch][k] = steps[ch][k]
    <3>1. Cascaded(steps[ch], {})[k] = steps[ch][k]
      BY DEF Cascaded
    <3> QED
      BY <2>1, <3>1
  <2> QED
    BY <2>2 DEF ClimbInv
<1>4. ASSUME NEW u \in Tickers PROVE Climbs(txn[u], above)'
  <2>1. CASE u = s
    <3>1. txn'[u] = Idle
      BY <2>1 DEF Commit, Sessions
    <3>2. Idle.removes = {} /\ Idle.work = None /\ Idle.plan = [ch \in Channel |-> NoPlan]
      BY DEF Idle
    <3>3. \A ch \in Channel, k \in Order : Idle.plan[ch][k] = None
      BY <3>2 DEF NoPlan
    <3> QED
      BY <3>1, <3>2, <3>3 DEF Climbs, Leads, Followed
  <2>2. CASE u # s
    <3> DEFINE t == txn[u]
               R == {l \in t.removes : l \notin txn[s].removes /\ l[2] \notin txn[s].drops}
               H == {l \in t.holds : l[2] \notin txn[s].drops}
               F == t.restarted \cup {l \in Added(s) : About(u, l)}
               x == [t EXCEPT !.removes = R, !.holds = H, !.restarted = F]
    <3>1. t \in Transaction /\ Climbs(t, above)
      BY DEF IInv, TypeOK, Sessions, ClimbInv
    <3>2. txn'[u] = x
      BY <2>2, <3>1 DEF Commit, Sessions, Transaction
    <3>3. R \subseteq t.removes
      OBVIOUS
    <3> HIDE DEF R, H, F
    <3>4. x.plan = t.plan /\ x.work = t.work /\ x.removes = R /\ x.adds = t.adds
      BY <3>1 DEF Transaction
    <3> HIDE DEF x
    <3>5. ASSUME NEW p \in Pkg, NEW c \in Catalog, <<p, c>> \in x.removes,
                 ~(x.work # None /\ x.work.pkg = p)
          PROVE  \E d \in Catalog : <<c, d>> \in above /\ (Linked(p, d)' \/ x.adds[<<p, d>>] # None)
      <4>1. PICK d \in Catalog : <<c, d>> \in above /\ (Linked(p, d) \/ t.adds[<<p, d>>] # None)
        BY <3>1, <3>3, <3>4, <3>5 DEF Climbs, Followed
      <4>2. CASE Linked(p, d) /\ ~Linked(p, d)'
        <5>1. PICK e \in Catalog : <<d, e>> \in above /\ Linked(p, e)'
          BY <4>2, CommitFollows
        <5> QED
          BY <4>1, <5>1 DEF Upwards
      <4> QED
        BY <3>4, <4>1, <4>2
    <3>6. Followed(txn[u], above)'
      BY <3>2, <3>5 DEF Followed
    <3> QED
      BY <3>1, <3>2, <3>4, <3>6 DEF Climbs
  <2> QED
    BY <2>1, <2>2
<1> QED
  BY <1>2, <1>3, <1>4 DEF ClimbInv

LEMMA RollbackClimbs ==
    ASSUME NEW above, ClimbInv(above), IInv, NEW s \in Tickers, Rollback(s)
    PROVE  ClimbInv(above)'
<1>1. ASSUME NEW u \in Tickers PROVE Climbs(txn'[u], above)
  <2> DEFINE t == txn[u]
  <2>1. t \in Transaction /\ Climbs(t, above) /\ u \in Sessions
    BY DEF IInv, TypeOK, Sessions, ClimbInv
  <2>2. PICK H : txn'[u] = Idle \/ txn'[u] = t \/ txn'[u] = [t EXCEPT !.holds = H]
    BY <2>1 DEF Rollback
  <2> DEFINE x == [t EXCEPT !.holds = H]
  <2>3. x.plan = t.plan /\ x.work = t.work /\ x.removes = t.removes /\ x.adds = t.adds
    BY <2>1 DEF Transaction
  <2> HIDE DEF x
  <2>4. Climbs(x, above)
    BY <2>1, <2>3 DEF Climbs, Followed
  <2> QED
    BY <2>1, <2>2, <2>4, IdleClimbs DEF x
<1> QED
  BY <1>1 DEF Rollback, ClimbInv, Climbs, Followed, Linked

LEMMA ClimbInit ==
    ASSUME NEW above, \A plan \in PlanChoices, k \in Order : Leads(plan[k], above), Init
    PROVE  ClimbInv(above)
<1>1. \A s \in Tickers : txn[s] = Idle
  BY DEF Init, Sessions
<1> QED
  BY <1>1, IdleClimbs DEF Init, ClimbInv

LEMMA ClimbNext ==
    ASSUME NEW above, Upwards(above), Operators = {},
           \A plan \in PlanChoices, k \in Order : Leads(plan[k], above),
           ClimbInv(above), IInv, [Next]_vars
    PROVE  ClimbInv(above)'
<1>1. ASSUME UNCHANGED <<catalogs, links, txn>>,
             \A ch \in Channel : steps'[ch] = steps[ch] \/ steps'[ch] = NoPlan \/ steps'[ch] \in PlanChoices
      PROVE  ClimbInv(above)'
  <2>1. \A ch \in Channel, k \in Order : Leads(steps'[ch][k], above)
    BY <1>1 DEF ClimbInv, Leads, NoPlan
  <2> QED
    BY <1>1, <2>1 DEF ClimbInv, Climbs, Followed, Linked
<1>2. CASE UNCHANGED vars
  BY <1>1, <1>2 DEF vars
<1>3. ASSUME NEW s \in Tickers, Tick(s) PROVE ClimbInv(above)'
  BY <1>3, TickLoadClimbs, TickPickClimbs, TickDeleteClimbs, TickPromoteClimbs DEF Tick
<1>4. ASSUME NEW p \in Pkg, EditAutomation(p) \/ DeletePkginfo(p) PROVE ClimbInv(above)'
  BY <1>1, <1>4 DEF EditAutomation, DeletePkginfo, Request
<1>5. ASSUME NEW ch \in Channel, UpdateChannel(ch) \/ DeleteChannel(ch) PROVE ClimbInv(above)'
  <2>1. steps \in [Channel -> Plan]
    BY DEF IInv, TypeOK
  <2> QED
    BY <1>1, <1>5, <2>1 DEF UpdateChannel, DeleteChannel, Request
<1>6. ASSUME NEW s \in Tickers, Commit(s) \/ Abort(s) \/ Crash(s) PROVE ClimbInv(above)'
  BY <1>6, CommitClimbs, RollbackClimbs DEF Abort, Crash
<1>7. CASE NextDay
  BY <1>1, <1>7 DEF NextDay
<1>8. Sessions = Tickers
  BY DEF Sessions
<1> QED
  BY <1>2, <1>3, <1>4, <1>5, <1>6, <1>7, <1>8 DEF Next

\* While operators are silent, no tick leaves a version without a catalog, whatever
\* number of ticks overlap (_apply_channel_step deletes before it knows whether it will
\* insert): provided that the steps of channels do not lead back to a catalog.
THEOREM NobodyIsStranded == Operators = {} /\ Acyclic => (Spec => NeverStranded)
<1> SUFFICES ASSUME Operators = {}, Acyclic PROVE Spec => NeverStranded
  OBVIOUS
<1>1. PICK above : Upwards(above) /\ \A plan \in PlanChoices, k \in Order : Leads(plan[k], above)
  BY DEF Acyclic
<1> DEFINE Both == IInv /\ ClimbInv(above)
           Kept == \A s \in Tickers : TickCommits(s) =>
                      \A p \in Pkg : (\E c \in Catalog : Linked(p, c)) => (\E c \in Catalog : Linked(p, c)')
<1>2. Init => Both
  BY <1>1, InitIInv, ClimbInit
<1>3. Both /\ [Next]_vars => Both'
  BY <1>1, NextIInv, ClimbNext
<1>4. Both => Kept
  BY <1>1, CommitFollows DEF TickCommits
<1> HIDE DEF Both, Kept
<1>5. Spec => [][Kept]_vars
  BY <1>2, <1>3, <1>4, PTL DEF Spec
<1> QED
  BY <1>5 DEF NeverStranded, Kept
=============================================================================
