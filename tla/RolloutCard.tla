----------------------------- MODULE RolloutCard -----------------------------
(***************************************************************************)
(* The "Production rollout" card of the software page (ProductionRollout-  *)
(* Card in components/software-detail/promotion-cards.tsx) over the        *)
(* service functions of ShardOps: the buttons, the pin switch and its      *)
(* slider, the cached status they are drawn from, and the row the server   *)
(* changes.  Another operator, the daily tick and catalog changes go on    *)
(* behind the card's back.                                                 *)
(***************************************************************************)
EXTENDS ShardOps

CONSTANTS
    Pins,       \* the percentages the slider is released at
    Prefs,      \* the workflow preferences
    MaxDay,     \* bound: the last day
    MaxForeign  \* bound: changes made elsewhere

\* What the card asks of the server.
CardRequest ==
    [kind : {"start", "pause", "complete", "override"}, percent : Percent \cup {None}]

CardAssumption ==
    /\ None \notin CardRequest
    /\ Pins \subseteq 1 .. 100 /\ Pins # {}
    /\ Prefs \in Preferences
    /\ MaxDay \in Nat /\ MaxForeign \in Nat

VARIABLES
    row, inProduction, day,           \* the server
    st,                               \* the cached status, or None
    stStale,                          \* the cached status is marked invalid
    overrideEnabled, overrideValue,   \* what the switch and slider show
    request,                          \* the mutation on its way, or None
    pinHistory,                       \* history: what became of the last click on the pin
    foreign, changed                  \* changes made elsewhere: number, since st

serverVars == <<row, inProduction, day, foreign, changed>>
pinVars == <<overrideEnabled, overrideValue>>
cardVars == <<st, stStale, pinVars, request, pinHistory>>
vars == <<serverVars, cardVars>>

-----------------------------------------------------------------------------
\* build_shard_status, the fields the card reads
ShardStatus ==
    LET effective == effective_shard_percent(row, Prefs, day)
        scheduled == IF row.shard_started_at = None THEN None
                     ELSE compute_shard_percent(row.shard_started_at, Prefs.days, day)
    IN  [ active |-> /\ inProduction
                     /\ row.shard_rollout_status \in {"pending_approval", "active", "paused"},
          deployment_status |-> ReportedStatus(row, inProduction, Prefs, day),
          shard_rollout_status |-> row.shard_rollout_status,
          shard_percent |-> IF inProduction /\ effective # None THEN effective
                            ELSE row.shard_percent,
          shard_percent_override |-> row.shard_percent_override,
          scheduled_shard_percent |-> IF inProduction THEN scheduled ELSE None ]

busy == request # None
canStart == \/ st.deployment_status = "pending_rollout"
            \/ st.shard_rollout_status = "pending_approval"
canPause == st.deployment_status = "sharding"
canComplete == st.deployment_status \in {"sharding", "paused", "pending_rollout"}

showShardOverride ==
    st.deployment_status \notin {"not_in_production", "pending_rollout", "fully_deployed"}

\* The effect on [st]: the switch and the slider follow a new status.
FirstSet(a, b, c) == IF a # None THEN a ELSE IF b # None THEN b ELSE IF c # None THEN c ELSE 25
\* Mutant: the slider keeps its own value once it was used.
SyncOverride_SwitchOnly(new) ==
    /\ overrideEnabled' = (new.shard_percent_override # None)
    /\ overrideValue' = IF overrideEnabled THEN overrideValue
                        ELSE FirstSet(new.shard_percent_override, new.shard_percent,
                                      new.scheduled_shard_percent)

SyncOverride(new) ==
    /\ overrideEnabled' = (new.shard_percent_override # None)
    /\ overrideValue' = FirstSet(new.shard_percent_override, new.shard_percent,
                                 new.scheduled_shard_percent)

\* An equal answer keeps the old object, and the effect does not run.
FetchStatus ==
    /\ st = None \/ stStale
    /\ st' = ShardStatus
    /\ stStale' = FALSE
    /\ changed' = FALSE
    /\ IF st = ShardStatus THEN UNCHANGED <<pinVars, pinHistory>>
       ELSE SyncOverride(ShardStatus) /\ pinHistory' = "synced"
    /\ UNCHANGED <<row, inProduction, day, foreign, request>>

ExpireStatus ==
    /\ st # None /\ ~stStale
    /\ stStale' = TRUE
    /\ UNCHANGED <<serverVars, st, pinVars, request, pinHistory>>

-----------------------------------------------------------------------------
\* canEdit is true: without it the card has neither buttons nor the pin.
Send(r) ==
    /\ st # None /\ ~busy
    /\ request' = r
    /\ UNCHANGED <<serverVars, st, stStale>>

ClickStart ==
    /\ st # None /\ st.active /\ canStart
    /\ Send([kind |-> "start", percent |-> None]) /\ UNCHANGED <<pinVars, pinHistory>>
ClickPause ==
    /\ st # None /\ st.active /\ canPause
    /\ Send([kind |-> "pause", percent |-> None]) /\ UNCHANGED <<pinVars, pinHistory>>
ClickComplete ==
    /\ st # None /\ st.active /\ canComplete
    /\ Send([kind |-> "complete", percent |-> None]) /\ UNCHANGED <<pinVars, pinHistory>>

\* The switch is shown at once as it was set, before the server answers.
TogglePin ==
    /\ st # None /\ showShardOverride
    /\ Send([kind |-> "override", percent |-> IF overrideEnabled THEN None ELSE overrideValue])
    /\ overrideEnabled' = ~overrideEnabled /\ pinHistory' = "asked"
    /\ UNCHANGED overrideValue

CommitSlider(pct) ==
    /\ st # None /\ showShardOverride /\ overrideEnabled
    /\ Send([kind |-> "override", percent |-> pct])
    /\ overrideValue' = pct /\ pinHistory' = "asked"
    /\ UNCHANGED overrideEnabled

-----------------------------------------------------------------------------
\* What the routes do; start and the pin are refused outside production.
Refused(r) == r.kind \in {"start", "override"} /\ ~inProduction

Handled(r) ==
    CASE r.kind = "start" -> start_shard_rollout(row, Prefs, day)
      [] r.kind = "pause" -> pause_shard_rollout(row)
      [] r.kind = "complete" -> complete_shard_rollout(row, day)
      [] r.kind = "override" /\ r.percent = None -> clear_shard_percent_override(row, Prefs, day)
      [] OTHER -> set_shard_percent_override(row, r.percent, day)

\* onSuccess: every key under ['pkginfo', id] is invalidated.
RequestSucceeds ==
    /\ busy /\ ~Refused(request)
    /\ row' = Handled(request)
    /\ request' = None
    /\ stStale' = TRUE
    /\ UNCHANGED <<inProduction, day, foreign, changed, st, pinVars, pinHistory>>

Crossed == IF pinHistory = "asked" THEN "crossed" ELSE pinHistory

\* onError shows a message; neither the switch nor the status is set back.  The
\* request was refused, or never arrived.
RequestFails ==
    /\ busy
    /\ request' = None
    /\ pinHistory' = IF request.kind = "override" THEN Crossed ELSE pinHistory
    /\ UNCHANGED <<serverVars, st, stStale, pinVars>>

\* The same, but what was lost is the answer: the row has changed behind the card.
AnswerIsLost ==
    /\ busy /\ ~Refused(request)
    /\ row' = Handled(request)
    /\ request' = None
    /\ changed' = TRUE
    /\ UNCHANGED <<inProduction, day, foreign, st, stStale, pinVars, pinHistory>>

-----------------------------------------------------------------------------
Foreign ==
    /\ foreign < MaxForeign
    /\ foreign' = foreign + 1 /\ changed' = TRUE
    /\ pinHistory' = IF busy /\ request.kind = "override" THEN pinHistory ELSE Crossed
    /\ UNCHANGED <<st, stStale, pinVars, request>>

\* The catalogs of the package change, by an operator or by promotion.
ForeignCatalogs ==
    /\ Foreign
    /\ inProduction' = ~inProduction
    /\ row' = maybe_init_shard(row, inProduction', None, TRUE, Prefs, day)
    /\ UNCHANGED day

ForeignRequest ==
    /\ Foreign
    /\ row' \in {pause_shard_rollout(row), complete_shard_rollout(row, day)}
                \cup IF inProduction
                     THEN {start_shard_rollout(row, Prefs, day)}
                          \cup {set_shard_percent_override(row, p, day) : p \in Pins}
                     ELSE {}
    /\ UNCHANGED <<inProduction, day>>

\* A day passes and the tick runs.
Tick ==
    /\ day < MaxDay
    /\ day' = day + 1
    /\ row' = tick_one_pkg(row, inProduction, Prefs, day')
    /\ changed' = TRUE
    /\ UNCHANGED <<inProduction, foreign, cardVars>>

Init ==
    /\ row = init_shard_rollout(FreshRow, TRUE, None, TRUE, Prefs, 0)
    /\ inProduction = TRUE /\ day = 0
    /\ st = None /\ stStale = FALSE
    /\ overrideEnabled = FALSE /\ overrideValue = 25
    /\ request = None /\ pinHistory = "synced"
    /\ foreign = 0 /\ changed = FALSE

Next ==
    \/ FetchStatus \/ ExpireStatus
    \/ ClickStart \/ ClickPause \/ ClickComplete \/ TogglePin
    \/ \E pct \in Pins : CommitSlider(pct)
    \/ RequestSucceeds \/ RequestFails \/ AnswerIsLost
    \/ ForeignCatalogs \/ ForeignRequest \/ Tick

Spec == Init /\ [][Next]_vars

-----------------------------------------------------------------------------
CardTypeOK ==
    /\ row \in Row /\ day \in 0 .. MaxDay
    /\ {inProduction, stStale, overrideEnabled, changed} \subseteq BOOLEAN
    /\ pinHistory \in {"synced", "asked", "crossed"}
    /\ overrideValue \in 0 .. 100
    /\ busy => request.kind \in {"start", "pause", "complete", "override"}

ShowsPin(percent) ==
    /\ overrideEnabled <=> percent # None
    /\ overrideEnabled => overrideValue = percent

(* The switch and the slider are a copy of the pin in the status the card  *)
(* has, whoever changed the row, until they are clicked.  From then on, an *)
(* idle card with an up-to-date status shows the row's pin, whatever was   *)
(* toggled, dragged, paused, completed by a pin of 100 or ticked, and      *)
(* whichever answers were lost.  The two ways this goes wrong are told by  *)
(* "crossed": the click's request was not taken, or another operator       *)
(* changed the row after it was.  If the next status is equal to the one   *)
(* before the click, the card takes it for no news, and the switch stays   *)
(* as it was clicked.                                                      *)
PinIsShown ==
    st # None =>
        /\ pinHistory = "synced" => ShowsPin(st.shard_percent_override)
        /\ pinHistory # "crossed" /\ ~busy /\ ~changed /\ ~stStale
              => ShowsPin(row.shard_percent_override)

=============================================================================
