---------------------------- MODULE WorkflowPanel ----------------------------
(***************************************************************************)
(* The Workflows tab of the approvals page                                 *)
(* (components/approvals-workflow-panel.tsx): the preferences of the       *)
(* promotion and of the shard rollout, each control a request of its own,  *)
(* and the promotion channels, whose steps are edited as drafts in a       *)
(* dialog and replaced as a whole.  Another operator works beside it.      *)
(***************************************************************************)
EXTENDS Naturals, Sequences, FiniteSets, TLC, SequencesExt, Functions

CONSTANTS
    Channels,
    StepCatalogs,      \* the catalogs a step can name
    None,
    MaxSteps,          \* bound: steps of a channel
    MaxDays,           \* bound: days the slider is moved to
    MaxWorkflowEvents  \* bound: clicks and requests of others

WorkflowAssumption ==
    /\ None \notin Channels \cup StepCatalogs
    /\ {MaxSteps, MaxDays, MaxWorkflowEvents} \subseteq Nat /\ MaxDays > 0

VARIABLES
    workflow,        \* server: WorkflowPreferences
    channels,        \* server: channel -> its steps, None where there is none
    prefsCached, channelsCached, workflowStale,  \* the query cache
    shardDays,       \* the slider
    editChannel,     \* the steps dialog: the channel as it was listed, or None
    stepDrafts,
    draftsOf,        \* history: the channel the drafts were loaded from
    newChannel,      \* the add dialog: the name typed, or None when closed
    prefsCall, stepsCall, removeCall,  \* mutations on their way, or None
    createCalls,     \* creations on their way: Enter does not wait for one
    workflowEvents

dialogs == <<editChannel, stepDrafts, draftsOf, newChannel>>
calls == <<prefsCall, stepsCall, removeCall, createCalls>>
cached == <<prefsCached, channelsCached, workflowStale>>
vars == <<workflow, channels, cached, shardDays, dialogs, calls, workflowEvents>>

-----------------------------------------------------------------------------
\* A step is its source and its target; a draft may still lack one.
PromotionStep == [source : StepCatalogs, target : StepCatalogs]
StepDraft == [source : StepCatalogs \cup {None}, target : StepCatalogs \cup {None}]
newStepDraft == [source |-> None, target |-> None]
Complete(draft) == draft.source # None /\ draft.target # None

Policies == {"skip_until_approved", "same_as_upgrades"}
WorkflowPreferencesRead ==
    [channel : Channels \cup {None}, days : 1..MaxDays, policy : Policies]
FreshPreferences == [channel |-> None, days |-> 1, policy |-> "skip_until_approved"]

Queries == {"workflow-preferences", "promotion-channels"}
Quiet == UNCHANGED workflowEvents
Event == workflowEvents < MaxWorkflowEvents /\ workflowEvents' = workflowEvents + 1

-----------------------------------------------------------------------------
\* The effect on prefs.production_shard_days moves the slider only when the
\* number changes.
LoadPrefs ==
    /\ prefsCached = None \/ "workflow-preferences" \in workflowStale
    /\ prefsCached' = workflow
    /\ shardDays' = IF prefsCached # None /\ prefsCached.days = workflow.days THEN shardDays
                    ELSE workflow.days
    /\ workflowStale' = workflowStale \ {"workflow-preferences"}
    /\ Quiet /\ UNCHANGED <<workflow, channels, channelsCached, dialogs, calls>>
LoadChannels ==
    /\ channelsCached = None \/ "promotion-channels" \in workflowStale
    /\ channelsCached' = channels
    /\ workflowStale' = workflowStale \ {"promotion-channels"}
    /\ Quiet /\ UNCHANGED <<workflow, channels, prefsCached, shardDays, dialogs, calls>>

\* A dialog covers the controls behind it.
Behind == editChannel = None /\ newChannel = None

-----------------------------------------------------------------------------
\* The default channel, the policy and the switch send the field they show;
\* the slider sends what it is left at.
PreferenceControls ==
    IF ~Behind \/ prefsCall # None \/ prefsCached = None THEN {}
    ELSE {[channel |-> c] : c \in {None} \cup
            (IF channelsCached = None THEN {} ELSE {x \in Channels : channelsCached[x] # None})}
         \cup {[policy |-> p] : p \in Policies}
ShardDaysSlider ==
    IF ~Behind \/ prefsCall # None THEN {} ELSE {[days |-> d] : d \in 1..MaxDays}

\* What is set in a patch (exclude_unset) replaces what was there.
Patched(values, patch) ==
    [k \in DOMAIN values |-> IF k \in DOMAIN patch THEN patch[k] ELSE values[k]]

\* Mutant: the whole form is sent, as last loaded.
PatchBody_All(patch) == Patched(prefsCached, patch)

PatchBody(patch) == patch

patchPrefs ==
    /\ \/ \E patch \in PreferenceControls : prefsCall' = PatchBody(patch) /\ UNCHANGED shardDays
       \/ \E patch \in ShardDaysSlider :
              /\ prefsCached # None
              /\ shardDays' = patch.days /\ prefsCall' = PatchBody(patch)
    /\ Event /\ UNCHANGED <<workflow, channels, cached, dialogs, stepsCall, removeCall, createCalls>>

Acceptable(patch) ==
    "channel" \in DOMAIN patch =>
        patch.channel = None \/ (patch.channel # None /\ channels[patch.channel] # None)
PrefsPatched ==
    /\ prefsCall # None
    /\ Acceptable(prefsCall)
    /\ workflow' = Patched(workflow, prefsCall)
    /\ workflowStale' = workflowStale \cup {"workflow-preferences"}
    /\ prefsCall' = None
    /\ Quiet /\ UNCHANGED <<channels, prefsCached, channelsCached, shardDays, dialogs, stepsCall,
                            removeCall, createCalls>>
\* The slider stays where it was left.
PrefsRefused ==
    /\ prefsCall # None /\ prefsCall' = None
    /\ Quiet /\ UNCHANGED <<workflow, channels, cached, shardDays, dialogs, stepsCall, removeCall,
                            createCalls>>

-----------------------------------------------------------------------------
\* Mutant: the drafts are kept when the dialog closes.
SeedSteps_Kept(channel) ==
    IF channel = None \/ stepDrafts # <<>> THEN UNCHANGED <<stepDrafts, draftsOf>>
    ELSE stepDrafts' = channel.steps /\ draftsOf' = channel.id

\* The effect on editChannel.
SeedSteps(channel) ==
    IF channel = None THEN stepDrafts' = <<>> /\ draftsOf' = None
    ELSE stepDrafts' = channel.steps /\ draftsOf' = channel.id

ShowSteps(channel) == editChannel' = channel /\ SeedSteps(channel)

\* The list of channels, with Edit steps, Remove and Add channel.
ListedChannels ==
    IF ~Behind \/ channelsCached = None THEN {} ELSE {c \in Channels : channelsCached[c] # None}
EditSteps(c) ==
    /\ c \in ListedChannels
    /\ ShowSteps([id |-> c, steps |-> channelsCached[c]])
    /\ Event /\ UNCHANGED <<workflow, channels, cached, shardDays, newChannel, calls>>

EditDrafts(drafts) ==
    /\ editChannel # None
    /\ stepDrafts' = drafts
    /\ Event /\ UNCHANGED <<workflow, channels, cached, shardDays, editChannel, draftsOf, newChannel, calls>>
AddStep == Len(stepDrafts) < MaxSteps /\ EditDrafts(Append(stepDrafts, newStepDraft))
\* SortablePromotionStepCard: either catalog, or Remove step.
UpdateStep(i) ==
    \/ \E c \in StepCatalogs \cup {None} :
          EditDrafts([stepDrafts EXCEPT ![i].source = c]) \/ EditDrafts([stepDrafts EXCEPT ![i].target = c])
    \/ EditDrafts(RemoveAt(stepDrafts, i))
handleStepsDragEnd(i, j) ==
    i # j /\ EditDrafts(InsertAt(RemoveAt(stepDrafts, i), j, stepDrafts[i]))
CloseSteps ==
    /\ editChannel # None
    /\ ShowSteps(None)
    /\ Quiet /\ UNCHANGED <<workflow, channels, cached, shardDays, newChannel, calls>>

SaveSteps ==
    /\ editChannel # None /\ stepsCall = None
    /\ \A i \in DOMAIN stepDrafts : Complete(stepDrafts[i])
    /\ stepsCall' = [id |-> editChannel.id, steps |-> stepDrafts, of |-> draftsOf]
    /\ Event /\ UNCHANGED <<workflow, channels, cached, shardDays, dialogs, prefsCall, removeCall,
                            createCalls>>
\* onSuccess closes whichever dialog is open by then.
StepsSaved ==
    /\ stepsCall # None /\ channels[stepsCall.id] # None
    /\ channels' = [channels EXCEPT ![stepsCall.id] = stepsCall.steps]
    /\ workflowStale' = workflowStale \cup {"promotion-channels"}
    /\ stepsCall' = None
    /\ ShowSteps(None)
    /\ Quiet /\ UNCHANGED <<workflow, prefsCached, channelsCached, shardDays, newChannel, prefsCall,
                            removeCall, createCalls>>
StepsRefused ==
    /\ stepsCall # None /\ stepsCall' = None
    /\ Quiet /\ UNCHANGED <<workflow, channels, cached, shardDays, dialogs, prefsCall, removeCall,
                            createCalls>>

-----------------------------------------------------------------------------
OpenAddChannel ==
    /\ Behind /\ newChannel' = ""
    /\ Event /\ UNCHANGED <<workflow, channels, cached, shardDays, editChannel, stepDrafts,
                            draftsOf, calls>>
TypeName(name) ==
    /\ newChannel # None /\ newChannel' = name
    /\ Event /\ UNCHANGED <<workflow, channels, cached, shardDays, editChannel, stepDrafts,
                            draftsOf, calls>>
CloseAddChannel ==
    /\ newChannel # None /\ newChannel' = None
    /\ Quiet /\ UNCHANGED <<workflow, channels, cached, shardDays, editChannel, stepDrafts,
                            draftsOf, calls>>
\* Create waits for the creation on its way; Enter in the name does not.
CreateChannel(key) ==
    /\ newChannel \notin {None, ""}
    /\ key = "Create" => createCalls = <<>>
    /\ createCalls' = Append(createCalls, newChannel)
    /\ Event /\ UNCHANGED <<workflow, channels, cached, shardDays, dialogs, prefsCall, stepsCall,
                            removeCall>>
\* A name that is taken is refused (409); only the last creation sent closes
\* the dialog.
ChannelCreated ==
    /\ createCalls # <<>>
    /\ createCalls' = Tail(createCalls)
    /\ IF channels[Head(createCalls)] = None
       THEN /\ channels' = [channels EXCEPT ![Head(createCalls)] = <<>>]
            /\ workflowStale' = Queries
            /\ newChannel' = IF Len(createCalls) = 1 THEN None ELSE newChannel
       ELSE UNCHANGED <<channels, workflowStale, newChannel>>
    /\ Quiet /\ UNCHANGED <<workflow, prefsCached, channelsCached, shardDays, editChannel,
                            stepDrafts, draftsOf, prefsCall, stepsCall, removeCall>>

RemoveChannel(c) ==
    /\ c \in ListedChannels /\ removeCall = None
    /\ removeCall' = c
    /\ Event /\ UNCHANGED <<workflow, channels, cached, shardDays, dialogs, prefsCall, stepsCall,
                            createCalls>>
\* The default channel goes with its channel (ON DELETE SET NULL).
Forget(c) ==
    /\ channels' = [channels EXCEPT ![c] = None]
    /\ workflow' = [workflow EXCEPT !.channel = IF @ = c THEN None ELSE @]
ChannelRemoved ==
    /\ removeCall # None
    /\ IF channels[removeCall] = None THEN UNCHANGED <<workflow, channels, workflowStale>>
       ELSE Forget(removeCall) /\ workflowStale' = Queries
    /\ removeCall' = None
    /\ Quiet /\ UNCHANGED <<prefsCached, channelsCached, shardDays, dialogs, prefsCall, stepsCall,
                            createCalls>>

\* Another operator saves a preference or removes a channel.
OtherWorkflow ==
    /\ \/ /\ \E p \in Policies, d \in 1..MaxDays :
                workflow' = [workflow EXCEPT !.policy = p, !.days = d]
          /\ UNCHANGED channels
       \/ \E c \in Channels : channels[c] # None /\ Forget(c)
    /\ Event /\ UNCHANGED <<cached, shardDays, dialogs, calls>>

-----------------------------------------------------------------------------
Init ==
    /\ workflow = FreshPreferences
    /\ channels \in {f \in [Channels -> {<<s>> : s \in PromotionStep} \cup {None}] :
                       \E c \in Channels : f[c] # None}
    /\ prefsCached = None /\ channelsCached = None /\ workflowStale = {}
    /\ shardDays = MaxDays
    /\ editChannel = None /\ stepDrafts = <<>> /\ draftsOf = None /\ newChannel = None
    /\ prefsCall = None /\ stepsCall = None /\ removeCall = None /\ createCalls = <<>>
    /\ workflowEvents = 0

Next ==
    \/ LoadPrefs \/ LoadChannels \/ patchPrefs \/ PrefsPatched \/ PrefsRefused
    \/ \E c \in Channels : EditSteps(c) \/ RemoveChannel(c) \/ TypeName(c)
    \/ AddStep \/ CloseSteps \/ SaveSteps \/ StepsSaved \/ StepsRefused
    \/ \E i \in DOMAIN stepDrafts : UpdateStep(i)
    \/ \E i, j \in DOMAIN stepDrafts : handleStepsDragEnd(i, j)
    \/ OpenAddChannel \/ CloseAddChannel
    \/ \E key \in {"Create", "Enter"} : CreateChannel(key)
    \/ ChannelCreated \/ ChannelRemoved \/ OtherWorkflow

Spec == Init /\ [][Next]_vars

-----------------------------------------------------------------------------
WorkflowTypeOK ==
    /\ workflow \in WorkflowPreferencesRead
    /\ \A c \in Channels : channels[c] # None => channels[c] \in Seq(PromotionStep)
    /\ stepDrafts \in Seq(StepDraft) /\ workflowStale \subseteq Queries
    /\ shardDays \in 1..MaxDays

(* A preference is changed only by the control that shows it: a patch that  *)
(* lands leaves every other preference as another operator has set it       *)
(* meanwhile.                                                               *)
PatchLeavesOtherFields ==
    [][PrefsPatched => Cardinality({k \in DOMAIN workflow : workflow'[k] # workflow[k]}) <= 1]_vars

(* The steps that replace a channel's were loaded from that channel,        *)
(* whichever dialogs were opened, abandoned and closed by late answers in   *)
(* between.                                                                 *)
StepsAreItsOwn == [][stepsCall' # None => stepsCall'.of = stepsCall'.id]_stepsCall

=============================================================================
