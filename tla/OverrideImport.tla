--------------------------- MODULE OverrideImport ---------------------------
(***************************************************************************)
(* The import dialog of the recipe list: one override pasted or loaded     *)
(* from a file, or several files sent one after another by one mutation.   *)
(* The dialog can be closed, reopened and filled again while a batch runs, *)
(* and the file chooser is never disabled.                                 *)
(***************************************************************************)
EXTENDS Naturals, FiniteSets

CONSTANTS
    Files,         \* each holds one override
    None,
    MaxChoices     \* bound: files chosen, and imports started

Batch == [items : SUBSET Files, left : SUBSET Files, failed : SUBSET Files]

ImportAssumption == None \notin Files \cup Batch /\ MaxChoices \in Nat

VARIABLES
    imported,      \* server: the files whose identifier exists
    importOpen,
    importContent, \* the text area: the file it holds, or None when blank
    importItems,   \* importBatchItems, {} when null
    importBatch,   \* the running batch, or None
    importSingle,  \* the file being imported alone, or None
    acked,         \* history: acknowledged by a batch since they were last chosen
    choices

dialogVars == <<importOpen, importContent, importItems>>
vars == <<imported, dialogVars, importBatch, importSingle, acked, choices>>

-----------------------------------------------------------------------------
Blank == importContent' = None /\ importItems' = {}

OpenImport ==
    /\ ~importOpen
    /\ importOpen' = TRUE
    /\ UNCHANGED <<imported, importContent, importItems, importBatch, importSingle, acked, choices>>

\* Cancel only hides the dialog; Escape and the cross also empty it.
CloseImport ==
    /\ importOpen /\ importOpen' = FALSE
    /\ Blank \/ UNCHANGED <<importContent, importItems>>
    /\ UNCHANGED <<imported, importBatch, importSingle, acked, choices>>

\* One file fills the text area, several replace it by a list.
ChooseFiles(files) ==
    /\ importOpen /\ choices < MaxChoices
    /\ choices' = choices + 1
    /\ IF Cardinality(files) = 1
       THEN importItems' = {} /\ importContent' \in files
       ELSE importItems' = files /\ importContent' = None
    /\ acked' = acked \ files
    /\ UNCHANGED <<imported, importOpen, importBatch, importSingle>>

TypeContent(file) ==
    /\ importOpen /\ importItems = {} /\ choices < MaxChoices
    /\ choices' = choices + 1
    /\ importContent' = file
    /\ UNCHANGED <<imported, importOpen, importItems, importBatch, importSingle, acked>>

-----------------------------------------------------------------------------
ImportAll ==
    /\ importOpen /\ importItems # {} /\ importBatch = None
    /\ importBatch' = [items |-> importItems, left |-> importItems, failed |-> {}]
    /\ UNCHANGED <<imported, dialogVars, importSingle, acked, choices>>

\* One POST of the batch is answered; an error may hide a success.
ImportNext(file) ==
    /\ importBatch # None /\ file \in importBatch.left
    /\ \/ /\ file \notin imported
          /\ imported' = imported \cup {file}
          /\ importBatch' = [importBatch EXCEPT !.left = @ \ {file}]
          /\ acked' = acked \cup {file}
       \/ /\ imported' \in {imported, imported \cup {file}}
          /\ importBatch' = [importBatch EXCEPT !.left = @ \ {file}, !.failed = @ \cup {file}]
          /\ UNCHANGED acked
    /\ UNCHANGED <<dialogVars, importSingle, choices>>

\* Mutant: a partial failure leaves the whole list for the next try.
KeepFailed_All(batch) == importItems' = batch.items

KeepFailed(batch) == importItems' = batch.failed

\* onSuccess of the batch: all, none, or some of the files were imported.
BatchDone ==
    /\ importBatch # None /\ importBatch.left = {}
    /\ CASE importBatch.failed = {} -> importOpen' = FALSE /\ Blank
         [] importBatch.failed = importBatch.items -> UNCHANGED dialogVars
         [] OTHER -> KeepFailed(importBatch) /\ UNCHANGED <<importOpen, importContent>>
    /\ importBatch' = None
    /\ UNCHANGED <<imported, importSingle, acked, choices>>

ImportOne ==
    /\ importOpen /\ importItems = {} /\ importContent # None /\ importSingle = None
    /\ importSingle' = importContent
    /\ UNCHANGED <<imported, dialogVars, importBatch, acked, choices>>

OneDone ==
    /\ importSingle # None
    /\ \/ /\ importSingle \notin imported
          /\ imported' = imported \cup {importSingle}
          /\ importOpen' = FALSE /\ Blank
       \/ /\ imported' \in {imported, imported \cup {importSingle}}
          /\ UNCHANGED dialogVars
    /\ importSingle' = None
    /\ UNCHANGED <<importBatch, acked, choices>>

-----------------------------------------------------------------------------
Init ==
    /\ imported = {} /\ importOpen = FALSE /\ importContent = None /\ importItems = {}
    /\ importBatch = None /\ importSingle = None /\ acked = {} /\ choices = 0

Next ==
    \/ OpenImport \/ CloseImport
    \/ \E files \in SUBSET Files \ {{}} : ChooseFiles(files)
    \/ \E file \in Files : TypeContent(file) \/ ImportNext(file)
    \/ ImportAll \/ BatchDone \/ ImportOne \/ OneDone

Spec == Init /\ [][Next]_vars

-----------------------------------------------------------------------------
ImportTypeOK ==
    /\ imported \cup importItems \cup acked \subseteq Files
    /\ {importContent, importSingle} \subseteq Files \cup {None} /\ importOpen \in BOOLEAN
    /\ importBatch \in Batch \cup {None}

(* After a batch that failed in part, "Import all" sends what failed and   *)
(* nothing that the server acknowledged to it, unless it was chosen again: *)
(* also when other files were chosen, or one was imported alone, meanwhile.*)
RetrySendsOnlyFailures ==
    [][importBatch = None /\ importBatch' # None => importBatch'.items \cap acked = {}]_vars
=============================================================================
