---------------------------- MODULE UploadDialog ----------------------------
(***************************************************************************)
(* Uploading an installer by hand: SoftwareUploadDialog on the software    *)
(* page, uploadSoftwareFile of lib/api.ts, and POST /munki/upload with the *)
(* plan of services/munki_import.py.  The dialog shows the name the server *)
(* will derive (lib/pkginfo-name.ts); the server derives it again, with    *)
(* the version it read from the file.  The file is stored first, under its *)
(* name, and the row is committed after it.                                *)
(*                                                                         *)
(* A name is a sequence of tokens: "a" a letter of ASCII, "e" another      *)
(* letter, "1" a digit, "-" "_" "." themselves, " " a run of blanks.       *)
(***************************************************************************)
EXTENDS Naturals, FiniteSets, Sequences, Functions

CONSTANTS
    InstallerFiles,   \* [stem, kind, version]; a version only where the file gives one
    TypedNames,       \* what is typed as display name or name
    Catalogs,         \* names of catalogs, with "testing"
    Subdirs,          \* repository subdirectories typed, "" is none
    None,
    MaxUploadEvents   \* bound: clicks

\* Names.
AsciiWord == {"a", "1", "-", "_", "."}
UnicodeWord == AsciiWord \cup {"e"}
Token == UnicodeWord \cup {" "}
Name == {s \in Seq(Token) : \A i \in 2 .. Len(s) : s[i - 1] # " " \/ s[i] # " "}

UploadAssumption ==
    /\ InstallerFiles \subseteq [stem : Name, kind : {"pkg", "dmg"}, version : Name]
    /\ \A f \in InstallerFiles : f.version # <<>> => f.kind = "pkg"
    /\ None \notin InstallerFiles /\ TypedNames \subseteq Name
    /\ "testing" \in Catalogs /\ "" \in Subdirs /\ MaxUploadEvents \in Nat

VARIABLES
    uploadOpen,      \* the dialog is open
    form,            \* its fields
    upload,          \* the upload on its way, or None
    blobs,           \* storage: location -> file
    uploadedRows,    \* the rows uploads have created
    place,           \* the page shown: "list", "item" or "other"
    uploadEvents

dialogVars == <<uploadOpen, form, place>>
uploadVars == <<dialogVars, upload, blobs, uploadedRows, uploadEvents>>

-----------------------------------------------------------------------------
Keep(s, C) == {i \in DOMAIN s : s[i] \notin C}
LeastOf(S) == CHOOSE i \in S : \A j \in S : i <= j
GreatestOf(S) == CHOOSE i \in S : \A j \in S : j <= i
StripRight(s, C) == IF Keep(s, C) = {} THEN <<>> ELSE SubSeq(s, 1, GreatestOf(Keep(s, C)))
StripBoth(s, C) == IF Keep(s, C) = {} THEN <<>> ELSE SubSeq(s, LeastOf(Keep(s, C)), GreatestOf(Keep(s, C)))

trim(s) == StripBoth(s, {" "})
\* A run of blanks is one underscore; "uploaded" is a name nobody types.
slug(s) ==
    LET t == trim(s)
        runs == [i \in DOMAIN t |-> IF t[i] = " " THEN "_" ELSE t[i]]
        cleaned == StripBoth(runs, {".", "_", "-"})
    IN  IF cleaned = <<>> THEN <<"uploaded">> ELSE cleaned

\* _VERSION_TAIL_RE, VERSION_TAIL: the first separator before a digit, if word
\* characters follow up to the end.
VersionTails(s, Word) ==
    {i \in 1..(Len(s) - 1) : s[i] \in {"-", "_"} /\ s[i + 1] = "1" /\ \A k \in (i + 2)..Len(s) : s[k] \in Word}

\* Mutant: the last one.
CutTail_Last(s, Word) ==
    IF VersionTails(s, Word) = {} THEN s
    ELSE StripRight(SubSeq(s, 1, GreatestOf(VersionTails(s, Word)) - 1), {".", "_", "-"})

CutTail(s, Word) ==
    IF VersionTails(s, Word) = {} THEN s
    ELSE StripRight(SubSeq(s, 1, LeastOf(VersionTails(s, Word)) - 1), {".", "_", "-"})

EndsWith(s, tail) == Len(tail) < Len(s) /\ SubSeq(s, Len(s) - Len(tail) + 1, Len(s)) = tail
CutVersion(s, version) ==
    IF version = <<>> \/ ~\E sep \in {"-", "_"} : EndsWith(s, <<sep>> \o slug(version)) THEN s
    ELSE StripRight(SubSeq(s, 1, Len(s) - Len(slug(version)) - 1), {".", "_", "-"})

\* The dialog's preview, and the server's name.
deriveAutoName(displayName, file) ==
    CutTail(slug(IF trim(displayName) # <<>> THEN displayName
                 ELSE IF file # None THEN file.stem ELSE <<>>), AsciiWord)
derive_name(name, displayName, file) ==
    IF trim(name) # <<>> THEN trim(name)
    ELSE CutTail(CutVersion(slug(IF trim(displayName) # <<>> THEN displayName ELSE file.stem),
                            file.version), UnicodeWord)

-----------------------------------------------------------------------------
EmptyForm ==
    [file |-> None, displayName |-> <<>>, name |-> <<>>, subdir |-> "", catalogs |-> {"testing"}]
Quiet == UNCHANGED uploadEvents
Event == uploadEvents < MaxUploadEvents /\ uploadEvents' = uploadEvents + 1

\* The state of this dialog; one left behind with its page is not heard of.
Submitting == IF upload = None THEN FALSE ELSE upload.here

\* Opening shows what an earlier Cancel left; Escape and the corner button
\* reset the form, and neither closes the dialog while it submits.
OpenDialog ==
    /\ place = "list" /\ ~uploadOpen /\ uploadOpen' = TRUE
    /\ Event /\ UNCHANGED <<form, place, upload, blobs, uploadedRows>>
Dismiss ==
    /\ uploadOpen /\ ~Submitting
    /\ uploadOpen' = FALSE /\ form' = EmptyForm
    /\ Quiet /\ UNCHANGED <<place, upload, blobs, uploadedRows>>
Cancel ==
    /\ uploadOpen /\ ~Submitting
    /\ uploadOpen' = FALSE
    /\ Quiet /\ UNCHANGED <<form, place, upload, blobs, uploadedRows>>

\* The first file names the item, a later one does not.
ChooseFile(f) ==
    /\ uploadOpen
    /\ form' = [form EXCEPT !.file = f,
                            !.displayName = IF f # None /\ @ = <<>> THEN f.stem ELSE @]
    /\ Event /\ UNCHANGED <<uploadOpen, place, upload, blobs, uploadedRows>>
TypeNames ==
    /\ uploadOpen
    /\ \E n \in TypedNames : form' \in {[form EXCEPT !.displayName = n], [form EXCEPT !.name = n]}
    /\ Event /\ UNCHANGED <<uploadOpen, place, upload, blobs, uploadedRows>>
TypeSubdir ==
    /\ uploadOpen
    /\ \E d \in Subdirs : form' = [form EXCEPT !.subdir = d]
    /\ Event /\ UNCHANGED <<uploadOpen, place, upload, blobs, uploadedRows>>
TickCatalog ==
    /\ uploadOpen
    /\ \E c \in Catalogs : form' = [form EXCEPT !.catalogs = (@ \ {c}) \cup ({c} \ @)]
    /\ Event /\ UNCHANGED <<uploadOpen, place, upload, blobs, uploadedRows>>

\* Mutant: the catalogs as ticked, or none.
SoftwareUploadFields_AsTicked ==
    [file |-> form.file, displayName |-> trim(form.displayName), name |-> trim(form.name),
     subdir |-> form.subdir, catalogs |-> form.catalogs]

\* What uploadSoftwareFile sends.  Bound: a new upload waits for one that was
\* left behind.
SoftwareUploadFields ==
    [file |-> form.file, displayName |-> trim(form.displayName), name |-> trim(form.name),
     subdir |-> form.subdir, catalogs |-> IF form.catalogs = {} THEN {"testing"} ELSE form.catalogs]

onSubmit ==
    /\ uploadOpen /\ form.file # None /\ trim(form.displayName) # <<>>
    /\ upload = None
    /\ upload' = [fields |-> SoftwareUploadFields, stage |-> "sent", here |-> TRUE,
                  preview |-> deriveAutoName(form.displayName, form.file)]
    /\ Event /\ UNCHANGED <<dialogVars, blobs, uploadedRows>>

-----------------------------------------------------------------------------
\* build_import_plan: the file overwrites whatever is stored at its location.
Location(fields) == <<fields.subdir, fields.file.stem, fields.file.kind>>

StoreFile ==
    /\ upload # None /\ upload.stage = "sent"
    /\ blobs' = [b \in DOMAIN blobs \cup {Location(upload.fields)} |->
                     IF b = Location(upload.fields) THEN upload.fields.file ELSE blobs[b]]
    /\ upload' = [upload EXCEPT !.stage = "stored"]
    /\ Quiet /\ UNCHANGED <<dialogVars, uploadedRows>>
upload_software ==
    /\ upload # None /\ upload.stage = "stored"
    /\ uploadedRows' = uploadedRows \cup
          {[name |-> derive_name(upload.fields.name, upload.fields.displayName, upload.fields.file),
            auto |-> upload.fields.name = <<>>, preview |-> upload.preview,
            location |-> Location(upload.fields), hash |-> upload.fields.file,
            catalogs |-> upload.fields.catalogs,
            pending_metadata |-> upload.fields.file.version = <<>>]}
    /\ upload' = [upload EXCEPT !.stage = "done"]
    /\ Quiet /\ UNCHANGED <<dialogVars, blobs>>

\* The answer: the form is emptied and the new item's page shown, wherever the
\* tab is by now.
UploadSucceeds ==
    /\ upload # None /\ upload.stage = "done"
    /\ upload' = None /\ place' = "item"
    /\ uploadOpen' = FALSE /\ form' = EmptyForm
    /\ Quiet /\ UNCHANGED <<blobs, uploadedRows>>
\* Refused, broken off or its answer lost, at any stage.
UploadFails ==
    /\ upload # None /\ upload' = None
    /\ Quiet /\ UNCHANGED <<dialogVars, blobs, uploadedRows>>

\* Back in the history: the dialog goes with its page, the request does not.
LeavePage(p) ==
    /\ place # p /\ place' = p
    /\ uploadOpen' = FALSE /\ form' = EmptyForm
    /\ upload' = IF upload = None THEN None ELSE [upload EXCEPT !.here = FALSE]
    /\ Event /\ UNCHANGED <<blobs, uploadedRows>>

-----------------------------------------------------------------------------
Init ==
    /\ uploadOpen = FALSE /\ form = EmptyForm /\ place = "list"
    /\ upload = None /\ blobs = <<>> /\ uploadedRows = {} /\ uploadEvents = 0

Next ==
    \/ OpenDialog \/ Dismiss \/ Cancel
    \/ \E f \in InstallerFiles \cup {None} : ChooseFile(f)
    \/ TypeNames \/ TypeSubdir \/ TickCatalog
    \/ onSubmit \/ StoreFile \/ upload_software \/ UploadSucceeds \/ UploadFails
    \/ \E p \in {"list", "other"} : LeavePage(p)

Spec == Init /\ [][Next]_uploadVars

-----------------------------------------------------------------------------
UploadTypeOK ==
    /\ uploadOpen \in BOOLEAN /\ place \in {"list", "item", "other"}
    /\ form.file \in InstallerFiles \cup {None} /\ form.subdir \in Subdirs /\ form.catalogs \subseteq Catalogs
    /\ \A b \in DOMAIN blobs : blobs[b] \in InstallerFiles
    /\ \A r \in uploadedRows : r.hash \in InstallerFiles /\ r.catalogs # {}

(* A derived name does not end in what Munki's nameAndVersion would split   *)
(* off as a version, whatever was typed and whatever version the file has:  *)
(* a manifest that names the item would otherwise resolve to nothing.       *)
DerivedNamesAreWhole == \A r \in uploadedRows : r.auto => VersionTails(r.name, UnicodeWord) = {}

(* The name the dialog showed is the name the row got, though the two are   *)
(* computed by two programs and only the server knows the version of the    *)
(* file - for names of ASCII characters and versions that begin with a      *)
(* digit.                                                                   *)
PreviewIsTheName ==
    \A r \in uploadedRows :
        r.auto /\ "e" \notin Range(r.preview) /\ (r.hash.version = <<>> \/ r.hash.version[1] = "1")
            => r.preview = r.name

=============================================================================
