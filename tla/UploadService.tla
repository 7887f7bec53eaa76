---------------------------- MODULE UploadService ----------------------------
(***************************************************************************)
(* What the upload services promise (gRPC, HTTP, CoAP), whatever the wire   *)
(* between them and their clients does: the file names that show a whole    *)
(* file, and what the client of each upload is told.                        *)
(*                                                                         *)
(* A service that assembles a file aside and moves it to its name           *)
(* (grpc_server.py) only ever adds to what is shown.  One that writes under *)
(* the name itself (save_file) takes away what the name showed before.      *)
(***************************************************************************)
CONSTANTS
    Uploads,        \* the uploads
    Names,          \* file names
    NameOf,         \* the name each upload is stored under
    InPlace,        \* are files written under their final name
    None

ServicePlan ==
    /\ NameOf \in [Uploads -> Names]
    /\ InPlace \in BOOLEAN
    /\ None \notin Uploads

VARIABLES
    shown,      \* names that show a whole file
    saving,     \* uploads being written under their name
    latest,     \* the last upload that began to write each name in place
    told        \* what the client of each upload is told

vars == <<shown, saving, latest, told>>

ServiceTypeOK ==
    /\ shown \subseteq Names
    /\ saving \subseteq Uploads
    /\ latest \in [Names -> Uploads \cup {None}]
    /\ told \in [Uploads -> {"nothing", "ok", "failed"}]

Init ==
    /\ shown = {} /\ saving = {}
    /\ latest = [n \in Names |-> None]
    /\ told = [u \in Uploads |-> "nothing"]

\* an in-place write of another upload of the name began after this one's
Replaced(u) == InPlace /\ latest[NameOf[u]] # u

\* An in-place write begins: the name shows nothing whole until it is done.  An
\* upload may be written again (a retry), until its client was told ok.
Begin(u) ==
    /\ InPlace /\ told[u] # "ok"
    /\ shown' = shown \ {NameOf[u]}
    /\ saving' = saving \cup {u}
    /\ latest' = [latest EXCEPT ![NameOf[u]] = u]
    /\ UNCHANGED told

\* The file is in place; one that is being replaced need not be shown.
Store(u) ==
    /\ InPlace => u \in saving
    /\ \/ shown' = shown \cup {NameOf[u]}
       \/ Replaced(u) /\ UNCHANGED shown
    /\ saving' = saving \ {u}
    /\ UNCHANGED <<latest, told>>

\* A client is told that its file is there only if it is, or was replaced.
TellOk(u) ==
    /\ told[u] = "nothing"
    /\ NameOf[u] \in shown \/ Replaced(u)
    /\ told' = [told EXCEPT ![u] = "ok"]
    /\ UNCHANGED <<shown, saving, latest>>

\* Some clients are told, or conclude, that their upload failed, whatever became
\* of the file; writes that fail, and those of a service that dies, leave what
\* they have written.
Fail(failed) ==
    /\ \A u \in failed : told[u] = "nothing"
    /\ told' = [u \in Uploads |-> IF u \in failed THEN "failed" ELSE told[u]]
    /\ saving' \in SUBSET saving
    /\ UNCHANGED <<shown, latest>>

Next ==
    \/ \E u \in Uploads : Begin(u) \/ Store(u) \/ TellOk(u)
    \/ \E failed \in SUBSET Uploads : Fail(failed)

Spec == Init /\ [][Next]_vars

----------------------------------------------------------------------------
\* An upload whose client was told ok is shown whole under its name, unless the
\* service writes in place and another upload of the name has begun since.
ToldOkIsShown ==
    \A u \in Uploads : told[u] = "ok" => NameOf[u] \in shown \/ Replaced(u)

\* A service that does not write in place never takes back what it has shown.
ShownStays == [][~InPlace => shown \subseteq shown']_vars
=============================================================================
