--------------------------- MODULE ConfigEditors ---------------------------
(***************************************************************************)
(* config/agent.toml and everything that writes it: config.read,           *)
(* config.write and config.patch of the control service, the form of the   *)
(* egui interface, the script that installs the runtime, and a text editor.*)
(* None of them holds a lock from its read to its write.                   *)
(*                                                                         *)
(* Abstractions.  A document is a list of keys of one section, the set of  *)
(* enabled platforms and one more connection setting.  A stamp counts the  *)
(* writes of the file: it stands for the modification time, so two writes  *)
(* never have the same one.  fs::write, and fs::copy when the rename       *)
(* fails, first empty the file; a reader may come in between.              *)
(***************************************************************************)
EXTENDS Integers, Sequences, SequencesExt, FiniteSets

CONSTANTS
  Clients,   \* connections of the control service
  Secrets,   \* API keys a user may type
  Kinds,     \* the platforms
  Settings,  \* values of the connection setting
  MaxKeys    \* bound: keys a user puts in the list

GUI == "egui"
Elevated == "elevated installer"   \* run by the control service
Setup == "egui installer"          \* run by the egui interface
Installers == {Elevated, Setup}
Editors == Clients \cup {GUI} \cup Installers

ASSUME EditorAssumption ==
  /\ Kinds # {} /\ Settings # {}
  /\ MaxKeys \in Nat
  /\ ({GUI} \cup Installers) \cap Clients = {}

VARIABLES
  file,   \* the document and its stamp
  forms,  \* what every editor is doing
  edits   \* bound: how many more edits are begun

editorVars == <<file, forms, edits>>

Marker == "<redacted-secret>"

\* state: valid, invalid (TOML without a section a configuration needs), or
\* broken (not TOML).
Empty ==
  [keys |-> <<>>, kinds |-> {}, setting |-> CHOOSE v \in Settings : TRUE,
   state |-> "invalid"]

\* meant: the document the user sees, with the change that was made.
\* base: the stamp of the file that the change is based on.
\* moved: a redacted key was removed from before another one.
Closed ==
  [at |-> "closed", doc |-> Empty, meant |-> Empty, base |-> 0, moved |-> FALSE]

EditorInit(keys) ==
  /\ file = [doc |-> [keys |-> keys, kinds |-> Kinds,
                      setting |-> CHOOSE v \in Settings : TRUE,
                      state |-> "valid"],
             stamp |-> 1]
  /\ forms = [e \in Editors |-> Closed]

Stored(doc) == [doc |-> doc, stamp |-> file.stamp + 1]

Becomes(e, form) == forms' = [forms EXCEPT ![e] = form]

---------------------------------------------------------------------------
(* What the user is shown and what the user changes.                       *)

\* Every secret looks the same.
Redacted(doc) == [doc EXCEPT !.keys = [i \in DOMAIN @ |-> Marker]]

Shown(e, doc) == IF e \in Clients THEN Redacted(doc) ELSE doc

\* config_read, load_config_view: the file must be TOML.
Open(e) ==
  /\ e \in Clients \cup {GUI}
  /\ forms[e].at = "closed"
  /\ edits > 0 /\ edits' = edits - 1
  /\ file.doc.state # "broken"
  /\ Becomes(e, [Closed EXCEPT !.at = "open", !.doc = Shown(e, file.doc),
                               !.meant = file.doc, !.base = file.stamp])
  /\ UNCHANGED file

Changed(e, doc, meant) ==
  /\ forms[e].at = "open"
  /\ Becomes(e, [forms[e] EXCEPT !.at = "changed", !.doc = doc, !.meant = meant])
  /\ UNCHANGED <<file, edits>>

AddsKey(e) ==
  \E k \in Secrets :
    LET f == forms[e]
    IN  /\ Len(f.meant.keys) < MaxKeys
        /\ ~Contains(f.meant.keys, k)
        /\ Changed(e, [f.doc EXCEPT !.keys = Append(@, k)],
                      [f.meant EXCEPT !.keys = Append(@, k)])

RemovesKey(e) ==
  \E i \in DOMAIN forms[e].doc.keys :
    LET f == forms[e]
    IN  /\ f.at = "open"
        /\ Becomes(e, [f EXCEPT
             !.at = "changed",
             !.doc = [f.doc EXCEPT !.keys = RemoveAt(@, i)],
             !.meant = [f.meant EXCEPT !.keys = RemoveAt(@, i)],
             !.moved = e \in Clients /\ i < Len(f.doc.keys)])
        /\ UNCHANGED <<file, edits>>

Sets(e) ==
  \E v \in Settings :
    Changed(e, [forms[e].doc EXCEPT !.setting = v],
              [forms[e].meant EXCEPT !.setting = v])

\* The form of the egui interface does not reach the list of platforms.  It
\* sets the single platform that counts when there is no list; here there
\* always is one.
Enables(e) ==
  /\ e \in Clients
  /\ \E K \in SUBSET Kinds \ {{}} :
       Changed(e, [forms[e].doc EXCEPT !.kinds = K],
                 [forms[e].meant EXCEPT !.kinds = K])

---------------------------------------------------------------------------
(* The saves.  Each reads the file again and validates what it will write. *)

\* Fault: only lists of one length are compared.
PreservedSameLength(new, old) ==
  [i \in DOMAIN new |->
     IF Len(new) = Len(old) /\ new[i] = Marker THEN old[i] ELSE new[i]]

\* preserve_redacted_secrets: a marker takes the key that is at its place now.
Preserved(new, old) ==
  [i \in DOMAIN new |->
     IF i \in DOMAIN old /\ new[i] = Marker THEN old[i] ELSE new[i]]

Prepares(e, doc) ==
  IF doc.state = "valid"
  THEN Becomes(e, [forms[e] EXCEPT !.at = "prepared", !.doc = doc])
  ELSE Becomes(e, Closed)

ConfigWrite(e) ==
  /\ e \in Clients
  /\ forms[e].at = "changed"
  /\ IF file.doc.state = "broken" THEN Becomes(e, Closed)
     ELSE Prepares(e, [forms[e].doc EXCEPT !.keys = Preserved(@, file.doc.keys)])
  /\ UNCHANGED <<file, edits>>

\* save_config_update: the fields of the view over the file as it is now, the
\* list of platforms (see Enables) and what the form does not show kept.
GuiSave ==
  /\ forms[GUI].at = "changed"
  /\ IF file.doc.state = "broken" THEN Becomes(GUI, Closed)
     ELSE Prepares(GUI, [file.doc EXCEPT !.keys = forms[GUI].doc.keys,
                                         !.setting = forms[GUI].doc.setting])
  /\ UNCHANGED <<file, edits>>

\* config_patch: key-level operations on the file as it is now.
Patches(doc) ==
  {[doc EXCEPT !.setting = v] : v \in Settings}
    \cup {[doc EXCEPT !.kinds = K] : K \in SUBSET Kinds \ {{}}}
    \cup {[doc EXCEPT !.keys = <<k>>] : k \in Secrets}
    \cup {[doc EXCEPT !.keys = <<>>]}

ConfigPatch(e) ==
  /\ e \in Clients
  /\ forms[e].at = "closed"
  /\ edits > 0 /\ edits' = edits - 1
  /\ file.doc.state = "valid"
  /\ \E doc \in Patches(file.doc) :
       Becomes(e, [Closed EXCEPT !.at = "prepared", !.doc = doc, !.meant = doc,
                                 !.base = file.stamp])
  /\ UNCHANGED file

\* The script reads the file and sets the paths of the runtime it installed; it
\* does not look at what else is there.
Install(e) ==
  /\ forms[e].at = "closed"
  /\ \E v \in Settings :
       LET doc == [file.doc EXCEPT !.setting = v]
       IN Becomes(e, [Closed EXCEPT !.at = "prepared", !.doc = doc,
                                    !.meant = doc, !.base = file.stamp])
  /\ UNCHANGED <<file, edits>>

\* A text editor: the file becomes broken, or valid again.
Scribble ==
  /\ edits > 0 /\ edits' = edits - 1
  /\ \E state \in {"valid", "broken"} \ {file.doc.state} :
       file' = Stored([file.doc EXCEPT !.state = state])
  /\ UNCHANGED forms

\* atomic_write.
Replace(e) ==
  /\ e \in Clients
  /\ forms[e].at = "prepared"
  /\ file' = Stored(forms[e].doc)
  /\ Becomes(e, Closed)
  /\ UNCHANGED edits

Truncate(e) ==
  /\ forms[e].at = "prepared"
  /\ file' = Stored(Empty)
  /\ Becomes(e, [forms[e] EXCEPT !.at = "truncated",
                   !.base = IF @ = file.stamp THEN file.stamp + 1 ELSE @])
  /\ UNCHANGED edits

Fill(e) ==
  /\ forms[e].at = "truncated"
  /\ file' = Stored(forms[e].doc)
  /\ Becomes(e, Closed)
  /\ UNCHANGED edits

EditorNext ==
  \/ Scribble \/ GuiSave
  \/ \E e \in Editors :
       \/ Open(e) \/ AddsKey(e) \/ RemovesKey(e) \/ Sets(e) \/ Enables(e)
       \/ ConfigWrite(e) \/ ConfigPatch(e)
       \/ Replace(e) \/ Truncate(e) \/ Fill(e)

---------------------------------------------------------------------------

Saves(e) == forms[e].at # "closed" /\ forms'[e].at = "closed" /\ file' # file

\* A save over the file that the user was shown stores the document that the
\* user means: the redacted keys come back, each at its place, and nothing
\* else changes.  The exception is in the code: a redacted key that is removed
\* from before another takes the value of its neighbour with it.
SavedAsMeant ==
  [][\A e \in Editors :
       Saves(e) /\ forms[e].base = file.stamp /\ ~forms[e].moved =>
         file'.doc = forms[e].meant]_editorVars

=============================================================================
