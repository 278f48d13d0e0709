----------------------------- MODULE ConfigDocument -----------------------------
(***************************************************************************)
(* rdt-config: the text of the configuration document (migrate.rs), its    *)
(* fields and their defaults (settings.rs, Config of store.rs), and the    *)
(* checks and edits of profiles (profile.rs, store.rs).  ConfigStore has   *)
(* the system calls of a save; here a save is one step and what matters is *)
(* the text.                                                               *)
(*                                                                         *)
(* The user, or a newer build, may put any text in the file.  One process  *)
(* loads it, changes it, saves it, reloads it and starts again.            *)
(***************************************************************************)
EXTENDS Integers, Sequences

CONSTANTS
    Documents,      \* texts that others put in the file
    Edited,         \* profiles that the process adds or updates
    MaxDocumentOps  \* bound: steps

Current == 1        \* CURRENT_SCHEMA_VERSION
VersionAbsent == -1
VersionOdd == -2    \* no 32-bit number

(* Names: "A" is "a" in another case, "blank" one that is empty when trimmed or
   longer than 120 bytes. *)
ProfileNames == {"a", "A", "b", "blank"}
Folded == [n \in ProfileNames |-> IF n = "A" THEN "a" ELSE n]

(* A profile.  sound: the host is not empty and has no whitespace, the port is
   not 0, no tag is empty.  Every certificate policy there is passes. *)
SavedProfile ==
    [id : Nat, name : ProfileNames, sound : BOOLEAN, policy : {"strict", "accept-new"},
     sort : Nat]

(* A document as text.  parses: it is TOML.  ui: the fields of its table, or
   NoUi; other optional fields behave like scale.  typed: every field that is
   there has its type, and none is missing that has no default. *)
UiText == [page : {"absent", "", "dashboard", "logs"}, scale : {"absent", "100", "125"}]
NoUi == [page |-> "none", scale |-> "none"]
Text ==
    [parses : BOOLEAN, version : {VersionAbsent, VersionOdd, 0, Current, Current + 1},
     ui : UiText \cup {NoUi}, typed : BOOLEAN, profiles : Seq(SavedProfile)]
NoText == [version |-> -3]

ASSUME DocumentAssumption ==
    /\ Documents \subseteq Text /\ Edited \subseteq SavedProfile
    /\ MaxDocumentOps \in Nat

VARIABLES
    document, \* the file
    process,  \* "down", or what its store is attached to: "file", "nothing"
    config,   \* the store
    unsaved,  \* its dirty flag
    own,      \* inner: nobody else wrote the file since the process saved it
    written,  \* inner: the store as it was saved
    documentOps

documentVars == <<document, process, config, unsaved, own, written, documentOps>>

------------------------------------------------------------------------------
(* Defaults.  A field that is missing from [settings.ui] gets the default of
   its attribute; a missing table gets UiSettings::default(). *)

UiDefault == [page |-> "dashboard", scale |-> "100"]
Filled(ui) ==
    IF ui = NoUi THEN UiDefault
    ELSE [page |-> IF ui.page = "absent" THEN "" ELSE ui.page,
          scale |-> IF ui.scale = "absent" THEN "100" ELSE ui.scale]

Defaults == [schema_version |-> Current, ui |-> UiDefault, profiles |-> <<>>]

(* document_version, migrate and the second parse of load.  A text without a
   version that is a number counts as version 0. *)
Version(text) == IF text.parses /\ text.version >= 0 THEN text.version ELSE 0
Loadable(text) == Version(text) <= Current /\ text.parses /\ text.typed
StampNothing(text) == Version(text)
Stamp(text) == Current
Decoded(text) ==
    [schema_version |-> Stamp(text), ui |-> Filled(text.ui), profiles |-> text.profiles]

(* to_toml *)
Encoded(c) ==
    [parses |-> TRUE, version |-> c.schema_version, ui |-> c.ui, typed |-> TRUE,
     profiles |-> c.profiles]

------------------------------------------------------------------------------
(* Profiles. *)

(* ConnectionProfile::validate *)
Valid(p) == p.name # "blank" /\ p.sound /\ p.policy # "accept-new"

First(at) == IF at = {} THEN 0 ELSE CHOOSE i \in at : \A j \in at : i <= j
Position(id) == First({i \in DOMAIN config.profiles : config.profiles[i].id = id})
Named(n) == {i \in DOMAIN config.profiles : Folded[config.profiles[i].name] = Folded[n]}

------------------------------------------------------------------------------

DocumentInit ==
    /\ document \in Documents \cup {NoText}
    /\ process = "down" /\ config = Defaults /\ unsaved = FALSE
    /\ own = FALSE /\ written = Defaults /\ documentOps = 0

Bounded == documentOps < MaxDocumentOps /\ documentOps' = documentOps + 1

WriteByHand(text) ==
    /\ Bounded
    /\ document' = text /\ own' = FALSE
    /\ UNCHANGED <<process, config, unsaved, written>>

(* load.  A missing file gives the defaults, unsaved. *)
LoadStore ==
    /\ process = "down" /\ Bounded
    /\ \/ document = NoText /\ config' = Defaults /\ unsaved' = TRUE
       \/ document # NoText /\ Loadable(document) /\ config' = Decoded(document) /\ unsaved' = FALSE
    /\ process' = "file"
    /\ UNCHANGED <<document, own, written>>

(* A text that does not load ends the desktop and the command line; the agent
   goes on with a store in memory. *)
LoadFails ==
    /\ process = "down" /\ document # NoText /\ ~Loadable(document) /\ Bounded
    /\ process' \in {"down", "nothing"}
    /\ config' = Defaults /\ unsaved' = FALSE
    /\ UNCHANGED <<document, own, written>>

(* reload of a store in memory finds no file. *)
ReloadStore ==
    /\ process # "down" /\ Bounded
    /\ \/ (process = "nothing" \/ document = NoText) /\ config' = Defaults
       \/ /\ process = "file" /\ document # NoText /\ Loadable(document)
          /\ config' = Decoded(document)
    /\ unsaved' = FALSE
    /\ UNCHANGED <<document, process, own, written>>

Changed(c) ==
    /\ process # "down" /\ Bounded
    /\ config' = c /\ unsaved' = TRUE
    /\ UNCHANGED <<document, process, own, written>>

SetUi(ui) == Changed([config EXCEPT !.ui = ui])
AddProfile(p) ==
    /\ Position(p.id) = 0 /\ Valid(p) /\ Named(p.name) = {}
    /\ Changed([config EXCEPT !.profiles = Append(@, p)])
UpdateProfile(p) ==
    /\ Valid(p) /\ Position(p.id) # 0 /\ Named(p.name) \subseteq {Position(p.id)}
    /\ Changed([config EXCEPT !.profiles[Position(p.id)] = p])
RemoveProfile(id) ==
    /\ Position(id) # 0
    /\ Changed([config EXCEPT !.profiles = SelectSeq(@, LAMBDA p : p.id # id)])

SaveDocument ==
    /\ process = "file" /\ Bounded
    /\ document' = Encoded(config)
    /\ unsaved' = FALSE /\ own' = TRUE /\ written' = config
    /\ UNCHANGED <<process, config>>

Quit ==
    /\ process # "down" /\ Bounded
    /\ process' = "down"
    /\ UNCHANGED <<document, config, unsaved, own, written>>

DocumentNext ==
    \/ \E text \in Documents : WriteByHand(text)
    \/ LoadStore \/ LoadFails \/ ReloadStore \/ SaveDocument \/ Quit
    \/ SetUi([page |-> "logs", scale |-> "125"])
    \/ \E p \in Edited : AddProfile(p) \/ UpdateProfile(p) \/ RemoveProfile(p.id)

DocumentSpec == DocumentInit /\ [][DocumentNext]_documentVars

------------------------------------------------------------------------------
(* Properties. *)

(* load and save, store.rs:106-137 and 297-305, migrate, migrate.rs:37-64:
   whatever text the process had loaded before it changed and saved it, its
   own document is in the version of this build and loads again as exactly
   the store that was saved. *)
SavedReloads ==
    own => /\ Loadable(document) /\ Decoded(document) = written
           /\ document.version = Current
==================================================================================
