---------------------------- MODULE ConfigStore ----------------------------
(***************************************************************************)
(* ConfigStore (launcher/src/config_store.cpp): the user's settings over   *)
(* app.json's, in memory and in user.json.  Of the keys a user may set,    *)
(* these are the ones the Captions tab writes; a key that is not set has   *)
(* the value Unset, and a list is never set to the empty one.              *)
(*                                                                         *)
(* The thread that puts a key waits for the whole write, so a put is one   *)
(* step; a kill may come between any two calls of the write.               *)
(***************************************************************************)
EXTENDS AtomicFile, Sequences

CONSTANTS Codes   \* the languages of a caption list

VARIABLES
    overlay,   \* overlay_: what the running session has put or loaded
    file       \* user.json

storeVars == <<overlay, file>>

Unset == "unset"
Keys == {"caption_control", "caption_remember", "caption_on", "caption_languages"}
Lists == Seq(Codes) \ {<<>>}
Overlays ==
    [caption_control : {Unset, "local", "youtube"}, caption_remember : {Unset, "on", "off"},
     caption_on : {Unset, "on", "off"}, caption_languages : Lists \cup {<<>>}]

Nothing == [caption_control |-> Unset, caption_remember |-> Unset, caption_on |-> Unset,
            caption_languages |-> <<>>]

\* A file is a document of the settings, or absent or torn; one that is not there
\* or does not parse is no overrides.
Document(o) == <<"document", o>>
Loaded(content) == IF content[1] = "document" THEN content[2] ELSE Nothing

\* A key's value in a session: app.json's, unless it is overridden.
IsSet(k, v) == IF k = "caption_languages" THEN v # <<>> ELSE v # Unset
Applied(shipped, o) == [k \in Keys |-> IF IsSet(k, o[k]) THEN o[k] ELSE shipped[k]]

StoreInit == file = File(Absent) /\ overlay = Nothing

\* The value counts for this session even if the write fails.
Put(k, v) ==
    /\ overlay' = [overlay EXCEPT ![k] = v]
    /\ \E w \in Completed(file, Document(overlay')) : file' = w[1]

\* The launcher is killed somewhere in the write, and started again.
PutInterrupted(k, v) ==
    /\ file' \in Abandoned(file, Document([overlay EXCEPT ![k] = v]))
    /\ overlay' = Loaded(file'.main)

Reload == overlay' = Loaded(file.main) /\ UNCHANGED file
ReloadAfterPowerCut == file' \in AfterPowerCut(file) /\ overlay' = Loaded(file'.main)

-----------------------------------------------------------------------------
Promise == INSTANCE SettingsStore
    WITH Settings <- Overlays, live <- overlay,
         saved <- Loaded(file.main), older <- Loaded(file.before)

\* The store keeps what its header promises over an atomic write that fails or is
\* killed at any call and a power cut that may undo the last rename: the settings
\* of a session are the file's as a whole and the session's changes, in order.
StoreKeepsPromise == Promise!Spec
=============================================================================
