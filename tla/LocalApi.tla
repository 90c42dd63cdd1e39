------------------------------- MODULE LocalApi -------------------------------
(***************************************************************************)
(* The client's HTTP interface for other programs on the same machine:     *)
(* the keys and their file (src/client/storage/api_keys.py), the server    *)
(* and its handlers (src/client/api/server.py), and the window that starts *)
(* and stops it and makes and deletes keys (src/client/gui/api_dialog.py). *)
(*                                                                         *)
(* HTTPServer serves one request after the other on a thread of its own;   *)
(* the keys are changed by the window's thread alone. The file of keys is  *)
(* written in place: it is empty between the open and the write, and stays *)
(* so if the program ends there.                                           *)
(*                                                                         *)
(* The window is modelled as it works once it is open. The settings dialog *)
(* cannot open it as the code stands: main_window.py:1706 names            *)
(* api_server, which that file does not import.                            *)
(***************************************************************************)
EXTENDS FiniteSets, Integers

CONSTANTS ApiKeys,     \* keys that may come to be generated
          Permissions, \* ALL_PERMISSIONS
          Grants,      \* sets of permissions that are ticked
          MaxHours, NoRequest, NoSave

ASSUME GrantsAssumption == Grants \subseteq (SUBSET Permissions) \ {{}}

VARIABLES
    keyFile,   \* api_keys.json: the set of its entries
    torn,      \* the file holds no JSON
    saving,    \* what the window's thread is about to write
    generated, \* keys generated so far
    revoked,   \* keys whose deletion has succeeded
    shown,     \* keys the window lists
    apiServer, \* APIServer: "off", "on", or "ending" while stop() waits
    request,   \* the request being served
    hour,      \* time
    done       \* answers of the last request: the status, 0 before the first

apiVars == <<keyFile, torn, saving, generated, revoked, shown, apiServer, request, hour, done>>
keyVars == <<keyFile, torn, saving, generated, revoked, shown>>

Forever == -1
Entries == [key : ApiKeys, permissions : Grants, expiry : {Forever} \cup 0 .. 2 * MaxHours]

ApiInit ==
    /\ keyFile = {} /\ torn = FALSE /\ saving = NoSave /\ generated = {} /\ revoked = {}
    /\ shown = {} /\ apiServer = "off" /\ request = NoRequest /\ hour = 0 /\ done = 0

\* A file that is missing or no JSON counts as one without keys.
LoadKeys == IF torn THEN {} ELSE keyFile

KeysOf(entries) == {e.key : e \in entries}

-----------------------------------------------------------------------------
(* The window. Only its thread writes, so that nothing comes between the     *)
(* load and the open.                                                        *)

WindowFree == saving = NoSave /\ apiServer # "ending"

Open(entries, gone) ==
    /\ WindowFree /\ saving' = [entries |-> entries, gone |-> gone] /\ torn' = TRUE

Create(key, permissions, hours) ==
    /\ key \notin generated /\ generated' = generated \cup {key}
    /\ LET expiry == IF hours >= 0 THEN hour + hours ELSE Forever
       IN  Open(LoadKeys \cup {[key |-> key, permissions |-> permissions, expiry |-> expiry]}, {})
    /\ UNCHANGED <<keyFile, revoked, shown, apiServer, request, hour, done>>

\* The file is written only if the key was in it.
Delete(key) ==
    /\ key \in shown /\ key \in KeysOf(LoadKeys)
    /\ Open({e \in LoadKeys : e.key # key}, {key})
    /\ UNCHANGED <<keyFile, generated, revoked, shown, apiServer, request, hour, done>>

\* The window lists the keys again, but not if the dialog with the new key is
\* closed by its frame.
Save ==
    /\ saving # NoSave
    /\ keyFile' = saving.entries /\ torn' = FALSE /\ saving' = NoSave
    /\ revoked' = revoked \cup saving.gone
    /\ \/ shown' = KeysOf(saving.entries)
       \/ saving.gone = {} /\ shown' = shown
    /\ UNCHANGED <<generated, apiServer, request, hour, done>>

StartServer ==
    /\ WindowFree /\ apiServer = "off" /\ apiServer' = "on"
    /\ UNCHANGED <<keyVars, request, hour, done>>

\* shutdown() waits for the request being served, the window with it.
StopServer ==
    /\ WindowFree /\ apiServer = "on" /\ apiServer' = "ending"
    /\ UNCHANGED <<keyVars, request, hour, done>>

Stopped ==
    /\ apiServer = "ending" /\ request = NoRequest /\ apiServer' = "off"
    /\ UNCHANGED <<keyVars, request, hour, done>>

-----------------------------------------------------------------------------
(* A request. *)

Expired(e) == e.expiry # Forever /\ e.expiry < hour

\* Routes that need no key or do not exist are answered at once.
Receive(key, permission) ==
    /\ apiServer = "on" /\ request = NoRequest
    /\ request' = [key |-> key, permission |-> permission, at |-> "received",
                   late |-> key \in revoked \/ \E e \in keyFile : e.key = key /\ Expired(e)]
    /\ UNCHANGED <<keyVars, apiServer, hour, done>>

Answer(status) == done' = status /\ request' = NoRequest

\* Mutant: a key that once was valid stays so.
VerifiedForever(e) == e \in LoadKeys

\* verify_api_key: the entry with the key's hash, unless it has expired.
Verified(e) == e \in LoadKeys /\ ~Expired(e)

Authenticate ==
    /\ request # NoRequest /\ request.at = "received"
    /\ LET matching == {e \in keyFile : e.key = request.key /\ Verified(e)}
       IN  \/ matching = {} /\ Answer(401)
          \/ \E e \in matching :
                IF request.permission \in e.permissions
                THEN request' = [request EXCEPT !.at = "admitted"] /\ done' = done
                ELSE Answer(403)
    /\ UNCHANGED <<keyVars, apiServer, hour>>

\* A body that is no JSON, or one the callback refuses or cannot take; a
\* signature is made here, if the identity is there.
Handle ==
    /\ request # NoRequest /\ request.at = "admitted"
    /\ \E status \in {200, 400, 500, 503} : Answer(status)
    /\ UNCHANGED <<keyVars, apiServer, hour>>

-----------------------------------------------------------------------------

Hour ==
    /\ hour < MaxHours /\ hour' = hour + 1
    /\ UNCHANGED <<keyVars, apiServer, request, done>>

\* The program ends wherever it is and is started again.
Restart ==
    /\ saving' = NoSave /\ shown' = KeysOf(LoadKeys) /\ apiServer' = "off"
    /\ keyFile' = LoadKeys
    /\ request' = NoRequest /\ done' = 0
    /\ UNCHANGED <<torn, generated, revoked, hour>>

ApiNext ==
    \/ \E key \in ApiKeys :
          \/ \E permissions \in Grants, hours \in {Forever} \cup 0 .. MaxHours :
                Create(key, permissions, hours)
          \/ Delete(key)
          \/ \E permission \in Permissions : Receive(key, permission)
    \/ Save \/ StartServer \/ StopServer \/ Stopped \/ Authenticate \/ Handle \/ Hour \/ Restart

ApiSpec == ApiInit /\ [][ApiNext]_apiVars

-----------------------------------------------------------------------------

ApiTypeOK ==
    /\ keyFile \subseteq Entries /\ torn \in BOOLEAN
    /\ saving \in [entries : SUBSET Entries, gone : SUBSET ApiKeys] \cup {NoSave}
    /\ revoked \subseteq generated /\ generated \subseteq ApiKeys /\ shown \subseteq ApiKeys
    /\ apiServer \in {"off", "on", "ending"} /\ hour \in 0 .. MaxHours
    /\ request \in [key : ApiKeys, permission : Permissions, at : {"received", "admitted"},
                    late : BOOLEAN] \cup {NoRequest}
    /\ done \in {0, 200, 400, 401, 403, 500, 503}

\* A request that came after its key was deleted or had expired never gets to
\* the application, whatever keys were made since,
\* whenever the file was being written, and wherever the program ended (api_keys.py:134, 176).
RevokedStaysOut ==
    request # NoRequest /\ request.at = "admitted" => ~request.late

=============================================================================
