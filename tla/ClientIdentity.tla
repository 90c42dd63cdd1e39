--------------------------- MODULE ClientIdentity ---------------------------
(***************************************************************************)
(* The desktop client's identity: the file and its two pins                *)
(* (src/client/storage/identity.py), and the window that registers,        *)
(* unlocks and erases (src/client/gui/register.py).                        *)
(*                                                                         *)
(* A pin is a sequence of digits. The keys, their encryption and the       *)
(* hashes of the pins are left out: only the pin a hash was taken from     *)
(* matches it.                                                             *)
(***************************************************************************)
EXTENDS Naturals, Sequences, SequencesExt

CONSTANTS Base,         \* digits of a pin
          Lengths,      \* VALID_PIN_LENGTHS
          OtherFiles,   \* the files beside identity.json
          MaxUsers,     \* bound of the identities made
          NoFile, Garbage, NoPin, Nobody

ASSUME IdentityAssumption ==
    Base \in Nat /\ Lengths \subseteq Nat /\ MaxUsers \in Nat /\ "profile" \in OtherFiles

VARIABLES
    idFile,     \* identity.json: its owner and two pins; Garbage once overwritten
    files,      \* the other files there are
    screen,     \* what the window shows
    chore,      \* what the press of a button still has to do
    known,      \* RegisterWindow.identity
    wrong,      \* _fail_count
    made,       \* identities generated
    erased,     \* identities whose data an erasure has touched
    resisted    \* identities whose file was neither overwritten nor removed

identityVars == <<idFile, files, screen, chore, known, wrong, made, erased, resisted>>

Users == 1 .. MaxUsers
Pins == UNION {[1 .. n -> 0 .. Base - 1] : n \in Lengths}
Value(pin) == LET v[n \in 0 .. Len(pin)] == IF n = 0 THEN 0 ELSE v[n-1] * Base + pin[n]
              IN  v[Len(pin)]

IdentityInit ==
    /\ idFile = NoFile /\ files = {} /\ screen = "register" /\ chore = <<>>
    /\ known = Nobody /\ wrong = 0 /\ made = 0 /\ erased = {} /\ resisted = {}

-----------------------------------------------------------------------------
(* The two pins. *)

\* Mutant: the second pin is on the same side of the first as its reverse.
SameSide(unlock, duress) ==
    /\ Reverse(unlock) # unlock
    /\ duress \notin {unlock, Reverse(unlock)}
    /\ IF Value(Reverse(unlock)) < Value(unlock) THEN Value(duress) < Value(unlock)
                                                 ELSE Value(duress) > Value(unlock)

\* validate_duress_against_unlock.
Allowed(unlock, duress) ==
    /\ Reverse(unlock) # unlock
    /\ duress \notin {unlock, Reverse(unlock)}
    /\ IF Value(Reverse(unlock)) < Value(unlock) THEN Value(duress) > Value(unlock)
                                                 ELSE Value(duress) < Value(unlock)

Readable == idFile \notin {NoFile, Garbage}
Opens(pin) == Readable /\ pin = idFile.unlock

\* is_duress_trigger.
Triggers(pin) == Readable /\ (pin = idFile.duress \/ Reverse(pin) = idFile.unlock)

-----------------------------------------------------------------------------
(* Registering. *)

Idle == chore = <<>> /\ screen # "closed"
AtStep(step) == chore # <<>> /\ Head(chore).step = step
StepDone == chore' = Tail(chore)

Steps(user, pin, duress) ==
    [i \in 1 .. 5 |-> [step |-> <<"draft", "replace", "profile", "settings", "connect">>[i],
                       user |-> user, unlock |-> pin, duress |-> duress]]

\* The button may be pressed again once this has failed. Generating the identity
\* fails without a physical network card, before anything is kept.
Register(pin, duress) ==
    /\ Idle /\ screen = "register" /\ made < MaxUsers /\ Allowed(pin, duress)
    /\ made' = made + 1
    /\ chore' = Steps(made + 1, pin, duress)
    /\ UNCHANGED <<idFile, files, screen, known, wrong, erased, resisted>>

WriteFile ==
    /\ \E f \in {"draft", "profile", "settings"} : AtStep(f) /\ files' = files \cup {f}
    /\ StepDone
    /\ UNCHANGED <<idFile, screen, known, wrong, made, erased, resisted>>

ReplaceIdentity ==
    /\ AtStep("replace") /\ StepDone
    /\ idFile' = [user |-> chore[1].user, unlock |-> chore[1].unlock, duress |-> chore[1].duress]
    /\ files' = files \ {"draft"}
    /\ UNCHANGED <<screen, known, wrong, made, erased, resisted>>

\* Whether or not the server is reached nothing is asked of it: register is
\* called with an argument it does not take. What was saved stays.
ConnectFirst ==
    /\ AtStep("connect") /\ StepDone
    /\ UNCHANGED <<idFile, files, screen, known, wrong, made, erased, resisted>>

-----------------------------------------------------------------------------
(* Unlocking and erasing. *)

UnlockPin(pin) ==
    /\ Idle /\ screen = "unlock" /\ Opens(pin)
    /\ known' = idFile.user /\ wrong' = 0 /\ screen' = "main"
    /\ UNCHANGED <<idFile, files, chore, made, erased, resisted>>

\* Mutant: the identity's file goes last.
ErasureRestFirst == <<[step |-> "rest"], [step |-> "overwrite"], [step |-> "remove"]>>

\* wipe_all_data: the identity's file goes first, overwritten, then removed.
\* Whether it went or not, the other files are next.
Erasure == <<[step |-> "overwrite"], [step |-> "remove"], [step |-> "rest"]>>

StartErasing(steps) ==
    /\ chore' = steps
    /\ UNCHANGED <<idFile, files, screen, known, made, erased, resisted>>

\* The server is told first, which may take long; its answer is not read.
DuressPin(pin) ==
    /\ Idle /\ screen = "unlock" /\ ~Opens(pin) /\ Triggers(pin)
    /\ StartErasing(<<[step |-> "notify"]>> \o Erasure) /\ UNCHANGED wrong

Notify ==
    /\ AtStep("notify") /\ StepDone
    /\ UNCHANGED <<idFile, files, screen, known, wrong, made, erased, resisted>>

\* A file that cannot be read is a wrong pin. The third time the user may be
\* asked whether to erase.
WrongPin(pin, confirmed) ==
    /\ Idle /\ screen = "unlock" /\ idFile # NoFile /\ ~Opens(pin) /\ ~Triggers(pin)
    /\ \/ /\ wrong >= 2 /\ confirmed /\ wrong' = 3
          /\ StartErasing(Erasure)
       \/ /\ wrong < 2 \/ ~confirmed
          /\ wrong' = IF wrong < 2 THEN wrong + 1 ELSE 0
          /\ UNCHANGED <<idFile, files, screen, chore, known, made, erased, resisted>>

\* The identity whose data an erasure has touched.
Touched == erased' = IF Readable THEN erased \cup {idFile.user} ELSE erased

Overwrite ==
    /\ AtStep("overwrite") /\ StepDone
    /\ Touched /\ idFile' = IF idFile = NoFile THEN NoFile ELSE Garbage
    /\ UNCHANGED <<files, screen, known, wrong, made, resisted>>

\* It cannot be opened for writing: it is only removed.
OverwriteFails ==
    /\ AtStep("overwrite") /\ StepDone /\ idFile # NoFile
    /\ UNCHANGED <<idFile, files, screen, known, wrong, made, erased, resisted>>

RemoveIdentity ==
    /\ AtStep("remove") /\ StepDone
    /\ Touched /\ idFile' = NoFile
    /\ UNCHANGED <<files, screen, known, wrong, made, resisted>>

\* It cannot be removed either, which nobody hears of.
RemoveFails ==
    /\ AtStep("remove") /\ StepDone /\ idFile # NoFile
    /\ resisted' = IF Readable THEN resisted \cup {idFile.user} ELSE resisted
    /\ UNCHANGED <<idFile, files, screen, known, wrong, made, erased>>

\* Files that are held open elsewhere are passed over.
EraseRest(kept) ==
    /\ AtStep("rest") /\ StepDone /\ Touched /\ files' = kept
    /\ UNCHANGED <<idFile, screen, known, wrong, made, resisted>>

\* The window is closed, or the program ends between two steps.
CloseWindow ==
    /\ screen # "closed"
    /\ screen' = "closed" /\ chore' = <<>> /\ known' = Nobody
    /\ UNCHANGED <<idFile, files, wrong, made, erased, resisted>>

StartClient ==
    /\ screen = "closed" /\ wrong' = 0
    /\ screen' = IF idFile = NoFile THEN "register" ELSE "unlock"
    /\ UNCHANGED <<idFile, files, chore, known, made, erased, resisted>>

-----------------------------------------------------------------------------
(* set_duress_pin and clear_duress_pin of the main window's settings. *)

SetDuress(pin, duress) ==
    /\ Idle /\ screen = "main" /\ Opens(pin)
    /\ Allowed(pin, duress)
    /\ idFile' = [idFile EXCEPT !.duress = duress]
    /\ UNCHANGED <<files, screen, chore, known, wrong, made, erased, resisted>>

ClearDuress(pin) ==
    /\ Idle /\ screen = "main" /\ Opens(pin)
    /\ idFile' = [idFile EXCEPT !.duress = NoPin]
    /\ UNCHANGED <<files, screen, chore, known, wrong, made, erased, resisted>>

IdentityNext ==
    \/ \E pin \in Pins :
          \/ UnlockPin(pin) \/ DuressPin(pin) \/ ClearDuress(pin)
          \/ \E confirmed \in BOOLEAN : WrongPin(pin, confirmed)
          \/ \E duress \in Pins : Register(pin, duress) \/ SetDuress(pin, duress)
    \/ \E kept \in SUBSET files : EraseRest(kept)
    \/ WriteFile \/ Notify \/ ReplaceIdentity \/ ConnectFirst
    \/ Overwrite \/ OverwriteFails \/ RemoveIdentity \/ RemoveFails
    \/ CloseWindow \/ StartClient

IdentitySpec == IdentityInit /\ [][IdentityNext]_identityVars

-----------------------------------------------------------------------------

IdentityTypeOK ==
    /\ idFile \in {NoFile, Garbage}
                  \cup [user : Users, unlock : Pins, duress : Pins \cup {NoPin}]
    /\ files \subseteq OtherFiles \cup {"draft"}
    /\ screen \in {"register", "unlock", "main", "closed"}
    /\ known \in Users \cup {Nobody} /\ wrong \in 0 .. 3
    /\ made \in 0 .. MaxUsers /\ erased \cup resisted \subseteq Users

\* What validate_duress_against_unlock is for: whoever tries every pin of the
\* length of the right one, in ascending or in descending order, meets one
\* that erases before the one that opens, if both pins have one length.
SearchMeetsTrigger ==
    Readable /\ idFile.duress # NoPin /\ Len(idFile.duress) = Len(idFile.unlock) =>
        LET Meets == {Value(p) : p \in {idFile.duress, Reverse(idFile.unlock)}}
        IN  /\ \E v \in Meets : v < Value(idFile.unlock)
            /\ \E v \in Meets : v > Value(idFile.unlock)

\* Once an erasure has touched an identity's data, no end and restart of the
\* program on the way lets anybody into its main window again, whether its file
\* could not be overwritten or not be removed; only if neither could be done the
\* rest is erased and the identity is not (wipe_all_data).
ErasedStaysShut ==
    [][screen' = "main" /\ screen # "main" => known' \notin erased \ resisted]_identityVars

=============================================================================
