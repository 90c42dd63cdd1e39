---------------------------- MODULE ClientProofs ----------------------------
(*****************************************************************************)
(* Five parts of the client, for any number of contacts, rows, members, keys *)
(* and chores: the settings dialog, the protection of the identity, what is  *)
(* burnt after reading, the gateways of group peers, and the local API.      *)
(*****************************************************************************)
EXTENDS ClientSettings, ClientIdentity, Conversations, DirectConnect, LocalApi,
        FiniteSetTheorems, WellFoundedInduction, TLAPS

(* Naturals are well founded: a set of them that is not empty has a least. *)
LEMMA LeastNat ==
    ASSUME NEW T, T \subseteq Nat, T # {}
    PROVE  \E n \in T : \A m \in T : n <= m
<1>. DEFINE R == {p \in Nat \X Nat : p[1] < p[2]}
<1>1. IsWellFoundedOn(OpToRel(<, Nat), Nat)
    BY NatLessThanWellFounded, Zenon
<1>2. OpToRel(<, Nat) = R
    BY DEF OpToRel
<1>. HIDE DEF R
<1>3. IsWellFoundedOn(R, Nat)
    BY <1>1, <1>2, Zenon
<1>4. PICK x \in T : \A y \in T : ~(<<y, x>> \in R)
    BY <1>3, WFMin, Zenon
<1>5. ASSUME NEW y \in T PROVE x <= y
  <2>1. <<y, x>> \notin R /\ x \in Nat /\ y \in Nat
      BY <1>4
  <2>2. ~(y < x)
      BY <2>1 DEF R
  <2>. QED
      BY <2>1, <2>2
<1>. QED
    BY <1>5

-----------------------------------------------------------------------------
(* ClientSettings: the dialog of the experimental features. *)

(* What the dialog's view says of the clock: it has cooled for as long as   *)
(* the slider is free, and the end of the cooling it waits for is far       *)
(* enough from the first proof it was given.                                *)
Stamped == verified = NoTime \/ (verified \in Nat /\ verified <= seconds)
CoolingEnds ==
    view = "cooling" => /\ verified # NoTime
                        /\ until \in Nat /\ until >= verified + Cooldown
SliderCooled == view = "slider" => verified # NoTime /\ seconds >= verified + Cooldown
NothingOnWhileOff == ~master => features = {}

DialogInv ==
    /\ seconds \in Nat /\ Stamped
    /\ CoolingEnds /\ SliderCooled /\ NothingOnWhileOff

DialogRule ==
    /\ master' /\ ~master => verified # NoTime /\ seconds >= verified + Cooldown
    /\ ~master' => features' = {}

(* The settings' own actions leave the dialog alone. *)
LEMMA FileStepsSpareDialog ==
    ASSUME NEW wanted, NEW t,
           \/ SaveAll(wanted) \/ ApiUpdate(t, wanted) \/ ApiSwitch(t, wanted)
           \/ Edit(t) \/ Fetch(t) \/ Cut(t) \/ Write(t) \/ Sync(t) \/ Reload(t) \/ Say(t)
    PROVE  UNCHANGED dialogVars
BY Zenon DEF SaveAll, ApiUpdate, ApiSwitch, StartJob, Edit, Fetch, Cut, Write, Sync, Reload, Say

LEMMA SameDialogKeeps ==
    ASSUME DialogInv, UNCHANGED dialogVars
    PROVE  DialogInv' /\ DialogRule
BY DEF DialogInv, Stamped, CoolingEnds, SliderCooled, NothingOnWhileOff, DialogRule, dialogVars

LEMMA DialogStepsKeep ==
    ASSUME DialogInv, [SettingsNext]_settingsVars
    PROVE  DialogInv' /\ DialogRule
<1> USE SettingsAssumption DEF DialogInv, Stamped, CoolingEnds, SliderCooled, NothingOnWhileOff,
        DialogRule
<1>1. CASE \E wanted \in Settings :
              SaveAll(wanted) \/ \E t \in Writers : ApiUpdate(t, wanted) \/ ApiSwitch(t, wanted)
  BY <1>1, FileStepsSpareDialog, SameDialogKeeps, Zenon
<1>2. CASE \E t \in Writers :
              Edit(t) \/ Fetch(t) \/ Cut(t) \/ Write(t) \/ Sync(t) \/ Reload(t) \/ Say(t)
  BY <1>2, FileStepsSpareDialog, SameDialogKeeps, Zenon
<1>3. CASE SettingsRestart
  BY <1>3 DEF SettingsRestart
<1>4. CASE Second
  BY <1>4 DEF Second
<1>5. CASE Cool
  BY <1>5 DEF Cool
<1>6. CASE Slide
  BY <1>6 DEF Slide
<1>7. CASE DisableAll
  BY <1>7 DEF DisableAll
<1>8. CASE Reopen
  BY <1>8 DEF Reopen
<1>9. ASSUME NEW pin, NEW phrase, Verify(pin, phrase)
      PROVE  DialogInv' /\ DialogRule
  BY <1>9 DEF Verify
<1>10. ASSUME NEW f \in Features, EnableFeature(f) \/ DisableFeature(f)
       PROVE  DialogInv' /\ DialogRule
  BY <1>10 DEF EnableFeature, DisableFeature
<1>11. CASE UNCHANGED settingsVars
  BY <1>11, SameDialogKeeps DEF settingsVars, dialogVars
<1> QED
  BY <1>1, <1>2, <1>3, <1>4, <1>5, <1>6, <1>7, <1>8, <1>9, <1>10, <1>11 DEF SettingsNext

(* The features are switched on only from a dialog whose first right pin    *)
(* and phrase lie at least the cooling time back, however often the button  *)
(* was pressed, the dialog closed or the program restarted on the way, for  *)
(* every cooling time; and none is on while the switch is off.              *)
THEOREM SwitchIsEarned == SettingsSpec => SwitchedOnInOrder
<1>1. SettingsInit => DialogInv
  BY DEF SettingsInit, DialogInv, Stamped, CoolingEnds, SliderCooled, NothingOnWhileOff
<1>2. DialogInv /\ [SettingsNext]_settingsVars
        => DialogInv' /\ [ /\ master' /\ ~master => verified # NoTime /\ seconds >= verified + Cooldown
                           /\ ~master' => features' = {} ]_settingsVars
  BY DialogStepsKeep DEF DialogRule
<1> QED BY <1>1, <1>2, PTL DEF SettingsSpec, SwitchedOnInOrder

-----------------------------------------------------------------------------
(* ClientIdentity: the number a pin stands for. *)

Digits == 0 .. Base - 1

(* The value of every beginning of a pin. *)
Partial(pin, v) ==
    v = [n \in 0 .. Len(pin) |-> IF n = 0 THEN 0 ELSE v[n-1] * Base + pin[n]]

LEMMA PartialExists ==
    ASSUME NEW pin \in Seq(Digits)
    PROVE  \E v : Partial(pin, v) /\ Value(pin) = v[Len(pin)]
<1> DEFINE Next(f, i) == IF i = 0 THEN 0 ELSE f[i-1] * Base + pin[i]
           Chained(f, k) == f = [i \in 0..k |-> Next(f, i)]
           Bad == {k \in 0 .. Len(pin) : ~ \E f : Chained(f, k)}
<1>1. Len(pin) \in Nat
  OBVIOUS
<1>2. Bad = {}
  <2> SUFFICES ASSUME Bad # {} PROVE FALSE
    OBVIOUS
  <2>1. Bad \subseteq Nat
    BY <1>1
  <2>2. PICK k \in Bad : \A j \in Bad : k <= j
    BY <2>1, LeastNat
  <2>3. k # 0
    <3>1. Chained([i \in 0..0 |-> 0], 0)
      OBVIOUS
    <3> QED BY <3>1
  <2>4. k - 1 \in 0 .. Len(pin) /\ k - 1 \notin Bad /\ k \in Nat \ {0}
    <3>1. k \in 0 .. Len(pin)
      OBVIOUS
    <3> HIDE DEF Bad
    <3> QED BY <1>1, <2>2, <2>3, <3>1
  <2>5. PICK f : Chained(f, k - 1)
    BY <2>4
  <2> DEFINE g == [i \in 0..k |-> IF i < k THEN f[i] ELSE f[k-1] * Base + pin[k]]
  <2>6. \A i \in 0..k : g[i] = Next(g, i)
    <3> SUFFICES ASSUME NEW i \in 0..k PROVE g[i] = Next(g, i)
      OBVIOUS
    <3>1. CASE i = k
      BY <3>1, <2>4
    <3>2. CASE i # k
      <4>1. i \in 0 .. k-1 /\ g[i] = f[i] /\ (i # 0 => i-1 \in 0..k /\ g[i-1] = f[i-1])
        BY <3>2, <2>4
      <4>2. f[i] = Next(f, i)
        BY <2>5, <4>1
      <4> QED BY <4>1, <4>2
    <3> QED BY <3>1, <3>2
  <2>7. Chained(g, k)
    BY <2>6
  <2> QED BY <2>2, <2>7
<1>3. \E f : Chained(f, Len(pin))
  BY <1>1, <1>2
<1> DEFINE V == CHOOSE f : Chained(f, Len(pin))
<1>4. Chained(V, Len(pin))
  BY <1>3
<1>5. Value(pin) = V[Len(pin)]
  BY DEF Value
<1> HIDE DEF V
<1>6. Partial(pin, V)
  BY <1>4 DEF Partial
<1> QED BY <1>5, <1>6

LEMMA PartialStep ==
    ASSUME NEW pin \in Seq(Digits), NEW v, Partial(pin, v)
    PROVE  /\ v[0] = 0
           /\ \A n \in 1 .. Len(pin) : v[n] = v[n-1] * Base + pin[n]
BY DEF Partial

LEMMA PartialNat ==
    ASSUME NEW pin \in Seq(Digits), NEW v, Partial(pin, v)
    PROVE  \A n \in 0 .. Len(pin) : v[n] \in Nat
<1> DEFINE Bad == {n \in 0 .. Len(pin) : v[n] \notin Nat}
<1>1. SUFFICES ASSUME Bad # {} PROVE FALSE
  OBVIOUS
<1>2. PICK n \in Bad : \A j \in Bad : n <= j
  <2>1. Bad \subseteq Nat
    OBVIOUS
  <2> QED BY <1>1, <2>1, LeastNat
<1>3. n # 0
  BY <1>2, PartialStep
<1>4. n \in 1 .. Len(pin) /\ n - 1 \in 0 .. Len(pin) /\ n - 1 \notin Bad
  BY <1>2, <1>3
<1>5. v[n] = v[n-1] * Base + pin[n]
  BY <1>4, PartialStep
<1>6. v[n-1] \in Nat
  BY <1>4
<1>7. pin[n] \in Nat /\ Base \in Nat
  <2>1. pin[n] \in Digits
    BY <1>4
  <2> QED BY <2>1, IdentityAssumption DEF Digits
<1> HIDE DEF Bad
<1>8. \A x \in Nat, y \in Nat, z \in Nat : x * y + z \in Nat
  OBVIOUS
<1>9. v[n] \in Nat
  BY <1>5, <1>6, <1>7, <1>8
<1> USE DEF Bad
<1> QED BY <1>2, <1>9

(* A number and a digit are told apart in their sum. *)
LEMMA OneDigit ==
    ASSUME NEW a \in Nat, NEW b \in Nat, NEW c \in Digits, NEW d \in Digits,
           a * Base + c = b * Base + d
    PROVE  a = b /\ c = d
<1> USE IdentityAssumption DEF Digits
<1>1. \A x \in Nat, y \in Nat : x < y => x * Base + Base <= y * Base
  <2> SUFFICES ASSUME NEW x \in Nat, NEW y \in Nat, x < y
               PROVE  x * Base + Base <= y * Base
    OBVIOUS
  <2> DEFINE z == y - x - 1
  <2>1. z \in Nat /\ y = x + 1 + z
    OBVIOUS
  <2> HIDE DEF z
  <2>2. z * Base \in Nat
    BY <2>1
  <2>3. (x + 1 + z) * Base = x * Base + Base + z * Base
    BY <2>1
  <2> QED BY <2>1, <2>2, <2>3
<1>2. a * Base \in Nat /\ b * Base \in Nat
  OBVIOUS
<1>3. ~(a < b)
  BY <1>1, <1>2
<1>4. ~(b < a)
  BY <1>1, <1>2
<1>5. a = b
  BY <1>3, <1>4
<1> QED BY <1>2, <1>5

(* Two pins of one length with one value are one pin: read from the end,    *)
(* every beginning has one value, and so has every digit.                   *)
LEMMA ValueTellsPins ==
    ASSUME NEW p \in Seq(Digits), NEW q \in Seq(Digits), Len(p) = Len(q),
           Value(p) = Value(q)
    PROVE  p = q
<1>1. PICK v : Partial(p, v) /\ Value(p) = v[Len(p)]
  BY PartialExists
<1>2. PICK w : Partial(q, w) /\ Value(q) = w[Len(q)]
  BY PartialExists
<1>3. \A n \in 1 .. Len(p) : v[n] = w[n] => v[n-1] = w[n-1] /\ p[n] = q[n]
  <2> SUFFICES ASSUME NEW n \in 1 .. Len(p), v[n] = w[n]
               PROVE  v[n-1] = w[n-1] /\ p[n] = q[n]
    OBVIOUS
  <2>1. v[n] = v[n-1] * Base + p[n] /\ w[n] = w[n-1] * Base + q[n]
    BY <1>1, <1>2, PartialStep
  <2>2. n - 1 \in 0 .. Len(p) /\ p[n] \in Digits /\ q[n] \in Digits
    OBVIOUS
  <2>3. v[n-1] \in Nat /\ w[n-1] \in Nat
    BY <1>1, <1>2, <2>2, PartialNat
  <2> DEFINE a == v[n-1]  b == w[n-1]
  <2>4. a \in Nat /\ b \in Nat /\ a * Base + p[n] = b * Base + q[n]
    BY <2>1, <2>3
  <2> HIDE DEF a, b
  <2>5. a = b /\ p[n] = q[n]
    BY <2>2, <2>4, OneDigit
  <2> QED BY <2>5 DEF a, b
<1> DEFINE Bad == {j \in 0 .. Len(p) : v[Len(p) - j] # w[Len(p) - j]}
<1>4. Bad = {}
  <2> SUFFICES ASSUME Bad # {} PROVE FALSE
    OBVIOUS
  <2>1. PICK j \in Bad : \A i \in Bad : j <= i
    <3>1. Bad \subseteq Nat
      OBVIOUS
    <3> QED BY <3>1, LeastNat
  <2>2. j # 0
    <3>1. Len(p) - 0 = Len(p)
      OBVIOUS
    <3>2. v[Len(p)] = w[Len(p)]
      BY <1>1, <1>2, Zenon
    <3> QED BY <2>1, <3>1, <3>2
  <2>3. j \in 1 .. Len(p) /\ j - 1 \in 0 .. Len(p) /\ j - 1 \notin Bad
    <3>1. j \in 0 .. Len(p)
      OBVIOUS
    <3> HIDE DEF Bad
    <3> QED BY <2>1, <2>2, <3>1
  <2> DEFINE n == Len(p) - j + 1
  <2>4. n \in 1 .. Len(p) /\ n = Len(p) - (j - 1) /\ n - 1 = Len(p) - j
    BY <2>3
  <2>5. v[n] = w[n]
    BY <2>3, <2>4
  <2> HIDE DEF n
  <2>6. v[n-1] = w[n-1]
    BY <1>3, <2>4, <2>5
  <2> QED BY <2>1, <2>4, <2>6
<1>5. \A n \in 1 .. Len(p) : v[n] = w[n]
  <2> SUFFICES ASSUME NEW n \in 1 .. Len(p) PROVE v[n] = w[n]
    OBVIOUS
  <2> DEFINE j == Len(p) - n
  <2>1. j \in 0 .. Len(p) /\ Len(p) - j = n
    OBVIOUS
  <2>2. j \notin Bad
    BY <1>4
  <2> HIDE DEF j
  <2> QED BY <2>1, <2>2
<1>6. \A n \in 1 .. Len(p) : p[n] = q[n]
  BY <1>3, <1>5
<1> QED BY <1>6

LEMMA ValueNat ==
    ASSUME NEW p \in Seq(Digits)
    PROVE  Value(p) \in Nat
<1>1. PICK v : Partial(p, v) /\ Value(p) = v[Len(p)]
  BY PartialExists
<1>2. Len(p) \in 0 .. Len(p)
  OBVIOUS
<1> QED BY <1>1, <1>2, PartialNat

LEMMA PinsAreSequences ==
    ASSUME NEW pin \in Pins
    PROVE  /\ pin \in Seq(Digits) /\ Reverse(pin) \in Seq(Digits)
           /\ Len(Reverse(pin)) = Len(pin)
<1>1. PICK n \in Lengths : pin \in [1 .. n -> Digits]
  BY DEF Pins, Digits
<1>2. n \in Nat
  BY IdentityAssumption
<1>3. pin \in Seq(Digits) /\ Len(pin) = n
  BY <1>1, <1>2
<1>4. Reverse(pin) \in [1 .. n -> Digits]
  BY <1>1, <1>2, <1>3 DEF Reverse
<1> QED BY <1>2, <1>3, <1>4

(* The two sides validate_duress_against_unlock compares: the second pin    *)
(* and the reverse of the first have the first between them.                *)
LEMMA TwoSides ==
    ASSUME NEW unlock \in Pins, NEW duress \in Pins, Allowed(unlock, duress)
    PROVE  LET Meets == {Value(p) : p \in {duress, Reverse(unlock)}}
           IN  /\ \E v \in Meets : v < Value(unlock)
               /\ \E v \in Meets : v > Value(unlock)
<1> DEFINE back == Value(Reverse(unlock))
<1>1. Value(unlock) \in Nat /\ back \in Nat /\ Value(duress) \in Nat
  BY PinsAreSequences, ValueNat
<1>2. back # Value(unlock)
  BY PinsAreSequences, ValueTellsPins DEF Allowed
<1>3. IF back < Value(unlock) THEN Value(duress) > Value(unlock)
                              ELSE Value(duress) < Value(unlock)
  BY DEF Allowed
<1> QED BY <1>1, <1>2, <1>3

-----------------------------------------------------------------------------
(* ClientIdentity: registering, erasing, and the file between them. *)

(* What the press of a button may still have to do: the rest of a           *)
(* registration, whose pins were allowed and whose identity no erasure has  *)
(* touched, or the rest of an erasure, which comes to the other files only  *)
(* when the identity's own is gone or has resisted.                         *)
Registration ==
    {r \in [step : {"draft", "replace", "profile", "settings", "connect"},
            user : Users, unlock : Pins, duress : Pins] :
        Allowed(r.unlock, r.duress) /\ r.user <= made /\ r.user \notin erased}
ToErase == {<<[step |-> "notify"]>> \o Erasure, Erasure, Tail(Erasure)}
ChoreInOrder ==
    \/ chore \in Seq(Registration)
    \/ chore \in ToErase
    \/ chore = Tail(Tail(Erasure)) /\ (Readable => idFile.user \in resisted)

(* Whoever's identity can be read has not been erased, unless its file      *)
(* resisted, and its second pin passed the comparison with the first.       *)
FileWhole ==
    Readable =>
        /\ idFile \in [user : Users, unlock : Pins, duress : Pins \cup {NoPin}]
        /\ idFile.user <= made /\ idFile.user \notin erased \ resisted
        /\ idFile.duress # NoPin => idFile.duress \in Pins /\ Allowed(idFile.unlock, idFile.duress)

KeptInv == made \in Nat /\ (\A u \in erased : u \in Nat /\ u <= made) /\ ChoreInOrder /\ FileWhole

ErasedRule == screen' = "main" /\ screen # "main" => known' \notin erased \ resisted

LEMMA FourTails ==
    ASSUME NEW a, NEW b, NEW c, NEW d
    PROVE  /\ <<a>> \o <<b, c, d>> = <<a, b, c, d>>
           /\ Tail(<<a, b, c, d>>) = <<b, c, d>> /\ Tail(<<b, c, d>>) = <<c, d>>
           /\ Tail(<<c, d>>) = <<d>> /\ Tail(<<d>>) = <<>>
<1> DEFINE S == {a, b, c, d}
<1>1. <<a>> \in Seq(S) /\ <<b, c, d>> \in Seq(S) /\ <<a, b, c, d>> \in Seq(S)
      /\ <<c, d>> \in Seq(S) /\ <<d>> \in Seq(S)
  OBVIOUS
<1>2. <<a>> \o <<b, c, d>> = <<a, b, c, d>>
  <2> DEFINE s == <<a>>  t == <<b, c, d>>  u == <<a, b, c, d>>
  <2>1. Len(s) = 1 /\ Len(t) = 3 /\ Len(u) = 4 /\ s[1] = a
        /\ t[1] = b /\ t[2] = c /\ t[3] = d /\ u[1] = a /\ u[2] = b /\ u[3] = c /\ u[4] = d
    OBVIOUS
  <2> HIDE DEF s, t, u
  <2>2. s \o t \in Seq(S) /\ Len(s \o t) = 4
    BY <1>1, <2>1 DEF s, t
  <2>3. /\ (s \o t)[1] = s[1] /\ (s \o t)[2] = t[1]
        /\ (s \o t)[3] = t[2] /\ (s \o t)[4] = t[3]
    BY <1>1, <2>1 DEF s, t
  <2>4. u \in Seq(S)
    BY <1>1 DEF u
  <2> DEFINE w == s \o t
  <2> HIDE DEF w, S
  <2>5. w \in Seq(S) /\ Len(w) = 4 /\ w[1] = u[1] /\ w[2] = u[2] /\ w[3] = u[3] /\ w[4] = u[4]
    BY <2>1, <2>2, <2>3 DEF w
  <2>6. w = u
    <3>1. \A i \in 1..4 : w[i] = u[i]
      <4>1. \A i \in 1..4 : i = 1 \/ i = 2 \/ i = 3 \/ i = 4
        OBVIOUS
      <4> QED BY <4>1, <2>5
    <3>2. w = [i \in 1..4 |-> w[i]] /\ u = [i \in 1..4 |-> u[i]]
      BY <2>1, <2>4, <2>5
    <3> QED BY <3>1, <3>2
  <2> QED BY <2>6 DEF s, t, u, w
<1>3. Tail(<<c, d>>) = <<d>> /\ Tail(<<d>>) = <<>>
  BY <1>1
<1>4. Tail(<<a, b, c, d>>) = <<b, c, d>> /\ Tail(<<b, c, d>>) = <<c, d>>
  BY <1>1
<1> QED BY <1>2, <1>3, <1>4

LEMMA EraseSteps ==
    /\ \A c \in ToErase : /\ c # <<>> /\ Head(c).step \in {"notify", "overwrite", "remove"}
                          /\ Head(c).step = "notify" => Tail(c) = Erasure
                          /\ Head(c).step = "overwrite" => Tail(c) = Tail(Erasure)
                          /\ Head(c).step = "remove" => Tail(c) = Tail(Tail(Erasure))
    /\ Head(Tail(Tail(Erasure))).step = "rest" /\ Tail(Tail(Tail(Erasure))) = <<>>
<1> DEFINE n == [step |-> "notify"]  o == [step |-> "overwrite"]
           r == [step |-> "remove"]  s == [step |-> "rest"]
<1>1. n.step = "notify" /\ o.step = "overwrite" /\ r.step = "remove" /\ s.step = "rest"
  OBVIOUS
<1>2. Erasure = <<o, r, s>>
  BY DEF Erasure
<1>3. ToErase = {<<n>> \o Erasure, Erasure, Tail(Erasure)}
  BY DEF ToErase
<1> HIDE DEF n, o, r, s
<1>4. /\ <<n>> \o Erasure = <<n, o, r, s>> /\ Tail(<<n, o, r, s>>) = Erasure
      /\ Tail(Erasure) = <<r, s>> /\ Tail(<<r, s>>) = <<s>> /\ Tail(<<s>>) = <<>>
  BY <1>2, FourTails
<1>5. Head(<<n, o, r, s>>) = n /\ Head(Erasure) = o /\ Head(<<r, s>>) = r /\ Head(<<s>>) = s
  BY <1>2
<1>6. <<n, o, r, s>> # <<>> /\ Erasure # <<>> /\ <<r, s>> # <<>>
  BY <1>2
<1> HIDE DEF Erasure
<1> QED BY <1>1, <1>3, <1>4, <1>5, <1>6

(* What is left of a press of a button after its first step. *)
LEMMA RestOfChore ==
    ASSUME KeptInv, chore # <<>>
    PROVE  /\ Head(chore).step \in {"draft", "replace", "profile", "settings", "connect"} =>
                chore[1] \in Registration /\ Tail(chore) \in Seq(Registration)
           /\ Head(chore).step = "notify" => Tail(chore) = Erasure
           /\ Head(chore).step = "overwrite" => Tail(chore) = Tail(Erasure)
           /\ Head(chore).step = "remove" => Tail(chore) = Tail(Tail(Erasure))
           /\ Head(chore).step = "rest" => Tail(chore) = <<>> /\ (Readable => idFile.user \in resisted)
<1>1. CASE chore \in Seq(Registration)
  <2>1. Head(chore) = chore[1] /\ chore[1] \in Registration /\ Tail(chore) \in Seq(Registration)
    BY <1>1
  <2>2. \A r \in Registration : r.step \in {"draft", "replace", "profile", "settings", "connect"}
    BY DEF Registration
  <2> QED BY <2>1, <2>2
<1>2. CASE chore \in ToErase
  BY <1>2, EraseSteps
<1>3. CASE chore = Tail(Tail(Erasure)) /\ (Readable => idFile.user \in resisted)
  BY <1>3, EraseSteps
<1> QED BY <1>1, <1>2, <1>3 DEF KeptInv, ChoreInOrder

LEMMA SameIdentityKeeps ==
    ASSUME KeptInv, UNCHANGED <<idFile, made, erased, resisted>>, ChoreInOrder'
    PROVE  KeptInv'
BY DEF KeptInv, FileWhole, Readable

LEMMA SameKeptKeeps ==
    ASSUME KeptInv, UNCHANGED <<idFile, made, erased, resisted, chore>>
    PROVE  KeptInv'
<1>1. Registration' = Registration
  BY DEF Registration
<1>2. ChoreInOrder'
  BY <1>1 DEF KeptInv, ChoreInOrder, Readable
<1> QED BY <1>2, SameIdentityKeeps

LEMMA RegisterKeeps ==
    ASSUME KeptInv, NEW pin \in Pins, NEW duress \in Pins, Register(pin, duress)
    PROVE  KeptInv'
<1>1. /\ made' = made + 1 /\ chore' = Steps(made + 1, pin, duress)
      /\ UNCHANGED <<idFile, erased, resisted>> /\ made < MaxUsers /\ Allowed(pin, duress)
  BY DEF Register
<1>2. made + 1 \in Users /\ made + 1 \notin erased /\ made \in Nat
  BY <1>1, IdentityAssumption DEF KeptInv, Users
<1> DEFINE names == <<"draft", "replace", "profile", "settings", "connect">>
<1>3. \A i \in 1..5 : names[i] \in {"draft", "replace", "profile", "settings", "connect"}
  OBVIOUS
<1> HIDE DEF names
<1>4. \A i \in 1..5 : [step |-> names[i], user |-> made + 1, unlock |-> pin, duress |-> duress]
                        \in Registration'
  BY <1>1, <1>2, <1>3 DEF Registration
<1>5. Steps(made + 1, pin, duress) =
        [i \in 1..5 |-> [step |-> names[i], user |-> made + 1, unlock |-> pin, duress |-> duress]]
  BY DEF Steps, names
<1>6. chore' \in Seq(Registration')
  <2> HIDE DEF Registration
  <2>1. chore' \in [1..5 -> Registration']
    BY <1>1, <1>4, <1>5
  <2>2. ASSUME NEW R, NEW n \in Nat, NEW c \in [1..n -> R] PROVE c \in Seq(R)
    OBVIOUS
  <2> QED BY <2>1, <2>2
<1>7. FileWhole'
  BY <1>1, <1>2 DEF KeptInv, FileWhole, Readable, Users
<1> QED BY <1>1, <1>2, <1>6, <1>7 DEF KeptInv, ChoreInOrder

LEMMA RegistrationSteps ==
    ASSUME KeptInv, WriteFile \/ ConnectFirst
    PROVE  KeptInv'
<1>1. /\ chore # <<>> /\ Head(chore).step \in {"draft", "profile", "settings", "connect"}
      /\ chore' = Tail(chore) /\ UNCHANGED <<idFile, made, erased, resisted>>
  BY DEF WriteFile, ConnectFirst, AtStep, StepDone
<1>2. Tail(chore) \in Seq(Registration)
  BY <1>1, RestOfChore
<1>3. Registration' = Registration
  BY <1>1 DEF Registration
<1>4. ChoreInOrder'
  BY <1>1, <1>2, <1>3 DEF ChoreInOrder
<1> QED BY <1>1, <1>4, SameIdentityKeeps

LEMMA ReplaceKeeps ==
    ASSUME KeptInv, ReplaceIdentity
    PROVE  KeptInv'
<1>1. /\ chore # <<>> /\ Head(chore).step = "replace"
      /\ chore' = Tail(chore) /\ UNCHANGED <<made, erased, resisted>>
      /\ idFile' = [user |-> chore[1].user, unlock |-> chore[1].unlock,
                    duress |-> chore[1].duress]
  BY DEF ReplaceIdentity, AtStep, StepDone
<1>2. chore[1] \in Registration /\ Tail(chore) \in Seq(Registration)
  BY <1>1, RestOfChore
<1>3. Registration' = Registration
  BY <1>1 DEF Registration
<1>4. ChoreInOrder'
  BY <1>1, <1>2, <1>3 DEF ChoreInOrder
<1>5. /\ idFile' \in [user : Users, unlock : Pins, duress : Pins \cup {NoPin}]
      /\ idFile'.user <= made /\ idFile'.user \notin erased
      /\ idFile'.duress \in Pins /\ Allowed(idFile'.unlock, idFile'.duress)
  BY <1>1, <1>2 DEF Registration
<1>6. FileWhole'
  BY <1>1, <1>5 DEF FileWhole
<1> QED BY <1>1, <1>4, <1>6 DEF KeptInv

LEMMA UnlockKeeps ==
    ASSUME KeptInv, NEW pin, UnlockPin(pin)
    PROVE  KeptInv' /\ ErasedRule
<1>1. KeptInv'
  BY SameKeptKeeps DEF UnlockPin
<1>2. known' = idFile.user /\ Readable
  BY DEF UnlockPin, Opens
<1> QED BY <1>1, <1>2 DEF KeptInv, FileWhole, ErasedRule

LEMMA StartErasingKeeps ==
    ASSUME KeptInv, NEW steps \in ToErase, StartErasing(steps)
    PROVE  KeptInv'
BY SameIdentityKeeps DEF StartErasing, ChoreInOrder

LEMMA NotifyKeeps ==
    ASSUME KeptInv, Notify
    PROVE  KeptInv'
<1>1. /\ chore # <<>> /\ Head(chore).step = "notify"
      /\ chore' = Tail(chore) /\ UNCHANGED <<idFile, made, erased, resisted>>
  BY DEF Notify, AtStep, StepDone
<1>2. Tail(chore) = Erasure
  BY <1>1, RestOfChore
<1>3. ChoreInOrder'
  BY <1>1, <1>2 DEF ChoreInOrder, ToErase
<1> QED BY <1>1, <1>3, SameIdentityKeeps

LEMMA OverwriteKeeps ==
    ASSUME KeptInv, Overwrite
    PROVE  KeptInv'
<1>1. /\ chore # <<>> /\ Head(chore).step = "overwrite"
      /\ chore' = Tail(chore) /\ made' = made
      /\ erased' = IF Readable THEN erased \cup {idFile.user} ELSE erased
      /\ idFile' \in {NoFile, Garbage}
  BY DEF Overwrite, AtStep, StepDone, Touched
<1>2. Tail(chore) = Tail(Erasure)
  BY <1>1, RestOfChore
<1>3. ChoreInOrder'
  BY <1>1, <1>2 DEF ChoreInOrder, ToErase
<1>4. \A u \in erased' : u \in Nat /\ u <= made
  BY <1>1 DEF KeptInv, FileWhole, Users
<1>5. FileWhole'
  BY <1>1 DEF FileWhole, Readable
<1> QED BY <1>1, <1>3, <1>4, <1>5 DEF KeptInv

LEMMA RemoveIdentityKeeps ==
    ASSUME KeptInv, RemoveIdentity
    PROVE  KeptInv'
<1>1. /\ chore # <<>> /\ Head(chore).step = "remove"
      /\ chore' = Tail(chore) /\ made' = made /\ idFile' = NoFile
      /\ erased' = IF Readable THEN erased \cup {idFile.user} ELSE erased
  BY DEF RemoveIdentity, AtStep, StepDone, Touched
<1>2. Tail(chore) = Tail(Tail(Erasure))
  BY <1>1, RestOfChore
<1>3. ChoreInOrder' /\ FileWhole'
  BY <1>1, <1>2 DEF ChoreInOrder, FileWhole, Readable
<1>4. \A u \in erased' : u \in Nat /\ u <= made
  BY <1>1 DEF KeptInv, FileWhole, Users
<1> QED BY <1>1, <1>3, <1>4 DEF KeptInv

(* A step that fails leaves the file as it is; one that can still be read   *)
(* after both is known to have resisted.                                    *)
LEMMA FailuresKeep ==
    ASSUME KeptInv, OverwriteFails \/ RemoveFails
    PROVE  KeptInv'
<1>1. CASE OverwriteFails
  <2>1. /\ chore # <<>> /\ Head(chore).step = "overwrite"
        /\ chore' = Tail(chore) /\ UNCHANGED <<idFile, made, erased, resisted>>
    BY <1>1 DEF OverwriteFails, AtStep, StepDone
  <2>2. Tail(chore) = Tail(Erasure)
    BY <2>1, RestOfChore
  <2>3. ChoreInOrder'
    BY <2>1, <2>2 DEF ChoreInOrder, ToErase
  <2> QED BY <2>1, <2>3, SameIdentityKeeps
<1>2. CASE RemoveFails
  <2>1. /\ chore # <<>> /\ Head(chore).step = "remove"
        /\ chore' = Tail(chore) /\ UNCHANGED <<idFile, made, erased>>
        /\ resisted' = IF Readable THEN resisted \cup {idFile.user} ELSE resisted
    BY <1>2 DEF RemoveFails, AtStep, StepDone
  <2>2. Tail(chore) = Tail(Tail(Erasure))
    BY <2>1, RestOfChore
  <2>3. ChoreInOrder' /\ FileWhole'
    BY <2>1, <2>2 DEF KeptInv, ChoreInOrder, FileWhole, Readable
  <2> QED BY <2>1, <2>3 DEF KeptInv
<1> QED BY <1>1, <1>2

LEMMA EraseRestKeeps ==
    ASSUME KeptInv, NEW kept, EraseRest(kept)
    PROVE  KeptInv'
<1>1. /\ chore # <<>> /\ Head(chore).step = "rest"
      /\ chore' = Tail(chore) /\ UNCHANGED <<made, idFile, resisted>>
      /\ erased' = IF Readable THEN erased \cup {idFile.user} ELSE erased
  BY DEF EraseRest, AtStep, StepDone, Touched
<1>2. Tail(chore) = <<>> /\ (Readable => idFile.user \in resisted)
  BY <1>1, RestOfChore
<1>3. ChoreInOrder'
  <2>1. \A R : <<>> \in Seq(R)
    OBVIOUS
  <2>2. chore' = <<>>
    BY <1>1, <1>2
  <2>3. chore' \in Seq(Registration')
    BY <2>1, <2>2
  <2> QED BY <2>3 DEF ChoreInOrder
<1>4. FileWhole'
  BY <1>1, <1>2 DEF KeptInv, FileWhole, Readable
<1>5. \A u \in erased' : u \in Nat /\ u <= made
  BY <1>1 DEF KeptInv, FileWhole, Users
<1> QED BY <1>1, <1>3, <1>4, <1>5 DEF KeptInv

LEMMA CloseKeeps ==
    ASSUME KeptInv, CloseWindow
    PROVE  KeptInv'
BY SameIdentityKeeps DEF CloseWindow, ChoreInOrder

LEMMA DuressKeeps ==
    ASSUME KeptInv, NEW pin \in Pins, NEW duress \in Pins,
           SetDuress(pin, duress) \/ ClearDuress(pin)
    PROVE  KeptInv'
<1>1. Readable /\ pin = idFile.unlock /\ UNCHANGED <<chore, made, erased, resisted>>
  BY DEF SetDuress, ClearDuress, Opens
<1>2. PICK second \in Pins \cup {NoPin} :
        /\ idFile' = [idFile EXCEPT !.duress = second]
        /\ second # NoPin => second \in Pins /\ Allowed(pin, second)
  BY DEF SetDuress, ClearDuress
<1>3. Registration' = Registration
  BY <1>1 DEF Registration
<1>4. FileWhole'
  BY <1>1, <1>2 DEF KeptInv, FileWhole
<1>5. ChoreInOrder'
  <2>1. chore = <<>>
    BY DEF SetDuress, ClearDuress, Idle
  <2> QED BY <1>1, <2>1 DEF ChoreInOrder
<1> QED BY <1>1, <1>4, <1>5 DEF KeptInv

LEMMA IdentityStepsKeep ==
    ASSUME KeptInv, [IdentityNext]_identityVars
    PROVE  KeptInv' /\ ErasedRule
<1>1. ASSUME NEW pin \in Pins, UnlockPin(pin)
      PROVE  KeptInv' /\ ErasedRule
  BY <1>1, UnlockKeeps
<1>2. ASSUME NEW pin \in Pins, NEW duress \in Pins, Register(pin, duress)
      PROVE  KeptInv' /\ ErasedRule
  BY <1>2, RegisterKeeps DEF Register, ErasedRule
<1>3. ASSUME NEW pin \in Pins, NEW duress \in Pins,
             SetDuress(pin, duress) \/ ClearDuress(pin)
      PROVE  KeptInv' /\ ErasedRule
  BY <1>3, DuressKeeps DEF SetDuress, ClearDuress, ErasedRule
<1>4. ASSUME NEW pin \in Pins, DuressPin(pin)
      PROVE  KeptInv' /\ ErasedRule
  BY <1>4, StartErasingKeeps DEF DuressPin, ToErase, StartErasing, ErasedRule
<1>5. ASSUME NEW pin \in Pins, NEW confirmed \in BOOLEAN, WrongPin(pin, confirmed)
      PROVE  KeptInv' /\ ErasedRule
  <2>1. CASE StartErasing(Erasure)
    BY <2>1, StartErasingKeeps DEF ToErase, StartErasing, ErasedRule
  <2>2. CASE UNCHANGED <<idFile, files, screen, chore, known, made, erased, resisted>>
    BY <2>2, SameKeptKeeps DEF ErasedRule
  <2> QED BY <1>5, <2>1, <2>2 DEF WrongPin
<1>6. ASSUME NEW kept \in SUBSET files, EraseRest(kept)
      PROVE  KeptInv' /\ ErasedRule
  BY <1>6, EraseRestKeeps DEF EraseRest, ErasedRule
<1>7. CASE WriteFile \/ ConnectFirst
  BY <1>7, RegistrationSteps DEF WriteFile, ConnectFirst, ErasedRule
<1>8. CASE ReplaceIdentity
  BY <1>8, ReplaceKeeps DEF ReplaceIdentity, ErasedRule
<1>9. CASE Notify
  BY <1>9, NotifyKeeps DEF Notify, ErasedRule
<1>10. CASE Overwrite
  BY <1>10, OverwriteKeeps DEF Overwrite, ErasedRule
<1>11. CASE RemoveIdentity
  BY <1>11, RemoveIdentityKeeps DEF RemoveIdentity, ErasedRule
<1>15. CASE OverwriteFails \/ RemoveFails
  BY <1>15, FailuresKeep DEF OverwriteFails, RemoveFails, ErasedRule
<1>12. CASE CloseWindow
  BY <1>12, CloseKeeps DEF CloseWindow, ErasedRule
<1>13. CASE StartClient
  BY <1>13, SameKeptKeeps DEF StartClient, ErasedRule
<1>14. CASE UNCHANGED identityVars
  BY <1>14, SameKeptKeeps DEF identityVars, ErasedRule
<1> QED
  BY <1>1, <1>2, <1>3, <1>4, <1>5, <1>6, <1>7, <1>8, <1>9, <1>10, <1>11, <1>12, <1>13, <1>14, <1>15, Zenon
     DEF IdentityNext

LEMMA IdentityStarts == IdentityInit => KeptInv
BY DEF IdentityInit, KeptInv, ChoreInOrder, FileWhole, Readable

(* Once an erasure has touched an identity, nobody comes into its main      *)
(* window again: its file is the first to go, a file still readable is one  *)
(* no erasure has touched or one that could neither be overwritten nor      *)
(* removed, whatever ended and started again in between.                    *)
THEOREM ErasedIsShut == IdentitySpec => ErasedStaysShut
<1>1. KeptInv /\ [IdentityNext]_identityVars
        => KeptInv' /\ [screen' = "main" /\ screen # "main" => known' \notin erased \ resisted]_identityVars
  BY IdentityStepsKeep DEF ErasedRule
<1> QED BY IdentityStarts, <1>1, PTL DEF IdentitySpec, ErasedStaysShut

(* Whoever tries the pins in ascending or in descending order meets one     *)
(* that erases before the one that opens, for every base and every length:  *)
(* two pins of one length with one value are one pin.                       *)
THEOREM SearchIsMet == IdentitySpec => []SearchMeetsTrigger
<1>1. KeptInv => SearchMeetsTrigger
  <2> SUFFICES ASSUME KeptInv, Readable, idFile.duress # NoPin
               PROVE  LET Meets == {Value(p) : p \in {idFile.duress, Reverse(idFile.unlock)}}
                      IN  /\ \E v \in Meets : v < Value(idFile.unlock)
                          /\ \E v \in Meets : v > Value(idFile.unlock)
    BY DEF SearchMeetsTrigger
  <2>1. idFile.unlock \in Pins /\ idFile.duress \in Pins
        /\ Allowed(idFile.unlock, idFile.duress)
    BY DEF KeptInv, FileWhole
  <2> QED BY <2>1, TwoSides
<1>2. KeptInv /\ [IdentityNext]_identityVars => KeptInv'
  BY IdentityStepsKeep
<1> QED BY IdentityStarts, <1>1, <1>2, PTL DEF IdentitySpec

-----------------------------------------------------------------------------
(* Conversations: what is deleted for having been read. *)

(* What is burnt was asked for, or goes with the conversation of a contact   *)
(* for whom a deletion raised.                                              *)
LEMMA BurnsSafe ==
    ASSUME NEW c, NEW ids, NEW b \in Burns(c, ids)
    PROVE  b.gone \subseteq ids \cup UNION {Of(x) : x \in b.raised}
<1>1. CASE b = Burning({}, {})
  BY <1>1 DEF Burning
<1>2. CASE b = Burning(ids, {})
  BY <1>2 DEF Burning
<1>3. CASE \E some \in SUBSET ids, all \in {{}, Of(c)} : b = Burning(some \cup all, {c})
  <2>1. PICK some \in SUBSET ids, all \in {{}, Of(c)} : b = Burning(some \cup all, {c})
    BY <1>3
  <2>2. b.gone = some \cup all /\ b.raised = {c}
    BY <2>1 DEF Burning
  <2>3. UNION {Of(x) : x \in b.raised} = Of(c)
    BY <2>2
  <2> QED BY <2>1, <2>2, <2>3
<1> QED BY <1>1, <1>2, <1>3 DEF Burns

BurntIsSeen == burnt' \ burnt \subseteq seen' \cup UNION {Of(c) : c \in raised'}

LEMMA ReadingSeen ==
    ASSUME NEW item, NEW part, NEW reached, SeePart(item, part, reached)
    PROVE  BurntIsSeen
<1> DEFINE now == [item EXCEPT !.head = @ \/ part = "head", !.tail = @ \/ part = "tail"]
<1>1. /\ seen' = IF now.head /\ now.tail THEN seen \cup {item.row} ELSE seen
      /\ IF now.head /\ now.tail /\ reached THEN Told(current, item)
                                            ELSE UNCHANGED <<sentFor, burnt, raised, rows>>
  BY DEF SeePart
<1> HIDE DEF now
<1>2. CASE now.head /\ now.tail /\ reached
  <2>1. PICK ids : ids = (IF item.by = "server" THEN {item.row} \cap DOMAIN rows ELSE {})
    OBVIOUS
  <2>2. PICK b \in Burns(current, ids) : burnt' = burnt \cup b.gone /\ raised' = b.raised
    BY <1>1, <1>2, <2>1 DEF Told
  <2>3. ids \subseteq seen'
    BY <1>1, <1>2, <2>1
  <2>4. b.gone \subseteq ids \cup UNION {Of(x) : x \in b.raised}
    BY BurnsSafe
  <2> QED BY <2>2, <2>3, <2>4 DEF BurntIsSeen
<1>3. CASE ~(now.head /\ now.tail /\ reached)
  BY <1>1, <1>3 DEF BurntIsSeen
<1> QED BY <1>2, <1>3

LEMMA MarkingSeen ==
    ASSUME NEW c, NEW reached, MarkAllRead(c, reached)
    PROVE  BurntIsSeen
<1> DEFINE unread == {i \in Received(c) : rows[i].status # "read"}
           First == IF reached /\ current # Nothing THEN Burns(current, unread)
                    ELSE {Burning({}, {})}
<1>1. seen' = seen \cup unread
  BY Zenon DEF MarkAllRead
<1>2. PICK b \in First, d \in Burns(c, unread) :
          burnt' = burnt \cup b.gone \cup d.gone /\ raised' = b.raised \cup d.raised
  BY Zenon DEF MarkAllRead
<1>3. d.gone \subseteq unread \cup UNION {Of(x) : x \in d.raised}
  BY BurnsSafe
<1>4. b.gone \subseteq unread \cup UNION {Of(x) : x \in b.raised}
  <2>1. CASE b \in Burns(current, unread)
    BY <2>1, BurnsSafe
  <2>2. CASE b = Burning({}, {})
    BY <2>2 DEF Burning
  <2> QED BY <2>1, <2>2
<1> HIDE DEF unread, First
<1>5. /\ UNION {Of(x) : x \in b.raised} \subseteq UNION {Of(x) : x \in raised'}
      /\ UNION {Of(x) : x \in d.raised} \subseteq UNION {Of(x) : x \in raised'}
  BY <1>2
<1>6. burnt' \ burnt \subseteq b.gone \cup d.gone
  BY <1>2
<1> QED BY <1>1, <1>3, <1>4, <1>5, <1>6 DEF BurntIsSeen

LEMMA ConversationSteps ==
    ASSUME [ConversationsNext]_conversationVars
    PROVE  BurntIsSeen
<1> USE DEF windowVars, tableVars
<1>1. ASSUME NEW c \in Contacts,
             DropUnknown(c) \/ StoreArrival(c) \/ Choose(c) \/ DeleteChat(c) \/ DeleteContact(c)
      PROVE  BurntIsSeen
  BY <1>1 DEF BurntIsSeen, DropUnknown, StoreArrival, Choose, DeleteChat, DeleteContact
<1>2. ASSUME NEW i \in DOMAIN rows, NEW status, DeliveryReceipt(i, status)
      PROVE  BurntIsSeen
  BY <1>2 DEF BurntIsSeen, DeliveryReceipt
<1>3. CASE CompareCurrent \/ DisplayArrival \/ Load \/ MarkRead \/ SendText \/ ShowResults
  BY <1>3 DEF BurntIsSeen, CompareCurrent, DisplayArrival, Load, MarkRead, SendText,
              ShowResults
<1>4. CASE UNCHANGED conversationVars
  BY <1>4 DEF BurntIsSeen, conversationVars
<1> QED
  BY <1>1, <1>2, <1>3, <1>4, ReadingSeen, MarkingSeen DEF ConversationsNext

(* Nothing is deleted for having been read that was not shown from head to  *)
(* tail or marked by the menu, but with the conversation of a contact for   *)
(* whom a deletion raised: whichever window is open when the receipt goes   *)
(* out, whatever the connection's thread stores meanwhile, for every number *)
(* of contacts and of rows.                                                 *)
THEOREM OnlySeenGoes == ConversationsSpec => OnlySeenIsBurnt
<1>1. [ConversationsNext]_conversationVars => [BurntIsSeen]_conversationVars
  BY ConversationSteps
<1>2. ConversationsSpec => [][BurntIsSeen]_conversationVars
  BY <1>1, PTL DEF ConversationsSpec
<1>3. [BurntIsSeen]_conversationVars <=>
      [burnt' \ burnt \subseteq seen' \cup UNION {Of(c) : c \in raised'}]_conversationVars
  BY DEF BurntIsSeen
<1> QED BY <1>2, <1>3, PTL DEF OnlySeenIsBurnt

-----------------------------------------------------------------------------
(* DirectConnect: the search for a gateway among the peers. *)

(* Whoever a search starts from is among those it reaches. *)
LEMMA BallHolds ==
    ASSUME NEW said, NEW set, NEW n \in Nat
    PROVE  set \subseteq Ball(said, set, n)
<1> DEFINE More(s) == s \cup {b \in Near : \E a \in s : Linked(said, a, b)}
           Next(f, i) == IF i = 0 THEN set ELSE More(f[i-1])
           Chained(f, k) == f = [i \in 0..k |-> Next(f, i)]
           Bad == {k \in 0 .. n : ~ \E f : Chained(f, k)}
<1>1. Bad = {}
  <2> SUFFICES ASSUME Bad # {} PROVE FALSE
    OBVIOUS
  <2>1. PICK k \in Bad : \A j \in Bad : k <= j
    <3>1. Bad \subseteq Nat
      OBVIOUS
    <3> QED BY <3>1, LeastNat
  <2>2. k # 0
    <3>1. Chained([i \in 0..0 |-> set], 0)
      OBVIOUS
    <3> QED BY <3>1
  <2>3. k - 1 \in 0 .. n /\ k - 1 \notin Bad /\ k \in Nat \ {0}
    <3>1. k \in 0 .. n
      OBVIOUS
    <3> HIDE DEF Bad
    <3> QED BY <2>1, <2>2, <3>1
  <2>4. PICK f : Chained(f, k - 1)
    BY <2>3
  <2> DEFINE g == [i \in 0..k |-> IF i < k THEN f[i] ELSE More(f[k-1])]
  <2>5. \A i \in 0..k : g[i] = Next(g, i)
    <3> SUFFICES ASSUME NEW i \in 0..k PROVE g[i] = Next(g, i)
      OBVIOUS
    <3> HIDE DEF More
    <3>1. CASE i = k
      BY <3>1, <2>3
    <3>2. CASE i # k
      <4>1. i \in 0 .. k-1 /\ g[i] = f[i] /\ (i # 0 => i-1 \in 0..k /\ g[i-1] = f[i-1])
        BY <3>2, <2>3
      <4>2. f[i] = Next(f, i)
        BY <2>4, <4>1
      <4> QED BY <4>1, <4>2
    <3> QED BY <3>1, <3>2
  <2>6. Chained(g, k)
    <3> HIDE DEF More
    <3> QED BY <2>5
  <2> QED BY <2>1, <2>6
<1>2. \E f : Chained(f, n)
  <2>1. n \in 0 .. n
    OBVIOUS
  <2> HIDE DEF Chained
  <2> QED BY <1>1, <2>1
<1> DEFINE B == CHOOSE f : Chained(f, n)
<1>3. Chained(B, n)
  BY <1>2
<1>4. Ball(said, set, n) = B[n]
  BY DEF Ball
<1> HIDE DEF B
<1> DEFINE Lost == {i \in 0 .. n : ~(set \subseteq B[i])}
<1>5. Lost = {}
  <2> SUFFICES ASSUME Lost # {} PROVE FALSE
    OBVIOUS
  <2>1. PICK k \in Lost : \A j \in Lost : k <= j
    <3>1. Lost \subseteq Nat
      OBVIOUS
    <3> QED BY <3>1, LeastNat
  <2>2. k \in 0 .. n /\ B[k] = Next(B, k)
    BY <1>3
  <2>3. k # 0
    BY <2>1, <2>2
  <2>4. k - 1 \in 0 .. n /\ k - 1 \notin Lost
    <3> HIDE DEF Lost
    <3> QED BY <2>1, <2>2, <2>3
  <2>5. set \subseteq B[k-1] /\ B[k-1] \subseteq B[k]
    BY <2>2, <2>3, <2>4
  <2> QED BY <2>1, <2>5
<1> QED BY <1>4, <1>5

LEMMA PeersReachable ==
    ASSUME NEW said
    PROVE  DOMAIN peers \subseteq Reachable(said)
BY BallHolds, FS_CardinalityType, DirectAssumption DEF Reachable

-----------------------------------------------------------------------------

Restless == {"visit", "note", "heard"}
Afterwards == {NoCall, Locking} \cup [at : {"find"}, want : Wanted, relaying : BOOLEAN]

CallsTyped ==
    /\ call = [c \in Callers |-> call[c]]
    /\ \A c \in Callers :
         /\ "at" \in DOMAIN call[c]
         /\ call[c].at = "visit" =>
              /\ {"rest", "found", "old"} \subseteq DOMAIN call[c]
              /\ call[c].next \in Afterwards

(* What a search will have found is right of every peer that has an access  *)
(* and was not changed by a message while it ran: those it has looked at    *)
(* are as they were, whoever else came or went has none.                    *)
SearchInv ==
    \A c \in Callers : call[c].at = "visit" =>
        /\ call[c].found \cap call[c].rest = {}
        /\ \A p \in DOMAIN peers : peers[p].can # {} =>
              \/ p \in call[c].rest \cup call[c].old
              \/ p \in call[c].found <=> IsGatewayNow(p)

Pending == \E c \in Callers : call[c].at \in Restless
Current == \A p \in DOMAIN peers \ unsettled :
               p \in gateways /\ peers[p].can # {} <=> IsGatewayNow(p)

DirectInv == CallsTyped /\ SearchInv /\ (~Pending => Current)

LEMMA AfterwardsCalm ==
    ASSUME NEW v \in Afterwards
    PROVE  "at" \in DOMAIN v /\ v.at \notin Restless
BY DEF Afterwards, NoCall, Locking, Restless

(* A step of a call that neither searches nor has a search before it. *)
LEMMA CalmStepKeeps ==
    ASSUME DirectInv, NEW c \in Callers, call[c].at \notin Restless,
           NEW v, "at" \in DOMAIN v, v.at \notin Restless,
           call' = [call EXCEPT ![c] = v], UNCHANGED <<peers, gateways, unsettled>>
    PROVE  DirectInv'
<1>1. /\ call' = [d \in Callers |-> call'[d]]
      /\ \A d \in Callers : call'[d] = IF d = c THEN v ELSE call[d]
  BY DEF DirectInv, CallsTyped
<1>2. CallsTyped'
  BY <1>1 DEF DirectInv, CallsTyped, Restless
<1>3. \A p : IsGatewayNow(p)' = IsGatewayNow(p)
  BY DEF IsGatewayNow
<1>4. SearchInv'
  BY <1>1, <1>3 DEF DirectInv, SearchInv, Restless
<1>5. Pending' <=> Pending
  BY <1>1 DEF Pending
<1>6. Current' <=> Current
  BY <1>3 DEF Current
<1> QED BY <1>2, <1>4, <1>5, <1>6 DEF DirectInv

LEMMA ChangedCalls ==
    ASSUME CallsTyped, NEW p
    PROVE  /\ Changed(p) = [d \in Callers |-> Changed(p)[d]]
           /\ \A d \in Callers :
                 /\ Changed(p)[d].at = call[d].at /\ "at" \in DOMAIN Changed(p)[d]
                 /\ call[d].at = "visit" =>
                      /\ {"rest", "found", "old"} \subseteq DOMAIN Changed(p)[d]
                      /\ Changed(p)[d].next = call[d].next
                      /\ Changed(p)[d].rest = call[d].rest /\ Changed(p)[d].found = call[d].found
                      /\ Changed(p)[d].old = call[d].old \cup {p}
BY DEF CallsTyped, Changed

LEMMA SnapshotKeeps ==
    ASSUME DirectInv, NEW c \in Callers, NEW said, NEW next \in Afterwards,
           Snapshot(c, Reachable(said), next), peers' = peers
    PROVE  DirectInv'
<1> DEFINE v == [at |-> "visit", rest |-> Reachable(said), found |-> {}, old |-> {}, next |-> next]
<1>1. call' = [call EXCEPT ![c] = v]
  BY DEF Snapshot
<1>2. /\ v.at = "visit" /\ v.rest = Reachable(said) /\ v.found = {} /\ v.next = next
      /\ v.old = {} /\ {"at", "rest", "found", "old"} \subseteq DOMAIN v
  OBVIOUS
<1> HIDE DEF v
<1>3. /\ call' = [d \in Callers |-> call'[d]]
      /\ \A d \in Callers : call'[d] = IF d = c THEN v ELSE call[d]
  BY <1>1 DEF DirectInv, CallsTyped
<1>4. CallsTyped'
  BY <1>2, <1>3 DEF DirectInv, CallsTyped
<1>5. \A q : IsGatewayNow(q)' = IsGatewayNow(q)
  BY DEF IsGatewayNow
<1>6. SearchInv'
  BY <1>2, <1>3, <1>5, PeersReachable DEF DirectInv, SearchInv
<1>7. Pending'
  BY <1>2, <1>3 DEF Pending, Restless
<1> QED BY <1>4, <1>6, <1>7 DEF DirectInv

(* A message changes one peer, which the searches under way are told.       *)
LEMMA ChangingKeeps ==
    ASSUME DirectInv, NEW c \in Callers, call[c].at # "visit", NEW v, "at" \in DOMAIN v,
           v.at # "visit", NEW p, call' = [Changed(p) EXCEPT ![c] = v],
           DOMAIN peers' = DOMAIN peers, \A q \in DOMAIN peers \ {p} : peers'[q] = peers[q]
    PROVE  CallsTyped' /\ SearchInv'
<1>1. /\ call' = [d \in Callers |-> call'[d]]
      /\ \A d \in Callers : call'[d] = IF d = c THEN v ELSE Changed(p)[d]
  BY ChangedCalls DEF DirectInv
<1>2. CallsTyped'
  BY <1>1, ChangedCalls DEF DirectInv, CallsTyped
<1>3. \A q \in DOMAIN peers \ {p} : IsGatewayNow(q)' <=> IsGatewayNow(q)
  BY DEF IsGatewayNow
<1>4. SearchInv'
  <2> SUFFICES ASSUME NEW d \in Callers, call'[d].at = "visit"
               PROVE  /\ call'[d].found \cap call'[d].rest = {}
                      /\ \A q \in DOMAIN peers' : peers'[q].can # {} =>
                            \/ q \in call'[d].rest \cup call'[d].old
                            \/ q \in call'[d].found <=> IsGatewayNow(q)'
    BY DEF SearchInv
  <2>1. /\ call[d].at = "visit" /\ call'[d].rest = call[d].rest /\ call'[d].found = call[d].found
        /\ call'[d].old = call[d].old \cup {p}
    BY <1>1, ChangedCalls DEF DirectInv
  <2>2. /\ call[d].found \cap call[d].rest = {}
        /\ \A q \in DOMAIN peers : peers[q].can # {} =>
              \/ q \in call[d].rest \cup call[d].old
              \/ q \in call[d].found <=> IsGatewayNow(q)
    BY <2>1 DEF DirectInv, SearchInv
  <2> QED BY <2>1, <2>2, <1>3
<1> QED BY <1>2, <1>4

LEMMA VisitKeeps ==
    ASSUME DirectInv, NEW c \in Callers, Visit(c)
    PROVE  DirectInv'
<1>1. call[c].at = "visit" /\ UNCHANGED <<peers, gateways, unsettled>>
  BY DEF Visit
<1>2. PICK p \in call[c].rest :
         call' = [call EXCEPT ![c].rest = @ \ {p},
                              ![c].found = IF IsGatewayNow(p) THEN @ \cup {p} ELSE @]
  BY DEF Visit
<1> DEFINE old == call[c]
           new == [[old EXCEPT !.rest = old.rest \ {p}]
                      EXCEPT !.found = IF IsGatewayNow(p) THEN old.found \cup {p} ELSE old.found]
<1>3. /\ "at" \in DOMAIN old /\ {"rest", "found", "old"} \subseteq DOMAIN old
      /\ old.next \in Afterwards /\ old.at = "visit"
  BY <1>1 DEF DirectInv, CallsTyped
<1>4. /\ new.at = "visit" /\ new.rest = old.rest \ {p} /\ new.next = old.next
      /\ new.found = (IF IsGatewayNow(p) THEN old.found \cup {p} ELSE old.found)
      /\ new.old = old.old /\ DOMAIN new = DOMAIN old
  BY <1>3
<1>5. /\ call' = [d \in Callers |-> call'[d]]
      /\ \A d \in Callers : call'[d] = IF d = c THEN new ELSE call[d]
  BY <1>2, <1>3 DEF DirectInv, CallsTyped
<1> HIDE DEF new
<1>6. CallsTyped'
  BY <1>3, <1>4, <1>5 DEF DirectInv, CallsTyped
<1>7. \A q : IsGatewayNow(q)' = IsGatewayNow(q)
  BY <1>1 DEF IsGatewayNow
<1>8. SearchInv'
  <2> SUFFICES ASSUME NEW d \in Callers, call'[d].at = "visit"
               PROVE  /\ call'[d].found \cap call'[d].rest = {}
                      /\ \A q \in DOMAIN peers' : peers'[q].can # {} =>
                            \/ q \in call'[d].rest \cup call'[d].old
                            \/ q \in call'[d].found <=> IsGatewayNow(q)'
    BY DEF SearchInv
  <2>1. CASE d # c
    BY <1>1, <1>5, <1>7, <2>1 DEF DirectInv, SearchInv
  <2>2. CASE d = c
    <3>1. old.found \cap old.rest = {}
          /\ \A q \in DOMAIN peers : peers[q].can # {} =>
                \/ q \in old.rest \cup old.old
                \/ q \in old.found <=> IsGatewayNow(q)
      BY <1>1 DEF DirectInv, SearchInv
    <3>2. new.found \cap new.rest = {}
      BY <1>4, <3>1
    <3>3. \A q \in DOMAIN peers : peers[q].can # {} =>
             \/ q \in new.rest \cup new.old
             \/ q \in new.found <=> IsGatewayNow(q)
      BY <1>2, <1>4, <3>1
    <3> QED BY <1>1, <1>5, <1>7, <2>2, <3>2, <3>3
  <2> QED BY <2>1, <2>2
<1>9. Pending'
  BY <1>4, <1>5 DEF Pending, Restless
<1> QED BY <1>6, <1>8, <1>9 DEF DirectInv

LEMMA PublishKeeps ==
    ASSUME DirectInv, NEW c \in Callers, Publish(c)
    PROVE  DirectInv'
<1> DEFINE v == call[c].next
<1>1. /\ call[c].at = "visit" /\ call[c].rest = {} /\ gateways' = call[c].found
      /\ unsettled' = call[c].old /\ call' = [call EXCEPT ![c] = v] /\ peers' = peers
  BY DEF Publish
<1>2. v \in Afterwards
  BY <1>1 DEF DirectInv, CallsTyped
<1>3. "at" \in DOMAIN v /\ v.at \notin Restless
  BY <1>2, AfterwardsCalm
<1>4. /\ call' = [d \in Callers |-> call'[d]]
      /\ \A d \in Callers : call'[d] = IF d = c THEN v ELSE call[d]
  BY <1>1 DEF DirectInv, CallsTyped
<1> HIDE DEF v
<1>5. CallsTyped'
  BY <1>3, <1>4 DEF DirectInv, CallsTyped, Restless
<1>6. \A q : IsGatewayNow(q)' = IsGatewayNow(q)
  BY <1>1 DEF IsGatewayNow
<1>7. SearchInv'
  BY <1>1, <1>3, <1>4, <1>6 DEF DirectInv, SearchInv, Restless
<1>8. Current'
  BY <1>1, <1>6 DEF DirectInv, SearchInv, Current, IsGatewayNow
<1> QED BY <1>5, <1>7, <1>8 DEF DirectInv

(* A peer that is entered says nothing yet, and one that is removed nothing *)
(* any more.                                                                *)
LEMMA MembersKeep ==
    ASSUME DirectInv, UNCHANGED <<gateways, call, unsettled>>,
           \/ \E p : Announcement(p)
           \/ \E gone : RemovePeers(gone)
    PROVE  DirectInv'
<1>1. ASSUME NEW q \in DOMAIN peers'
      PROVE  \/ /\ q \in DOMAIN peers /\ peers'[q] = peers[q]
                /\ IsGatewayNow(q)' <=> IsGatewayNow(q)
             \/ peers'[q].can = {} /\ ~IsGatewayNow(q)'
  <2>1. (q \in DOMAIN peers /\ peers'[q] = peers[q]) \/ peers'[q].can = {}
    <3>1. ASSUME NEW p, Announcement(p)
          PROVE  (q \in DOMAIN peers /\ peers'[q] = peers[q]) \/ peers'[q].can = {}
      BY <3>1 DEF Announcement
    <3>2. ASSUME NEW gone, RemovePeers(gone)
          PROVE  q \in DOMAIN peers /\ peers'[q] = peers[q]
      BY <3>2 DEF RemovePeers
    <3> QED BY <3>1, <3>2
  <2> QED BY <2>1 DEF IsGatewayNow
<1>2. CallsTyped' /\ (Pending' <=> Pending)
  BY DEF DirectInv, CallsTyped, Pending
<1>3. SearchInv'
  <2> SUFFICES ASSUME NEW c \in Callers, call[c].at = "visit"
               PROVE  /\ call[c].found \cap call[c].rest = {}
                      /\ \A p \in DOMAIN peers' : peers'[p].can # {} =>
                            \/ p \in call[c].rest \cup call[c].old
                            \/ p \in call[c].found <=> IsGatewayNow(p)'
    BY DEF SearchInv
  <2> QED BY <1>1 DEF DirectInv, SearchInv
<1>4. Current => Current'
  <2> SUFFICES ASSUME Current, NEW q \in DOMAIN peers' \ unsettled
               PROVE  q \in gateways /\ peers'[q].can # {} <=> IsGatewayNow(q)'
    BY DEF Current, IsGatewayNow
  <2>1. q \in DOMAIN peers => (q \in gateways /\ peers[q].can # {} <=> IsGatewayNow(q))
    BY DEF Current
  <2> QED BY <1>1, <2>1
<1> QED BY <1>2, <1>3, <1>4 DEF DirectInv

(* A call that ends what it was doing, and what it goes on with. *)
LEMMA CallStepsKeep ==
    ASSUME DirectInv, NEW c \in Callers,
           Finish(c) \/ ReadKnown(c) \/ LookAtGateway(c) \/ RelayDirect(c) \/ RelayByHop(c)
    PROVE  DirectInv'
<1> DEFINE Goes(v) == /\ "at" \in DOMAIN v /\ v.at \notin Restless
                      /\ call' = [call EXCEPT ![c] = v]
<1>1. call[c].at \notin Restless /\ UNCHANGED <<peers, gateways, unsettled>>
      /\ "at" \in DOMAIN call[c]
  BY DEF DirectInv, CallsTyped, Restless, Finish, ReadKnown, LookAtGateway, RelayDirect,
         RelayByHop
<1>2. NoCall.at \notin Restless /\ Locking.at \notin Restless
      /\ "at" \in DOMAIN NoCall /\ "at" \in DOMAIN Locking
  BY DEF NoCall, Locking, Restless
<1>3. ASSUME Finish(c) PROVE Goes(NoCall)
  BY <1>2, <1>3 DEF Finish
<1>4. ASSUME ReadKnown(c) PROVE \E v : Goes(v)
  <2> DEFINE v == [at |-> "look", want |-> call[c].want, relaying |-> call[c].relaying,
                   rest |-> gateways]
  <2>1. Goes(v)
    BY <1>4 DEF ReadKnown, Restless
  <2> QED BY <2>1
<1>5. ASSUME LookAtGateway(c) PROVE \E v : Goes(v)
  <2>1. CASE call' = [call EXCEPT ![c] = NoCall]
    BY <1>2, <2>1
  <2>2. ASSUME NEW p \in call[c].rest,
               call' = [call EXCEPT ![c] =
                          IF ~(p \in DOMAIN peers /\ Offering(peers[p].can, call[c].want))
                          THEN [call[c] EXCEPT !.rest = call[c].rest \ {p}]
                          ELSE IF call[c].relaying THEN [at |-> "relay", gateway |-> p]
                          ELSE Locking]
        PROVE  \E v : Goes(v)
    <3> DEFINE u == [call[c] EXCEPT !.rest = call[c].rest \ {p}]  w == [at |-> "relay", gateway |-> p]
    <3>1. /\ "at" \in DOMAIN u /\ u.at = call[c].at
          /\ "at" \in DOMAIN w /\ w.at \notin Restless
      BY <1>1 DEF Restless
    <3> DEFINE lost == ~(p \in DOMAIN peers /\ Offering(peers[p].can, call[c].want))
    <3>2. call' = [call EXCEPT ![c] = IF lost THEN u
                                      ELSE IF call[c].relaying THEN w ELSE Locking]
      BY <2>2, Zenon
    <3> HIDE DEF lost, u, w
    <3>3. call' = [call EXCEPT ![c] = u] \/ call' = [call EXCEPT ![c] = w]
          \/ call' = [call EXCEPT ![c] = Locking]
      BY <3>2
    <3>4. Goes(u) \/ Goes(w) \/ Goes(Locking)
      BY <1>1, <1>2, <3>1, <3>3
    <3> HIDE DEF Goes
    <3> QED BY <3>4
  <2> HIDE DEF Goes
  <2> QED BY <1>5, <2>1, <2>2, Zenon DEF LookAtGateway
<1>6. ASSUME RelayDirect(c) PROVE \E v : Goes(v)
  <2> DEFINE u == [at |-> "stuck"]  w == [call[c] EXCEPT !.at = "hop"]
  <2>1. /\ "at" \in DOMAIN u /\ u.at \notin Restless
        /\ "at" \in DOMAIN w /\ w.at \notin Restless
    BY <1>1 DEF Restless
  <2>2. call' = [call EXCEPT ![c] = u] \/ call' = [call EXCEPT ![c] = w]
    BY <1>6 DEF RelayDirect
  <2> HIDE DEF u, w
  <2>3. Goes(u) \/ Goes(w)
    BY <2>1, <2>2
  <2> HIDE DEF Goes
  <2> QED BY <2>3
<1>7. ASSUME RelayByHop(c) PROVE \E v : Goes(v)
  <2>1. call' = [call EXCEPT ![c] = Locking] \/ call' = [call EXCEPT ![c] = NoCall]
    BY <1>7 DEF RelayByHop
  <2>2. Goes(Locking) \/ Goes(NoCall)
    BY <1>2, <2>1
  <2> HIDE DEF Goes
  <2> QED BY <2>2
<1>8. \E v : Goes(v)
  <2> HIDE DEF Goes
  <2> QED BY <1>3, <1>4, <1>5, <1>6, <1>7
<1>9. PICK v : Goes(v)
  BY <1>8
<1> QED BY <1>1, <1>9, CalmStepKeeps

LEMMA UpdateKeeps ==
    ASSUME DirectInv, NEW c \in Callers, UpdateTopology(c) \/ SearchAfterResponse(c)
    PROVE  DirectInv'
<1>1. peers' = peers
  BY DEF UpdateTopology, SearchAfterResponse
<1>2. NoCall \in Afterwards /\ Locking \in Afterwards
  BY DEF Afterwards
<1>3. PICK said : \/ Snapshot(c, Reachable(said), NoCall)
                  \/ Snapshot(c, Reachable(said), Locking)
  <2>1. CASE UpdateTopology(c)
    BY <2>1, Zenon DEF UpdateTopology
  <2>2. CASE SearchAfterResponse(c)
    BY <2>2, Zenon DEF SearchAfterResponse
  <2> QED BY <2>1, <2>2
<1> QED BY <1>1, <1>2, <1>3, SnapshotKeeps

(* A call that begins, and at most looks for a gateway. *)
LEMMA BeginsIdle ==
    ASSUME NEW c \in Callers, Begin(c)
    PROVE  call[c].at \notin Restless /\ call[c].at # "visit"
BY DEF Begin, NoCall, Restless

LEMMA AskingKeeps ==
    ASSUME DirectInv, NEW c \in Callers, NEW want \in Wanted,
           \/ Stop(c) \/ GetNetworkGateways(c) \/ RelayToNetwork(c, want)
           \/ HandleRouteQuery(c, want)
           \/ \E can, gateway : SetNetworkCapabilities(c, can, gateway)
           \/ \E from, final : HandleNetworkRelay(c, from, want, final)
    PROVE  DirectInv'
<1>1. UNCHANGED <<peers, gateways, unsettled>> /\ call[c].at \notin Restless /\ call[c].at # "visit"
  <2>1. UNCHANGED <<peers, gateways, unsettled>>
    BY Zenon DEF Stop, GetNetworkGateways, RelayToNetwork, HandleRouteQuery,
                  SetNetworkCapabilities, HandleNetworkRelay
  <2>2. Begin(c)
    BY Zenon DEF Stop, GetNetworkGateways, RelayToNetwork, HandleRouteQuery,
                  SetNetworkCapabilities, HandleNetworkRelay
  <2> QED BY <2>1, <2>2, BeginsIdle
<1>2. \E v \in Afterwards :
         \/ call' = [call EXCEPT ![c] = v]
         \/ Snapshot(c, Reachable(topology), v)
  <2>1. NoCall \in Afterwards /\ Locking \in Afterwards
    BY DEF Afterwards
  <2>2. CASE Stop(c) \/ (\E can, gateway : SetNetworkCapabilities(c, can, gateway))
    BY <2>1, <2>2, Zenon DEF Stop, SetNetworkCapabilities
  <2>3. CASE GetNetworkGateways(c)
    BY <2>1, <2>3 DEF GetNetworkGateways
  <2>4. ASSUME NEW relaying \in BOOLEAN, FindGateway(c, want, relaying)
        PROVE  \E v \in Afterwards : \/ call' = [call EXCEPT ![c] = v]
                                     \/ Snapshot(c, Reachable(topology), v)
    <3> DEFINE looking == [at |-> "find", want |-> want, relaying |-> relaying]
    <3>1. looking \in Afterwards
      BY DEF Afterwards
    <3>2. Snapshot(c, Reachable(topology), looking) \/ call' = [call EXCEPT ![c] = looking]
      BY <2>4 DEF FindGateway
    <3> QED BY <3>1, <3>2, Zenon
  <2>5. CASE RelayToNetwork(c, want) \/ HandleRouteQuery(c, want)
    BY <2>4, <2>5 DEF RelayToNetwork, HandleRouteQuery
  <2>6. CASE \E from, final : HandleNetworkRelay(c, from, want, final)
    <3>1. call' = [call EXCEPT ![c] = NoCall] \/ call' = [call EXCEPT ![c] = Locking]
      BY <2>6 DEF HandleNetworkRelay
    <3> QED BY <2>1, <3>1
  <2> QED BY <2>2, <2>3, <2>5, <2>6
<1>3. PICK v \in Afterwards : \/ call' = [call EXCEPT ![c] = v]
                              \/ Snapshot(c, Reachable(topology), v)
  BY <1>2
<1> QED BY <1>1, <1>3, AfterwardsCalm, CalmStepKeeps, SnapshotKeeps

LEMMA ReportedPeers ==
    ASSUME NEW p, NEW can, NEW gateway
    PROVE  /\ DOMAIN Reported(p, can, gateway) = DOMAIN peers
           /\ \A q \in DOMAIN peers \ {p} : Reported(p, can, gateway)[q] = peers[q]
BY DEF Reported

LEMMA HearingKeeps ==
    ASSUME DirectInv, NEW c \in Callers, NEW p,
           \/ \E can, gateway, neighbours : HandleCapability(c, p, can, gateway, neighbours)
           \/ \E reachable : HandleRouteResponse(c, p, reachable)
    PROVE  DirectInv'
<1>1. call[c].at # "visit"
  BY BeginsIdle DEF HandleCapability, HandleRouteResponse
<1>2. ASSUME NEW v, "at" \in DOMAIN v, v.at \in {"note", "heard"},
             call' = [Changed(p) EXCEPT ![c] = v],
             DOMAIN peers' = DOMAIN peers, \A q \in DOMAIN peers \ {p} : peers'[q] = peers[q]
      PROVE  DirectInv'
  <2>1. CallsTyped' /\ SearchInv'
    BY <1>1, <1>2, ChangingKeeps
  <2>2. call'[c] = v
    BY <1>2, ChangedCalls DEF DirectInv
  <2>3. Pending'
    BY <1>2, <2>2 DEF Pending, Restless
  <2> QED BY <2>1, <2>3 DEF DirectInv
<1>3. ASSUME NEW reachable, HandleRouteResponse(c, p, reachable)
      PROVE  DirectInv'
  <2> DEFINE v == [at |-> "heard"]
  <2>1. call' = [Changed(p) EXCEPT ![c] = v] /\ "at" \in DOMAIN v /\ v.at = "heard"
    BY <1>3 DEF HandleRouteResponse
  <2>2. DOMAIN peers' = DOMAIN peers /\ \A q \in DOMAIN peers \ {p} : peers'[q] = peers[q]
    BY <1>3 DEF HandleRouteResponse
  <2> HIDE DEF v
  <2> QED BY <1>2, <2>1, <2>2
<1>4. ASSUME NEW can, NEW gateway, NEW neighbours, HandleCapability(c, p, can, gateway, neighbours)
      PROVE  DirectInv'
  <2> DEFINE v == [at |-> "note", from |-> p, neighbours |-> neighbours]
  <2>1. call' = [Changed(p) EXCEPT ![c] = v] /\ "at" \in DOMAIN v /\ v.at = "note"
    BY <1>4 DEF HandleCapability
  <2>2. DOMAIN peers' = DOMAIN peers /\ \A q \in DOMAIN peers \ {p} : peers'[q] = peers[q]
    BY <1>4, ReportedPeers DEF HandleCapability
  <2> HIDE DEF v
  <2> QED BY <1>2, <2>1, <2>2
<1> QED BY <1>3, <1>4

(* Without a list of neighbours no search follows, and nothing else changes. *)
LEMMA BadReportKeeps ==
    ASSUME DirectInv, NEW c \in Callers, NEW p, NEW can, NEW gateway,
           HandleBadCapability(c, p, can, gateway)
    PROVE  DirectInv'
<1>1. call[c].at \notin Restless /\ call[c].at # "visit"
  BY BeginsIdle DEF HandleBadCapability
<1>2. PICK next \in {Locking, NoCall} : call' = [Changed(p) EXCEPT ![c] = next]
  BY DEF HandleBadCapability
<1>3. /\ unsettled' = unsettled \cup {p} /\ gateways' = gateways
      /\ DOMAIN peers' = DOMAIN peers /\ \A q \in DOMAIN peers \ {p} : peers'[q] = peers[q]
  BY ReportedPeers DEF HandleBadCapability
<1>4. "at" \in DOMAIN next /\ next.at \notin Restless /\ next.at # "visit"
  BY DEF Locking, NoCall, Restless
<1>5. CallsTyped' /\ SearchInv'
  BY <1>1, <1>2, <1>3, <1>4, ChangingKeeps
<1>6. \A d \in Callers : call'[d].at = IF d = c THEN next.at ELSE call[d].at
  BY <1>2, ChangedCalls DEF DirectInv
<1>7. Pending' <=> Pending
  BY <1>1, <1>4, <1>6 DEF Pending
<1>8. Current => Current'
  BY <1>3 DEF Current, IsGatewayNow
<1> QED BY <1>5, <1>7, <1>8 DEF DirectInv

LEMMA DirectStepsKeep ==
    ASSUME DirectInv, [DirectNext]_directVars
    PROVE  DirectInv'
<1>1. ASSUME (\E p \in Near : Announcement(p)) \/ (\E gone \in SUBSET Near : RemovePeers(gone))
      PROVE  DirectInv'
  BY <1>1, MembersKeep DEF Announcement, RemovePeers
<1>2. ASSUME NEW c \in Callers, Visit(c) \/ Publish(c)
      PROVE  DirectInv'
  BY <1>2, VisitKeeps, PublishKeeps
<1>3. ASSUME NEW c \in Callers,
             \/ Finish(c) \/ ReadKnown(c) \/ LookAtGateway(c) \/ RelayDirect(c) \/ RelayByHop(c)
             \/ UpdateTopology(c) \/ SearchAfterResponse(c)
      PROVE  DirectInv'
  BY <1>3, CallStepsKeep, UpdateKeeps
<1>4. ASSUME NEW c \in Callers, Stop(c) \/ GetNetworkGateways(c)
      PROVE  DirectInv'
  BY <1>4, AskingKeeps DEF Wanted
<1>5. ASSUME NEW c \in Callers, NEW want \in Wanted,
             RelayToNetwork(c, want) \/ HandleRouteQuery(c, want)
      PROVE  DirectInv'
  BY <1>5, AskingKeeps
<1>6. ASSUME NEW c \in Callers, NEW can, NEW gateway, SetNetworkCapabilities(c, can, gateway)
      PROVE  DirectInv'
  BY <1>6, AskingKeeps DEF Wanted
<1>7. ASSUME NEW c \in Callers, NEW p, NEW can, NEW gateway, NEW neighbours,
             HandleCapability(c, p, can, gateway, neighbours)
      PROVE  DirectInv'
  BY <1>7, HearingKeeps
<1>8. ASSUME NEW c \in Callers, NEW p, NEW reachable, HandleRouteResponse(c, p, reachable)
      PROVE  DirectInv'
  BY <1>8, HearingKeeps
<1>9. ASSUME NEW c \in Callers, NEW p, NEW want \in Wanted, NEW final,
             HandleNetworkRelay(c, p, want, final)
      PROVE  DirectInv'
  BY <1>9, AskingKeeps
<1>11. ASSUME NEW c \in Callers, NEW p, NEW can, NEW gateway,
              HandleBadCapability(c, p, can, gateway)
       PROVE  DirectInv'
  BY <1>11, BadReportKeeps
<1>10. CASE UNCHANGED directVars
  BY <1>10 DEF directVars, DirectInv, CallsTyped, SearchInv, Pending, Current, IsGatewayNow
<1> QED
  BY <1>1, <1>2, <1>3, <1>4, <1>5, <1>6, <1>7, <1>8, <1>9, <1>10, <1>11, Zenon DEF DirectNext

(* Between calls a peer with an access is among the gateways known if and  *)
(* only if it shares it, but for one whose word came during the last search *)
(* or without a list of neighbours: what a search finds of the others stays *)
(* true whatever runs beside it and whoever is entered, removed and entered *)
(* again, for every number of stations and threads.                         *)
THEOREM GatewaysFollowPeers == DirectSpec => []GatewaysAreCurrent
<1>1. DirectInit => DirectInv
  BY DEF DirectInit, DirectInv, CallsTyped, SearchInv, Current, IsGatewayNow, NoCall
<1>2. DirectInv /\ [DirectNext]_directVars => DirectInv'
  BY DirectStepsKeep
<1>3. DirectInv => GatewaysAreCurrent
  <2>1. NoCall.at \notin Restless
    BY DEF NoCall, Restless
  <2> QED BY <2>1 DEF DirectInv, Pending, Current, GatewaysAreCurrent
<1> QED BY <1>1, <1>2, <1>3, PTL DEF DirectSpec

-----------------------------------------------------------------------------
(* LocalApi: the file of API keys and the requests under way. *)

\* What the file holds and what is about to be written to it.
Listed == keyFile \cup (IF saving = NoSave THEN {} ELSE saving.entries)

KeyEntries == [key : ApiKeys, permissions : Grants, expiry : Int]
Requests == [key : ApiKeys, permission : Permissions, at : {"received", "admitted"}, late : BOOLEAN]

ApiTypes ==
    /\ keyFile \subseteq KeyEntries /\ hour \in Nat
    /\ saving \in [entries : SUBSET KeyEntries, gone : SUBSET ApiKeys] \cup {NoSave}
    /\ request \in Requests \cup {NoRequest}

\* A key is generated once, has one entry, and none once it was deleted.
KeysOnce ==
    /\ revoked \subseteq generated /\ KeysOf(Listed) \subseteq generated
    /\ \A d, e \in Listed : d.key = e.key => d = e
    /\ \A e \in Listed : e.key \notin revoked
    /\ saving # NoSave => /\ saving.gone \subseteq generated
                          /\ \A e \in saving.entries : e.key \notin saving.gone

\* A late request finds no entry of its key but an expired one.
LateInv ==
    request # NoRequest /\ request.late =>
        /\ request.key \in generated /\ request.at = "received"
        /\ \A e \in Listed : e.key = request.key => Expired(e)

ApiInv == ApiTypes /\ KeysOnce /\ LateInv

LEMMA ApiBegin == ApiInit => ApiInv
<1>. SUFFICES ASSUME ApiInit PROVE ApiInv
    OBVIOUS
<1>1. Listed = {}
    BY DEF ApiInit, Listed
<1>. QED
    BY <1>1 DEF ApiInit, ApiInv, ApiTypes, KeysOnce, LateInv, KeysOf

\* Nothing new is listed and nothing deleted.
LEMMA FewerListed ==
    ASSUME ApiInv, ApiTypes', Listed' \subseteq Listed, UNCHANGED <<generated, revoked, saving, request>>,
           hour' >= hour
    PROVE  ApiInv'
<1>1. KeysOnce'
    BY DEF ApiInv, KeysOnce, KeysOf
<1>2. \A e \in Listed : Expired(e) => Expired(e)'
    BY DEF Expired, ApiInv, ApiTypes, Listed, KeyEntries
<1>3. LateInv'
    BY <1>2 DEF ApiInv, LateInv
<1>. QED
    BY <1>1, <1>3 DEF ApiInv

LEMMA CreateKeeps ==
    ASSUME ApiInv, NEW key \in ApiKeys, NEW permissions \in Grants,
           NEW hours \in {Forever} \cup 0 .. MaxHours, Create(key, permissions, hours)
    PROVE  ApiInv'
<1>. DEFINE expiry == IF hours >= 0 THEN hour + hours ELSE Forever
            e == [key |-> key, permissions |-> permissions, expiry |-> expiry]
<1>1. e \in KeyEntries /\ e.key = key
    BY DEF ApiInv, ApiTypes, KeyEntries, Forever
<1>2. /\ saving = NoSave /\ saving' = [entries |-> LoadKeys \cup {e}, gone |-> {}]
      /\ key \notin generated /\ generated' = generated \cup {key}
      /\ UNCHANGED <<keyFile, revoked, request, hour>>
    BY DEF Create, Open, WindowFree
<1>. HIDE DEF e
<1>3. ApiTypes'
    BY <1>1, <1>2 DEF ApiInv, ApiTypes, LoadKeys
<1>4. Listed' \subseteq Listed \cup {e} /\ Listed = keyFile
    BY <1>2 DEF Listed, LoadKeys
<1>5. KeysOnce'
    BY <1>1, <1>2, <1>4 DEF ApiInv, KeysOnce, KeysOf
<1>6. LateInv'
    BY <1>1, <1>2, <1>4 DEF ApiInv, LateInv, Expired
<1>. QED
    BY <1>3, <1>5, <1>6 DEF ApiInv

LEMMA DeleteKeeps ==
    ASSUME ApiInv, NEW key \in ApiKeys, Delete(key)
    PROVE  ApiInv'
<1>1. /\ saving = NoSave /\ saving' = [entries |-> {e \in LoadKeys : e.key # key}, gone |-> {key}]
      /\ key \in KeysOf(LoadKeys)
      /\ UNCHANGED <<keyFile, generated, revoked, request, hour>>
    BY DEF Delete, Open, WindowFree
<1>2. ApiTypes'
    BY <1>1 DEF ApiInv, ApiTypes, LoadKeys
<1>3. Listed' \subseteq Listed /\ LoadKeys \subseteq Listed
    BY <1>1 DEF Listed, LoadKeys
<1>4. KeysOnce'
    BY <1>1, <1>3 DEF ApiInv, KeysOnce, KeysOf
<1>5. LateInv'
    BY <1>1, <1>3 DEF ApiInv, LateInv, Expired
<1>. QED
    BY <1>2, <1>4, <1>5 DEF ApiInv

LEMMA SaveKeeps ==
    ASSUME ApiInv, Save
    PROVE  ApiInv'
<1>1. /\ saving # NoSave /\ keyFile' = saving.entries /\ saving' = NoSave
      /\ revoked' = revoked \cup saving.gone
      /\ UNCHANGED <<generated, request, hour>>
    BY DEF Save
<1>2. ApiTypes'
    BY <1>1 DEF ApiInv, ApiTypes
<1>3. Listed' \subseteq Listed /\ Listed' = saving.entries
    BY <1>1 DEF Listed
<1>4. KeysOnce'
    BY <1>1, <1>3 DEF ApiInv, KeysOnce, KeysOf
<1>5. LateInv'
    BY <1>1, <1>3 DEF ApiInv, LateInv, Expired
<1>. QED
    BY <1>2, <1>4, <1>5 DEF ApiInv

\* A request of a deleted key, or of one that has expired, is late.
LEMMA ReceiveKeeps ==
    ASSUME ApiInv, NEW key \in ApiKeys, NEW permission \in Permissions, Receive(key, permission)
    PROVE  ApiInv'
<1>. DEFINE late == key \in revoked \/ \E e \in keyFile : e.key = key /\ Expired(e)
<1>1. /\ request' = [key |-> key, permission |-> permission, at |-> "received", late |-> late]
      /\ UNCHANGED <<keyFile, saving, generated, revoked, hour>>
    BY DEF Receive, keyVars
<1>2. late \in BOOLEAN
    OBVIOUS
<1>3. request' \in Requests
    BY <1>1, <1>2 DEF Requests
<1>4. Listed' = Listed
    BY <1>1 DEF Listed
<1>5. ApiTypes' /\ KeysOnce'
    BY <1>1, <1>3, <1>4 DEF ApiInv, ApiTypes, KeysOnce, KeysOf
<1>6. late => key \in generated /\ \A e \in Listed : e.key = key => Expired(e)
    BY DEF ApiInv, KeysOnce, KeysOf, Listed
<1>7. LateInv'
    BY <1>1, <1>4, <1>6 DEF LateInv, Expired
<1>. QED
    BY <1>5, <1>7 DEF ApiInv

\* No late request is admitted.
LEMMA AuthenticateKeeps ==
    ASSUME ApiInv, Authenticate
    PROVE  ApiInv'
<1>1. request \in Requests /\ UNCHANGED <<keyFile, saving, generated, revoked, hour>>
    BY DEF Authenticate, keyVars, ApiInv, ApiTypes
<1>2. \/ request' = NoRequest
      \/ /\ request' = [request EXCEPT !.at = "admitted"]
         /\ \E e \in keyFile : e.key = request.key /\ Verified(e)
    BY DEF Authenticate, Answer
<1>3. Listed' = Listed
    BY <1>1 DEF Listed
<1>4. ApiTypes' /\ KeysOnce'
  <2>1. request' \in Requests \cup {NoRequest}
      BY <1>1, <1>2 DEF Requests
  <2>. QED
      BY <1>1, <1>3, <2>1 DEF ApiInv, ApiTypes, KeysOnce, KeysOf
<1>5. LateInv'
  <2>1. CASE request' = NoRequest
      BY <2>1 DEF LateInv
  <2>2. CASE request' = [request EXCEPT !.at = "admitted"] /\ \E e \in keyFile : e.key = request.key /\ Verified(e)
    <3>1. request.late => request = NoRequest
        BY <2>2 DEF ApiInv, LateInv, Listed, Verified
    <3>2. request # NoRequest /\ request'.late = request.late
        BY <1>1, <2>2 DEF Authenticate, Requests
    <3>. QED
        BY <3>1, <3>2 DEF LateInv
  <2>. QED
      BY <1>2, <2>1, <2>2
<1>. QED
    BY <1>4, <1>5 DEF ApiInv

LEMMA ApiRestartKeeps ==
    ASSUME ApiInv, Restart
    PROVE  ApiInv'
<1>1. /\ saving' = NoSave /\ keyFile' = LoadKeys /\ request' = NoRequest
      /\ UNCHANGED <<generated, revoked, hour>>
    BY DEF Restart
<1>2. ApiTypes' /\ Listed' \subseteq Listed
    BY <1>1 DEF ApiInv, ApiTypes, LoadKeys, Listed
<1>. QED
    BY <1>1, <1>2 DEF ApiInv, KeysOnce, KeysOf, LateInv

LEMMA ApiStepKeeps == ApiInv /\ [ApiNext]_apiVars => ApiInv'
<1>. SUFFICES ASSUME ApiInv, [ApiNext]_apiVars PROVE ApiInv'
    OBVIOUS
<1>1. CASE StartServer \/ StopServer \/ Stopped \/ Hour \/ UNCHANGED apiVars
  <2>1. UNCHANGED <<keyFile, saving, generated, revoked, request>> /\ hour' \in {hour, hour + 1}
      BY <1>1 DEF StartServer, StopServer, Stopped, Hour, keyVars, apiVars
  <2>2. ApiTypes' /\ hour' >= hour /\ Listed' = Listed
      BY <2>1 DEF ApiInv, ApiTypes, Listed
  <2>. QED
      BY <2>1, <2>2, FewerListed
<1>2. CASE Handle
  <2>1. UNCHANGED <<keyFile, saving, generated, revoked, hour>> /\ request' = NoRequest
      BY <1>2 DEF Handle, Answer, keyVars
  <2>. QED
      BY <2>1 DEF ApiInv, ApiTypes, KeysOnce, LateInv, Listed, KeysOf
<1>. QED
    BY <1>1, <1>2, CreateKeeps, DeleteKeeps, SaveKeeps, ReceiveKeeps, AuthenticateKeeps, ApiRestartKeeps
    DEF ApiNext

\* A request that came after its key was deleted or had expired never gets to
\* the application (verify_api_key), whatever keys were made since, whenever the
\* file was being written and wherever the program ended.
THEOREM LateKeysStayOut == ApiSpec => []RevokedStaysOut
<1>1. ApiInv => RevokedStaysOut
    BY DEF ApiInv, LateInv, RevokedStaysOut
<1>. QED
    BY <1>1, ApiBegin, ApiStepKeeps, PTL DEF ApiSpec

=============================================================================
