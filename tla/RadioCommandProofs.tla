------------------------- MODULE RadioCommandProofs -------------------------
(***************************************************************************)
(* Theorems about RadioCommand, for any commands, delays, self-stop delay  *)
(* and length of a behaviour.                                              *)
(***************************************************************************)
EXTENDS RadioCommand, TLAPS

Writing(c) == <<"write", c>>
Arming(c, d) == <<"arm", c, d>>

\* The steps of immediate commands, and all.
PlainSteps == {BleOn, BleOff, WifiOn, WifiOff, Respond, AskStop}
Steps == PlainSteps \cup {Writing(c) : c \in Delayable}
                    \cup {Arming(c, d) : c \in Delayable, d \in Delays}

Has(s, x) == \E i \in 1 .. Len(s) : s[i] = x

\* A program, or the rest of one, of an immediate command: each step comes at
\* most once, and no radio is switched both ways.
Sane(s) ==
  /\ s \in Seq(PlainSteps)
  /\ \A i, j \in 1 .. Len(s) : s[i] = s[j] => i = j
  /\ Has(s, BleOn) => ~Has(s, BleOff) /\ ~Has(s, AskStop)
  /\ Has(s, WifiOn) => ~Has(s, WifiOff)

-----------------------------------------------------------------------------
(* Programs.                                                               *)

LEMMA StepsDiffer ==
  /\ BleOn \notin {BleOff, WifiOn, WifiOff, Respond, AskStop}
  /\ BleOff \notin {WifiOn, WifiOff, Respond, AskStop}
  /\ WifiOn \notin {WifiOff, Respond, AskStop}
  /\ WifiOff \notin {Respond, AskStop}
  /\ Respond # AskStop
BY DEF BleOn, BleOff, WifiOn, WifiOff, Respond, AskStop

LEMMA DelayedDiffer ==
  ASSUME NEW c, NEW d
  PROVE  Writing(c) \notin PlainSteps /\ Arming(c, d) \notin PlainSteps
BY DEF Writing, Arming, PlainSteps, BleOn, BleOff, WifiOn, WifiOff, Respond, AskStop

LEMMA ArmingDiffers ==
  ASSUME NEW c, NEW d, NEW e, NEW f
  PROVE  /\ Writing(c) # Arming(e, f)
         /\ Arming(c, d) = Arming(e, f) => c = e /\ d = f
         /\ Writing(c) = Writing(e) => c = e
BY DEF Writing, Arming

\* What is left of a program after its first step.
LEMMA SaneTail ==
  ASSUME NEW s, Sane(s), s # <<>>
  PROVE  /\ Head(s) \in PlainSteps /\ Sane(Tail(s))
         /\ \A x : Has(Tail(s), x) <=> Has(s, x) /\ x # Head(s)
         /\ Has(s, Head(s))
<1> DEFINE t == Tail(s)
<1>1. /\ s \in Seq(PlainSteps) /\ Len(s) \in Nat \ {0} /\ s[1] = Head(s)
      /\ t \in Seq(PlainSteps) /\ Len(t) = Len(s) - 1
      /\ \A i \in 1 .. Len(t) : t[i] = s[i + 1]
  BY DEF Sane
<1>2. s[1] \in PlainSteps
  BY <1>1
<1> HIDE DEF t
<1>3. ASSUME NEW x, Has(t, x) PROVE Has(s, x) /\ x # Head(s)
  <2>1. PICK i \in 1 .. Len(t) : t[i] = x
    BY <1>3 DEF Has
  <2>2. i + 1 \in 1 .. Len(s) /\ s[i + 1] = x /\ i + 1 # 1 /\ 1 \in 1 .. Len(s)
    BY <1>1, <2>1
  <2> QED BY <1>1, <2>2 DEF Has, Sane
<1>4. ASSUME NEW x, Has(s, x), x # Head(s) PROVE Has(t, x)
  <2>1. PICK i \in 1 .. Len(s) : s[i] = x
    BY <1>4 DEF Has
  <2>2. i - 1 \in 1 .. Len(t) /\ t[i - 1] = x
    <3>1. i # 1
      BY <1>1, <1>4, <2>1
    <3>2. i - 1 \in 1 .. Len(t) /\ (i - 1) + 1 = i
      BY <1>1, <3>1
    <3> QED BY <1>1, <2>1, <3>2
  <2> QED BY <2>2 DEF Has
<1>5. \A x : Has(t, x) <=> Has(s, x) /\ x # Head(s)
  BY <1>3, <1>4
<1>6. Sane(t)
  <2>1. ASSUME NEW i \in 1 .. Len(t), NEW j \in 1 .. Len(t), t[i] = t[j] PROVE i = j
    <3>1. i + 1 \in 1 .. Len(s) /\ j + 1 \in 1 .. Len(s) /\ s[i + 1] = s[j + 1]
      BY <1>1, <2>1
    <3>2. i + 1 = j + 1
      BY <3>1 DEF Sane
    <3> QED BY <3>2
  <2> QED BY <1>1, <1>5, <2>1 DEF Sane
<1>7. Has(s, Head(s))
  <2>1. 1 \in 1 .. Len(s)
    BY <1>1
  <2> QED BY <1>1, <2>1 DEF Has
<1> QED BY <1>1, <1>2, <1>5, <1>6, <1>7 DEF t

LEMMA SaneAppend ==
  ASSUME NEW s, Sane(s), NEW x \in {Respond, AskStop}, ~Has(s, x), ~Has(s, BleOn) \/ x = Respond
  PROVE  /\ Sane(Append(s, x)) /\ Append(s, x) # <<>>
         /\ \A y : Has(Append(s, x), y) <=> Has(s, y) \/ y = x
<1> DEFINE t == Append(s, x)
<1>1. x \in PlainSteps /\ x \notin {BleOn, BleOff, WifiOn, WifiOff} /\ s \in Seq(PlainSteps)
  BY StepsDiffer DEF Sane, PlainSteps
<1>2. /\ t \in Seq(PlainSteps) /\ Len(t) = Len(s) + 1 /\ Len(s) \in Nat /\ t # <<>>
      /\ t[Len(s) + 1] = x /\ \A i \in 1 .. Len(s) : t[i] = s[i]
  BY <1>1
<1> HIDE DEF t
<1>3. 1 .. Len(t) = (1 .. Len(s)) \cup {Len(s) + 1}
  BY <1>2
<1>4. \A y : Has(t, y) <=> Has(s, y) \/ y = x
  BY <1>2, <1>3 DEF Has
<1>5. \A i, j \in 1 .. Len(t) : t[i] = t[j] => i = j
  <2> SUFFICES ASSUME NEW i \in 1 .. Len(t), NEW j \in 1 .. Len(t), t[i] = t[j]
               PROVE  i = j
    OBVIOUS
  <2>1. \A k \in 1 .. Len(s) : s[k] # x
    BY DEF Has
  <2>2. CASE i \in 1 .. Len(s) /\ j \in 1 .. Len(s)
    BY <1>2, <2>2 DEF Sane
  <2>3. CASE i = Len(s) + 1 \/ j = Len(s) + 1
    BY <1>2, <1>3, <2>1, <2>3
  <2> QED BY <1>3, <2>2, <2>3
<1>6. x = AskStop => ~Has(s, BleOn)
  BY StepsDiffer
<1> QED BY <1>1, <1>2, <1>4, <1>5, <1>6 DEF Sane, t

LEMMA Empty == Sane(<<>>) /\ \A x : ~Has(<<>>, x)
BY DEF Sane, Has

LEMMA OneStep ==
  ASSUME NEW x \in PlainSteps
  PROVE  Sane(<<x>>) /\ \A y : Has(<<x>>, y) <=> y = x
<1>1. \A y : Has(<<x>>, y) <=> y = x
  BY DEF Has
<1> QED BY <1>1, StepsDiffer DEF Sane, PlainSteps

LEMMA TwoSteps ==
  ASSUME NEW x \in PlainSteps, NEW y \in PlainSteps, x # y,
         {x, y} \notin {{BleOn, BleOff}, {BleOn, AskStop}, {WifiOn, WifiOff}}
  PROVE  Sane(<<x, y>>) /\ \A z : Has(<<x, y>>, z) <=> z \in {x, y}
<1>1. \A z : Has(<<x, y>>, z) <=> z \in {x, y}
  <2>1. 1 .. 2 = {1, 2}
    OBVIOUS
  <2> QED BY <2>1 DEF Has
<1>2. \A i, j \in 1 .. Len(<<x, y>>) : <<x, y>>[i] = <<x, y>>[j] => i = j
  OBVIOUS
<1>3. <<x, y>> \in Seq(PlainSteps)
  OBVIOUS
<1> QED BY <1>1, <1>2, <1>3, StepsDiffer DEF Sane

TurnsBleOn == {"ble", "both", "ble_on"}
TurnsBleOff == {"idle", "wifi", "ble_off"}
TurnsWifiOn == {"wifi", "both", "wifi_on"}
TurnsWifiOff == {"idle", "ble", "wifi_off"}

\* The program s switches what command c asks for, at once or by a self-stop.
Does(s, c) ==
  /\ Sane(s)
  /\ Has(s, BleOn) <=> c \in TurnsBleOn
  /\ Has(s, BleOff) \/ Has(s, AskStop) <=> c \in TurnsBleOff
  /\ Has(s, WifiOn) <=> c \in TurnsWifiOn
  /\ Has(s, WifiOff) <=> c \in TurnsWifiOff

LEMMA SwitchesDo ==
  ASSUME NEW c \in AllCommands
  PROVE  Does(Switches(c), c) /\ ~Has(Switches(c), Respond)
<1> USE StepsDiffer DEF Does, TurnsBleOn, TurnsBleOff, TurnsWifiOn, TurnsWifiOff
<1>0. {BleOn, BleOff, WifiOn, WifiOff} \subseteq PlainSteps
  BY DEF PlainSteps
<1>1. CASE c = "idle"
  <2>1. Switches(c) = <<WifiOff, BleOff>>
    BY <1>1 DEF Switches
  <2> QED BY <1>0, <1>1, <2>1, TwoSteps
<1>2. CASE c = "ble"
  <2>1. Switches(c) = <<WifiOff, BleOn>>
    BY <1>2 DEF Switches
  <2> QED BY <1>0, <1>2, <2>1, TwoSteps
<1>3. CASE c = "wifi"
  <2>1. Switches(c) = <<BleOff, WifiOn>>
    BY <1>3 DEF Switches
  <2> QED BY <1>0, <1>3, <2>1, TwoSteps
<1>4. CASE c = "both"
  <2>1. Switches(c) = <<BleOn, WifiOn>>
    BY <1>4 DEF Switches
  <2> QED BY <1>0, <1>4, <2>1, TwoSteps
<1>5. CASE c = "ble_on"
  <2>1. Switches(c) = <<BleOn>>
    BY <1>5 DEF Switches
  <2> QED BY <1>0, <1>5, <2>1, OneStep
<1>6. CASE c = "ble_off"
  <2>1. Switches(c) = <<BleOff>>
    BY <1>6 DEF Switches
  <2> QED BY <1>0, <1>6, <2>1, OneStep
<1>7. CASE c = "wifi_on"
  <2>1. Switches(c) = <<WifiOn>>
    BY <1>7 DEF Switches
  <2> QED BY <1>0, <1>7, <2>1, OneStep
<1>8. CASE c = "wifi_off"
  <2>1. Switches(c) = <<WifiOff>>
    BY <1>8 DEF Switches
  <2> QED BY <1>0, <1>8, <2>1, OneStep
<1> QED BY <1>1, <1>2, <1>3, <1>4, <1>5, <1>6, <1>7, <1>8
        DEF AllCommands, Delayable, Modes

\* With an answer after the switches.
LEMMA AnsweredDo ==
  ASSUME NEW c \in AllCommands
  PROVE  LET s == Append(Switches(c), Respond)
         IN  Does(s, c) /\ s # <<>> /\ (Has(s, BleOff) <=> Has(Switches(c), BleOff))
<1>1. Does(Switches(c), c) /\ ~Has(Switches(c), Respond)
  BY SwitchesDo
<1> QED BY <1>1, SaneAppend, StepsDiffer DEF Does

\* Over BLE the service stays on until the self-stop.
LEMMA ImmediateDoes ==
  ASSUME NEW o \in Origins, NEW c \in AllCommands
  PROVE  /\ Does(Immediate(o, c), c) /\ Immediate(o, c) # <<>>
         /\ o = "ble" => ~Has(Immediate(o, c), BleOff)
<1>1. CASE o # "ble" \/ c \notin TurnsBleOff
  <2>1. Immediate(o, c) = Append(Switches(c), Respond)
    BY <1>1 DEF Immediate, Origins, OnShell, OnUdp, OnBle, TurnsBleOff
  <2>2. Does(Immediate(o, c), c) /\ Immediate(o, c) # <<>>
    BY <2>1, AnsweredDo
  <2> QED BY <1>1, <2>2 DEF Does
<1>2. CASE o = "ble" /\ c \in TurnsBleOff
  <2> DEFINE w == SwitchesWifi(c)
             s == Append(w, Respond)
  <2>1. /\ Sane(w) /\ ~Has(w, Respond) /\ ~Has(w, AskStop) /\ ~Has(w, BleOff) /\ ~Has(w, BleOn)
        /\ Has(w, WifiOn) <=> c \in TurnsWifiOn
        /\ Has(w, WifiOff) <=> c \in TurnsWifiOff
    <3> USE DEF TurnsWifiOn, TurnsWifiOff
    <3>1. CASE c = "idle"
      <4>1. w = <<WifiOff>> /\ WifiOff \in PlainSteps
        BY <3>1 DEF SwitchesWifi, PlainSteps
      <4> QED BY <3>1, <4>1, OneStep, StepsDiffer
    <3>2. CASE c = "wifi"
      <4>1. w = <<WifiOn>> /\ WifiOn \in PlainSteps
        BY <3>2 DEF SwitchesWifi, PlainSteps
      <4> QED BY <3>2, <4>1, OneStep, StepsDiffer
    <3>3. CASE c = "ble_off"
      <4>1. w = <<>>
        BY <3>3 DEF SwitchesWifi
      <4> QED BY <3>3, <4>1, Empty
    <3> QED BY <1>2, <3>1, <3>2, <3>3 DEF TurnsBleOff
  <2>2. Immediate(o, c) = Append(s, AskStop)
    BY <1>2 DEF Immediate, OnBle, TurnsBleOff
  <2>3. c \notin TurnsBleOn
    BY <1>2 DEF TurnsBleOff, TurnsBleOn
  <2> HIDE DEF w
  <2>4. Sane(s) /\ \A y : Has(s, y) <=> Has(w, y) \/ y = Respond
    BY <2>1, SaneAppend
  <2> HIDE DEF s
  <2>5. /\ Sane(Append(s, AskStop)) /\ Append(s, AskStop) # <<>>
        /\ \A y : Has(Append(s, AskStop), y) <=> Has(s, y) \/ y = AskStop
    BY <2>1, <2>4, SaneAppend, StepsDiffer
  <2> QED BY <1>2, <2>1, <2>2, <2>3, <2>4, <2>5, StepsDiffer DEF Does
<1> QED BY <1>1, <1>2

\* The program of a delayed command, and what is left of it after its first step.
LEMMA DelayedProgram ==
  ASSUME NEW c \in Delayable, NEW d \in Delays
  PROVE  LET s == <<Writing(c), Arming(c, d), Respond>>
             t == <<Arming(c, d), Respond>>
         IN  /\ s \in Seq(Steps) /\ t \in Seq(Steps) /\ <<Respond>> \in Seq(Steps)
             /\ Head(s) = Writing(c) /\ Tail(s) = t
             /\ Head(t) = Arming(c, d) /\ Tail(t) = <<Respond>>
             /\ \A x \in PlainSteps :
                  (Has(s, x) <=> x = Respond) /\ (Has(t, x) <=> x = Respond)
<1>1. {Writing(c), Arming(c, d), Respond} \subseteq Steps
  BY DEF Steps, PlainSteps
<1>2. Writing(c) \notin PlainSteps /\ Arming(c, d) \notin PlainSteps
  BY DelayedDiffer
<1>3. 1 .. 3 = {1, 2, 3} /\ 1 .. 2 = {1, 2}
  OBVIOUS
<1> QED BY <1>1, <1>2, <1>3 DEF Has

-----------------------------------------------------------------------------
(* The inductive invariant.                                                *)

Typed ==
  /\ ble \in BOOLEAN /\ wifi \in BOOLEAN /\ overlapped \in BOOLEAN
  /\ ready \in BOOLEAN /\ (ble => ready)
  /\ now \in Nat
  /\ actionDue \in Nat \cup {Never} /\ stopDue \in Nat \cup {Never}
  /\ action \in Delayable \cup {"none"}
  /\ actionDue # Never => action \in Delayable
  /\ goal \in [ble : BOOLEAN, wifi : BOOLEAN]
  /\ todo \in [Origins -> Seq(Steps)]

\* Path o carries out a delayed command, and has perhaps written its action.
Delayed(o) ==
  \E c \in Delayable, d \in Delays :
    \/ todo[o] = <<Writing(c), Arming(c, d), Respond>>
    \/ /\ todo[o] = <<Arming(c, d), Respond>>
       /\ action \in Delayable /\ (overlapped \/ action = c)

Shaped == \A o \in Origins : Sane(todo[o]) \/ Delayed(o)

Alone ==
  \/ overlapped
  \/ \A o, u \in Origins : todo[o] # <<>> /\ todo[u] # <<>> => o = u

\* A BLE command that has to answer finds the service on.
Answering ==
  /\ Has(todo["ble"], Respond) => ~Has(todo["ble"], BleOff)
  /\ ~overlapped => "ble" \notin unanswered /\ (Has(todo["ble"], Respond) => ble)

\* Where the radios will be once all steps left and the self-stop are done.
Left(x) == \E o \in Origins : Has(todo[o], x)
Ending ==
  ~overlapped =>
    /\ goal.ble <=> \/ Left(BleOn)
                    \/ ble /\ ~Left(BleOff) /\ ~Left(AskStop) /\ stopDue = Never
    /\ goal.wifi <=> Left(WifiOn) \/ (wifi /\ ~Left(WifiOff))

\* A lone promise has its work scheduled, unless that has just run with the
\* action of another command that is about to be acknowledged.
Arms == \E o \in Origins, c \in Delayable, d \in Delays :
          todo[o] = <<Arming(c, d), Respond>>
Promising ==
  ~crowded => \/ promises = {}
              \/ \E w \in Delayable, due \in Nat :
                   /\ promises = {[what |-> w, due |-> due]}
                   /\ \/ actionDue = due /\ now <= due /\ (action = w \/ Arms)
                      \/ actionDue = Never /\ now = due /\ overlapped /\ Arms

IInv == Typed /\ Shaped /\ Alone /\ Answering /\ Ending /\ Promising

-----------------------------------------------------------------------------
(* What happens to the programs.                                           *)

LEMMA PlainAreSteps == \A s \in Seq(PlainSteps) : s \in Seq(Steps)
BY DEF Steps

LEMMA OriginsAre == Origins = {"shell", "udp", "ble"}
BY DEF Origins

\* A program begins: from then on nobody else is under way, or it is known
\* that two are.
LEMMA Begun ==
  ASSUME Typed, Shaped, NEW o \in Origins, NEW p \in Seq(Steps), Begin(o, p)
  PROVE  /\ todo' \in [Origins -> Seq(Steps)] /\ todo'[o] = p /\ todo[o] = <<>>
         /\ \A u \in Origins : u # o => todo'[u] = todo[u]
         /\ overlapped' \in BOOLEAN /\ Alone'
         /\ overlapped => overlapped'
         /\ ~overlapped' => \A x : ~Left(x) /\ (Left(x)' <=> Has(p, x))
         /\ Arms => Arms'
<1>1. /\ todo' \in [Origins -> Seq(Steps)] /\ todo'[o] = p /\ todo[o] = <<>>
      /\ \A u \in Origins : u # o => todo'[u] = todo[u]
      /\ overlapped' = (overlapped \/ ~Idle)
  BY DEF Begin, Typed
<1>2. ~overlapped' => \A u \in Origins : todo[u] = <<>>
  BY <1>1 DEF Idle
<1>3. overlapped' \in BOOLEAN /\ Alone' /\ (overlapped => overlapped')
  BY <1>1, <1>2 DEF Alone, Typed
<1>4. ~overlapped' => \A x : ~Left(x) /\ (Left(x)' <=> Has(p, x))
  BY <1>1, <1>2, Empty DEF Left
<1>5. Arms => Arms'
  <2> SUFFICES ASSUME Arms PROVE Arms'
    OBVIOUS
  <2>1. PICK u \in Origins, c \in Delayable, d \in Delays :
          todo[u] = <<Arming(c, d), Respond>>
    BY DEF Arms
  <2>2. <<Arming(c, d), Respond>> # <<>>
    OBVIOUS
  <2>3. u # o
    BY <1>1, <2>1, <2>2
  <2> QED BY <1>1, <2>1, <2>3 DEF Arms
<1> QED BY <1>1, <1>3, <1>4, <1>5

\* A path takes a step of an immediate command.
LEMMA Advanced ==
  ASSUME Typed, Shaped, Alone, NEW o \in Origins, NEW h \in PlainSteps,
         At(o, h), Advance(o), UNCHANGED <<action, overlapped>>
  PROVE  /\ todo' \in [Origins -> Seq(Steps)] /\ Shaped' /\ Alone'
         /\ Sane(todo[o]) /\ Has(todo[o], h)
         /\ \A x : Has(todo'[o], x) <=> Has(todo[o], x) /\ x # h
         /\ \A u \in Origins : u # o => todo'[u] = todo[u]
         /\ ~overlapped => \A x : Left(x)' <=> Left(x) /\ x # h
         /\ Left(h) /\ (Arms => Arms')
<1>1. ~Delayed(o)
  <2> SUFFICES ASSUME Delayed(o) PROVE FALSE
    OBVIOUS
  <2>1. PICK c \in Delayable, d \in Delays :
          \/ todo[o] = <<Writing(c), Arming(c, d), Respond>>
          \/ todo[o] = <<Arming(c, d), Respond>>
    BY DEF Delayed
  <2>2. Head(todo[o]) \in {Writing(c), Arming(c, d)}
    BY <2>1, DelayedProgram
  <2> QED BY <2>2, DelayedDiffer DEF At
<1>2. /\ todo[o] # <<>> /\ Sane(todo[o]) /\ h = Head(todo[o])
      /\ todo' = [todo EXCEPT ![o] = Tail(todo[o])]
  BY <1>1 DEF Shaped, At, Advance
<1>3. /\ Sane(Tail(todo[o])) /\ Has(todo[o], h)
      /\ \A x : Has(Tail(todo[o]), x) <=> Has(todo[o], x) /\ x # h
  BY <1>2, SaneTail
<1>4. /\ todo' \in [Origins -> Seq(Steps)] /\ todo'[o] = Tail(todo[o])
      /\ \A u \in Origins : u # o => todo'[u] = todo[u]
  <2>1. Tail(todo[o]) \in Seq(Steps)
    BY <1>3, PlainAreSteps DEF Sane
  <2> QED BY <1>2, <2>1 DEF Typed
<1>5. Shaped'
  <2>1. ASSUME NEW u \in Origins PROVE (Sane(todo[u]) \/ Delayed(u))'
    <3>1. CASE u = o
      BY <1>3, <1>4, <3>1
    <3>2. CASE u # o
      BY <1>4, <3>2 DEF Shaped, Delayed
    <3> QED BY <3>1, <3>2
  <2> QED BY <2>1 DEF Shaped
<1>6. Alone'
  BY <1>2, <1>4 DEF Alone
<1>7. ~overlapped => \A x : Left(x)' <=> Left(x) /\ x # h
  <2> SUFFICES ASSUME ~overlapped, NEW x PROVE Left(x)' <=> Left(x) /\ x # h
    OBVIOUS
  <2>1. \A u \in Origins : u # o => todo[u] = <<>>
    BY <1>2 DEF Alone
  <2> QED BY <1>3, <1>4, <2>1, Empty DEF Left
<1>8. Left(h)
  BY <1>3 DEF Left
<1>9. Arms => Arms'
  <2> SUFFICES ASSUME Arms PROVE Arms'
    OBVIOUS
  <2>1. PICK u \in Origins, c \in Delayable, d \in Delays :
          todo[u] = <<Arming(c, d), Respond>>
    BY DEF Arms
  <2>2. u # o
    BY <1>2, <2>1, DelayedProgram, DelayedDiffer
  <2> QED BY <1>4, <2>1, <2>2 DEF Arms
<1> QED BY <1>2, <1>3, <1>4, <1>5, <1>6, <1>7, <1>8, <1>9

-----------------------------------------------------------------------------
(* Commands begin.                                                         *)

\* What begins with the switches of a command makes them the goal.
LEMMA SwitchingBegins ==
  ASSUME IInv, NEW o \in Origins, NEW c \in AllCommands, NEW p, Does(p, c),
         Begin(o, p), goal' = GoalAfter(goal, c), UNCHANGED <<ble, wifi,
                                                              stopDue, action>>
  PROVE  /\ todo' \in [Origins -> Seq(Steps)] /\ todo'[o] = p
         /\ \A u \in Origins : u # o => todo'[u] = todo[u]
         /\ overlapped' \in BOOLEAN /\ goal' \in [ble : BOOLEAN, wifi : BOOLEAN]
         /\ overlapped => overlapped'
         /\ Shaped' /\ Alone' /\ Ending' /\ (Arms => Arms')
<1>1. p \in Seq(Steps) /\ Sane(p)
  BY PlainAreSteps DEF Does, Sane
<1>2. /\ todo' \in [Origins -> Seq(Steps)] /\ todo'[o] = p
      /\ \A u \in Origins : u # o => todo'[u] = todo[u]
      /\ overlapped' \in BOOLEAN /\ Alone'
      /\ overlapped => overlapped'
      /\ ~overlapped' => \A x : ~Left(x) /\ (Left(x)' <=> Has(p, x))
      /\ Arms => Arms'
  BY <1>1, Begun DEF IInv
<1>3. /\ goal' \in [ble : BOOLEAN, wifi : BOOLEAN]
      /\ goal'.ble <=> c \in TurnsBleOn \/ (c \notin TurnsBleOff /\ goal.ble)
      /\ goal'.wifi <=> c \in TurnsWifiOn \/ (c \notin TurnsWifiOff /\ goal.wifi)
  BY DEF IInv, Typed, GoalAfter, TurnsBleOn, TurnsBleOff, TurnsWifiOn, TurnsWifiOff
<1>4. Shaped'
  <2>1. ASSUME NEW u \in Origins PROVE (Sane(todo[u]) \/ Delayed(u))'
    <3>1. CASE u = o
      BY <1>1, <1>2, <3>1
    <3>2. CASE u # o
      BY <1>2, <3>2 DEF IInv, Shaped, Delayed
    <3> QED BY <3>1, <3>2
  <2> QED BY <2>1 DEF Shaped
<1>5. Ending'
  <2> SUFFICES ASSUME ~overlapped' PROVE Ending'
    BY DEF Ending
  <2>1. ~overlapped /\ \A x : ~Left(x) /\ (Left(x)' <=> Has(p, x))
    BY <1>2 DEF IInv, Typed
  <2>2. /\ goal.ble <=> ble /\ stopDue = Never
        /\ goal.wifi <=> wifi
    BY <2>1 DEF IInv, Ending
  <2>3. goal'.ble <=> \/ Left(BleOn)'
                      \/ ble /\ ~Left(BleOff)' /\ ~Left(AskStop)' /\ stopDue = Never
    BY <1>3, <2>1, <2>2 DEF Does
  <2>4. goal'.wifi <=> Left(WifiOn)' \/ (wifi /\ ~Left(WifiOff)')
    BY <1>3, <2>1, <2>2 DEF Does
  <2> QED BY <2>3, <2>4 DEF Ending
<1> QED BY <1>2, <1>3, <1>4, <1>5

LEMMA GiveNowKeeps ==
  ASSUME IInv, NEW o \in Origins, NEW c \in AllCommands, GiveNow(o, c)
  PROVE  IInv'
<1> DEFINE p == Immediate(o, c)
<1>1. /\ Up(o) /\ Begin(o, p) /\ goal' = GoalAfter(goal, c)
      /\ UNCHANGED <<ble, wifi, ready, action, actionDue, stopDue, now,
                     promises, crowded, unanswered>>
  BY DEF GiveNow
<1>2. Does(p, c) /\ (o = "ble" => ~Has(p, BleOff))
  BY ImmediateDoes
<1> HIDE DEF p
<1>3. /\ todo' \in [Origins -> Seq(Steps)] /\ todo'[o] = p
      /\ \A u \in Origins : u # o => todo'[u] = todo[u]
      /\ overlapped' \in BOOLEAN /\ goal' \in [ble : BOOLEAN, wifi : BOOLEAN]
      /\ overlapped => overlapped'
      /\ Shaped' /\ Alone' /\ Ending' /\ (Arms => Arms')
  BY <1>1, <1>2, SwitchingBegins
<1>4. Typed'
  BY <1>1, <1>3 DEF IInv, Typed
<1>5. Answering'
  <2>1. CASE o = "ble"
    BY <1>1, <1>2, <1>3, <2>1 DEF IInv, Answering, Up
  <2>2. CASE o # "ble"
    BY <1>1, <1>3, <2>2, OriginsAre DEF IInv, Answering
  <2> QED BY <2>1, <2>2
<1>6. Promising'
  BY <1>1, <1>3 DEF IInv, Promising
<1> QED BY <1>3, <1>4, <1>5, <1>6 DEF IInv

LEMMA GiveDelayedKeeps ==
  ASSUME IInv, NEW o \in Origins, NEW c \in Delayable, NEW d \in Delays,
         GiveDelayed(o, c, d)
  PROVE  IInv'
<1> DEFINE p == <<Writing(c), Arming(c, d), Respond>>
<1>1. /\ Up(o) /\ Begin(o, p)
      /\ UNCHANGED <<ble, wifi, ready, action, actionDue, stopDue, now, goal,
                     promises, crowded, unanswered>>
  BY DEF GiveDelayed, Writing, Arming
<1>2. p \in Seq(Steps) /\ \A x \in PlainSteps : Has(p, x) <=> x = Respond
  BY DelayedProgram
<1>3. /\ todo' \in [Origins -> Seq(Steps)] /\ todo'[o] = p
      /\ \A u \in Origins : u # o => todo'[u] = todo[u]
      /\ overlapped' \in BOOLEAN /\ Alone'
      /\ overlapped => overlapped'
      /\ ~overlapped' => \A x : ~Left(x) /\ (Left(x)' <=> Has(p, x))
      /\ Arms => Arms'
  <2> HIDE DEF p
  <2> QED BY <1>1, <1>2, Begun DEF IInv
<1>4. Shaped'
  <2>1. ASSUME NEW u \in Origins PROVE (Sane(todo[u]) \/ Delayed(u))'
    <3>1. CASE u = o
      BY <1>3, <3>1 DEF Delayed
    <3>2. CASE u # o
      BY <1>1, <1>3, <3>2 DEF IInv, Shaped, Delayed
    <3> QED BY <3>1, <3>2
  <2> QED BY <2>1 DEF Shaped
<1> HIDE DEF p
<1>5. Typed'
  BY <1>1, <1>3 DEF IInv, Typed
<1>6. {BleOn, BleOff, WifiOn, WifiOff, AskStop, Respond} \subseteq PlainSteps
  BY DEF PlainSteps
<1>7. Answering'
  <2>1. CASE o = "ble"
    BY <1>1, <1>2, <1>3, <1>6, <2>1, StepsDiffer DEF IInv, Answering, Up
  <2>2. CASE o # "ble"
    BY <1>1, <1>3, <2>2, OriginsAre DEF IInv, Answering
  <2> QED BY <2>1, <2>2
<1>8. Ending'
  BY <1>1, <1>2, <1>3, <1>6, StepsDiffer DEF IInv, Ending
<1>9. Promising'
  BY <1>1, <1>3 DEF IInv, Promising
<1> QED BY <1>3, <1>4, <1>5, <1>7, <1>8, <1>9 DEF IInv

-----------------------------------------------------------------------------
(* Commands go on.                                                         *)

\* What the steps of immediate commands have in common.
LEMMA PlainStepKeeps ==
  ASSUME IInv, NEW o \in Origins, NEW h \in PlainSteps, At(o, h), Advance(o),
         UNCHANGED <<action, actionDue, overlapped, now, promises, crowded>>
  PROVE  Shaped' /\ Alone' /\ Promising' /\ todo' \in [Origins -> Seq(Steps)]
<1>1. Shaped' /\ Alone' /\ (Arms => Arms') /\ todo' \in [Origins -> Seq(Steps)]
  BY Advanced DEF IInv
<1> QED BY <1>1 DEF IInv, Promising

LEMMA SwitchBleKeeps ==
  ASSUME IInv, NEW o \in Origins,
         SwitchBleOn(o) \/ BleOnFails(o) \/ SwitchBleOff(o)
  PROVE  IInv'
<1>1. CASE SwitchBleOn(o) \/ BleOnFails(o)
  <2>1. /\ At(o, BleOn) /\ Advance(o) /\ stopDue' = Never
        /\ \/ ble' = TRUE /\ ready' = TRUE /\ goal' = goal
           \/ /\ ble' = FALSE /\ ready' = ready /\ ~ready
              /\ goal' = [goal EXCEPT !.ble = FALSE]
        /\ UNCHANGED <<wifi, action, actionDue, now, given, promises, crowded,
                       overlapped, unanswered>>
        /\ BleOn \in PlainSteps
    BY <1>1 DEF SwitchBleOn, BleOnFails, CancelStop, PlainSteps
  <2>2. Shaped' /\ Alone' /\ Promising' /\ todo' \in [Origins -> Seq(Steps)]
    BY <2>1, PlainStepKeeps
  <2>3. /\ Sane(todo[o]) /\ Has(todo[o], BleOn)
        /\ \A x : Has(todo'[o], x) <=> Has(todo[o], x) /\ x # BleOn
        /\ \A u \in Origins : u # o => todo'[u] = todo[u]
        /\ ~overlapped => \A x : Left(x)' <=> Left(x) /\ x # BleOn
        /\ Left(BleOn)
    BY <2>1, Advanced DEF IInv
  <2>4. Typed'
    BY <2>1, <2>2 DEF IInv, Typed
  <2>5. Answering'
    <3>1. CASE ble' = TRUE
      BY <2>1, <2>3, <3>1, OriginsAre DEF IInv, Answering
    <3>2. CASE ~ready
      <4>1. ~overlapped => ~Has(todo["ble"], Respond)
        BY <3>2 DEF IInv, Typed, Answering
      <4> QED BY <2>1, <2>3, <4>1, OriginsAre DEF IInv, Answering
    <3> QED BY <2>1, <3>1, <3>2
  <2>6. Ending'
    <3>1. ~overlapped => ~Left(BleOff) /\ ~Left(AskStop)
      <4>1. ASSUME ~overlapped, NEW u \in Origins, u # o PROVE \A x : ~Has(todo[u], x)
        <5>1. todo[u] = <<>>
          BY <2>1, <4>1 DEF IInv, Alone, At
        <5> QED BY <5>1, Empty
      <4> QED BY <2>3, <4>1 DEF Left, Sane
    <3>2. /\ goal'.wifi = goal.wifi
          /\ goal'.ble = IF ble' THEN goal.ble ELSE FALSE
      BY <2>1 DEF IInv, Typed
    <3> QED BY <2>1, <2>3, <3>1, <3>2, StepsDiffer DEF IInv, Ending
  <2> QED BY <2>2, <2>4, <2>5, <2>6 DEF IInv
<1>2. CASE SwitchBleOff(o)
  <2>1. /\ At(o, BleOff) /\ Advance(o) /\ ble' = FALSE
        /\ UNCHANGED <<wifi, ready, action, actionDue, stopDue, now, given,
                       goal, promises, crowded, overlapped, unanswered>>
        /\ BleOff \in PlainSteps
    BY <1>2 DEF SwitchBleOff, PlainSteps
  <2>2. Shaped' /\ Alone' /\ Promising' /\ todo' \in [Origins -> Seq(Steps)]
    BY <2>1, PlainStepKeeps
  <2>3. /\ Has(todo[o], BleOff)
        /\ \A x : Has(todo'[o], x) <=> Has(todo[o], x) /\ x # BleOff
        /\ \A u \in Origins : u # o => todo'[u] = todo[u]
        /\ ~overlapped => \A x : Left(x)' <=> Left(x) /\ x # BleOff
        /\ Left(BleOff)
    BY <2>1, Advanced DEF IInv
  <2>4. Typed'
    BY <2>1, <2>2 DEF IInv, Typed
  <2>5. Answering'
    <3>1. ~overlapped' => ~Has(todo'["ble"], Respond)
      <4>1. CASE o = "ble"
        BY <2>3, <4>1 DEF IInv, Answering
      <4>2. CASE o # "ble"
        <5>1. ~overlapped => todo["ble"] = <<>>
          BY <2>1, <4>2, OriginsAre DEF IInv, Alone, At
        <5> QED BY <2>1, <2>3, <4>2, <5>1, OriginsAre, Empty
      <4> QED BY <4>1, <4>2
    <3> QED BY <2>1, <2>3, <3>1, OriginsAre DEF IInv, Answering
  <2>6. Ending'
    BY <2>1, <2>3, StepsDiffer DEF IInv, Ending
  <2> QED BY <2>2, <2>4, <2>5, <2>6 DEF IInv
<1> QED BY <1>1, <1>2

LEMMA SwitchWifiKeeps ==
  ASSUME IInv, NEW o \in Origins, NEW on \in BOOLEAN, SwitchWifi(o, on)
  PROVE  IInv'
<1> DEFINE h == IF on THEN WifiOn ELSE WifiOff
<1>1. /\ At(o, h) /\ Advance(o) /\ wifi' = on
      /\ UNCHANGED <<ble, ready, action, actionDue, stopDue, now, given, goal,
                     promises, crowded, overlapped, unanswered>>
      /\ h \in PlainSteps /\ h \in {WifiOn, WifiOff}
  BY DEF SwitchWifi, PlainSteps
<1>2. (h = WifiOn <=> on) /\ (h = WifiOff <=> ~on)
  BY StepsDiffer
<1> HIDE DEF h
<1>3. Shaped' /\ Alone' /\ Promising' /\ todo' \in [Origins -> Seq(Steps)]
  BY <1>1, PlainStepKeeps
<1>4. /\ Sane(todo[o]) /\ Has(todo[o], h)
      /\ \A x : Has(todo'[o], x) <=> Has(todo[o], x) /\ x # h
      /\ \A u \in Origins : u # o => todo'[u] = todo[u]
      /\ ~overlapped => \A x : Left(x)' <=> Left(x) /\ x # h
      /\ Left(h)
  BY <1>1, Advanced DEF IInv
<1>5. Typed'
  BY <1>1, <1>3 DEF IInv, Typed
<1>6. Answering'
  BY <1>1, <1>4, StepsDiffer, OriginsAre DEF IInv, Answering
<1>7. Ending'
  <2>1. ~overlapped => ~(Left(WifiOn) /\ Left(WifiOff))
    <3>1. ASSUME ~overlapped, NEW u \in Origins, u # o PROVE \A x : ~Has(todo[u], x)
      <4>1. todo[u] = <<>>
        BY <1>1, <3>1 DEF IInv, Alone, At
      <4> QED BY <4>1, Empty
    <3> QED BY <1>4, <3>1 DEF Left, Sane
  <2> QED BY <1>1, <1>2, <1>4, <2>1, StepsDiffer DEF IInv, Ending
<1> QED BY <1>3, <1>5, <1>6, <1>7 DEF IInv

LEMMA ArmSelfStopKeeps ==
  ASSUME IInv, NEW o \in Origins, ArmSelfStop(o)
  PROVE  IInv'
<1>1. /\ At(o, AskStop) /\ Advance(o)
      /\ stopDue' = IF stopDue = Never THEN now + SelfStop ELSE stopDue
      /\ UNCHANGED <<ble, wifi, ready, action, actionDue, now, given, goal,
                     promises, crowded, overlapped, unanswered>>
      /\ AskStop \in PlainSteps
  BY DEF ArmSelfStop, PlainSteps
<1>2. stopDue' \in Nat
  BY <1>1, DelayAssumption DEF IInv, Typed
<1>3. stopDue' # Never
  BY <1>2 DEF Never
<1>4. Shaped' /\ Alone' /\ Promising' /\ todo' \in [Origins -> Seq(Steps)]
  BY <1>1, PlainStepKeeps
<1>5. /\ Sane(todo[o]) /\ Has(todo[o], AskStop)
      /\ \A x : Has(todo'[o], x) <=> Has(todo[o], x) /\ x # AskStop
      /\ \A u \in Origins : u # o => todo'[u] = todo[u]
      /\ ~overlapped => \A x : Left(x)' <=> Left(x) /\ x # AskStop
      /\ Left(AskStop)
  BY <1>1, Advanced DEF IInv
<1>6. Typed'
  BY <1>1, <1>2, <1>4 DEF IInv, Typed
<1>7. Answering'
  BY <1>1, <1>5, StepsDiffer, OriginsAre DEF IInv, Answering
<1>8. Ending'
  BY <1>1, <1>3, <1>5, StepsDiffer DEF IInv, Ending
<1> QED BY <1>4, <1>6, <1>7, <1>8 DEF IInv

LEMMA AnswerKeeps ==
  ASSUME IInv, NEW o \in Origins, Answer(o)
  PROVE  IInv'
<1>1. /\ At(o, Respond) /\ Advance(o)
      /\ unanswered' = IF Up(o) THEN unanswered ELSE unanswered \cup {o}
      /\ UNCHANGED <<ble, wifi, ready, action, actionDue, stopDue, now, given,
                     goal, promises, crowded, overlapped>>
      /\ Respond \in PlainSteps
  BY DEF Answer, PlainSteps
<1>2. Shaped' /\ Alone' /\ Promising' /\ todo' \in [Origins -> Seq(Steps)]
  BY <1>1, PlainStepKeeps
<1>3. /\ Has(todo[o], Respond)
      /\ \A x : Has(todo'[o], x) <=> Has(todo[o], x) /\ x # Respond
      /\ \A u \in Origins : u # o => todo'[u] = todo[u]
      /\ ~overlapped => \A x : Left(x)' <=> Left(x) /\ x # Respond
  BY <1>1, Advanced DEF IInv
<1>4. Typed'
  BY <1>1, <1>2 DEF IInv, Typed
<1>5. Answering'
  <2>1. ~overlapped => "ble" \notin unanswered'
    BY <1>1, <1>3 DEF IInv, Answering, Up
  <2> QED BY <1>1, <1>3, <2>1, StepsDiffer, OriginsAre DEF IInv, Answering
<1>6. Ending'
  BY <1>1, <1>3, StepsDiffer DEF IInv, Ending
<1> QED BY <1>2, <1>4, <1>5, <1>6 DEF IInv

\* A path writes the action it asks for.
LEMMA WriteActionKeeps ==
  ASSUME IInv, NEW o \in Origins, WriteAction(o)
  PROVE  IInv'
<1>1. PICK c \in Delayable : At(o, Writing(c)) /\ action' = c
  BY DEF WriteAction, Writing
<1>2. PICK d \in Delays : todo[o] = <<Writing(c), Arming(c, d), Respond>>
  <2>1. Head(todo[o]) = Writing(c) /\ todo[o] # <<>>
    BY <1>1 DEF At
  <2>2. Delayed(o)
    BY <2>1, SaneTail, DelayedDiffer DEF IInv, Shaped
  <2>3. PICK e \in Delayable, d \in Delays :
          \/ todo[o] = <<Writing(e), Arming(e, d), Respond>>
          \/ todo[o] = <<Arming(e, d), Respond>>
    BY <2>2 DEF Delayed
  <2>4. todo[o] = <<Writing(e), Arming(e, d), Respond>> /\ e = c
    BY <2>1, <2>3, DelayedProgram, ArmingDiffers
  <2> QED BY <2>4
<1> DEFINE t == <<Arming(c, d), Respond>>
<1>3. /\ t \in Seq(Steps) /\ Tail(todo[o]) = t /\ todo[o] # <<>>
      /\ \A x \in PlainSteps : Has(t, x) <=> Has(todo[o], x)
  BY <1>1, <1>2, DelayedProgram DEF At
<1>4. UNCHANGED <<ble, wifi, ready, actionDue, stopDue, now, given, goal,
                  promises, crowded, overlapped, unanswered>>
  BY DEF WriteAction
<1>5. /\ todo' \in [Origins -> Seq(Steps)] /\ todo'[o] = t
      /\ \A u \in Origins : u # o => todo'[u] = todo[u]
  <2>1. todo' = [todo EXCEPT ![o] = t]
    BY <1>3 DEF WriteAction, Advance
  <2> HIDE DEF t
  <2> QED BY <1>3, <2>1 DEF IInv, Typed
<1>6. Arms'
  BY <1>5 DEF Arms
<1>7. Shaped'
  <2>1. ASSUME NEW u \in Origins PROVE (Sane(todo[u]) \/ Delayed(u))'
    <3>1. CASE u = o
      BY <1>1, <1>5, <3>1 DEF Delayed
    <3>2. CASE u # o /\ Sane(todo[u])
      BY <1>5, <3>2
    <3>3. CASE u # o /\ Delayed(u)
      <4>1. PICK e \in Delayable, f \in Delays :
              \/ todo[u] = <<Writing(e), Arming(e, f), Respond>>
              \/ todo[u] = <<Arming(e, f), Respond>>
        BY <3>3 DEF Delayed
      <4>2. todo[u] # <<>>
        <5>1. <<Writing(e), Arming(e, f), Respond>> # <<>> /\ <<Arming(e, f), Respond>> # <<>>
          OBVIOUS
        <5> QED BY <4>1, <5>1
      <4>3. overlapped
        BY <1>3, <3>3, <4>2 DEF IInv, Alone
      <4> QED BY <1>1, <1>4, <1>5, <3>3, <4>1, <4>3 DEF Delayed
    <3> QED BY <3>1, <3>2, <3>3 DEF IInv, Shaped
  <2> QED BY <2>1 DEF Shaped
<1> HIDE DEF t
<1>8. Typed'
  BY <1>1, <1>4, <1>5 DEF IInv, Typed
<1>9. Alone'
  BY <1>3, <1>4, <1>5 DEF IInv, Alone
<1>10. {BleOn, BleOff, WifiOn, WifiOff, AskStop, Respond} \subseteq PlainSteps
  BY DEF PlainSteps
<1>11. Answering'
  BY <1>3, <1>4, <1>5, <1>10, OriginsAre DEF IInv, Answering
<1>12. Ending'
  <2>1. \A x \in PlainSteps : Left(x)' <=> Left(x)
    BY <1>3, <1>5 DEF Left
  <2> QED BY <1>4, <1>10, <2>1 DEF IInv, Ending
<1>13. Promising'
  BY <1>4, <1>6 DEF IInv, Promising
<1> QED BY <1>7, <1>8, <1>9, <1>11, <1>12, <1>13 DEF IInv

\* A path schedules its action: the first one to do so, alone, has also
\* written it.
LEMMA ArmActionKeeps ==
  ASSUME IInv, NEW o \in Origins, ArmAction(o)
  PROVE  IInv'
<1>1. PICK d \in Delays, c \in Delayable :
        /\ At(o, Arming(c, d)) /\ actionDue' = Armed(d)
        /\ promises' = promises \cup {[what |-> c, due |-> now + d]}
  BY DEF ArmAction, Arming
<1>2. /\ todo[o] = <<Arming(c, d), Respond>> /\ action \in Delayable
      /\ overlapped \/ action = c
  <2>1. Head(todo[o]) = Arming(c, d) /\ todo[o] # <<>>
    BY <1>1 DEF At
  <2>2. Delayed(o)
    BY <2>1, SaneTail, DelayedDiffer DEF IInv, Shaped
  <2>3. PICK e \in Delayable, f \in Delays :
          \/ todo[o] = <<Writing(e), Arming(e, f), Respond>>
          \/ /\ todo[o] = <<Arming(e, f), Respond>>
             /\ action \in Delayable /\ (overlapped \/ action = e)
    BY <2>2 DEF Delayed
  <2>4. Head(todo[o]) # Writing(e)
    BY <2>1, ArmingDiffers
  <2>5. /\ todo[o] = <<Arming(e, f), Respond>>
        /\ action \in Delayable /\ (overlapped \/ action = e)
    BY <2>3, <2>4, DelayedProgram
  <2>6. e = c /\ f = d
    <3>1. Head(todo[o]) = Arming(e, f)
      BY <2>5, DelayedProgram
    <3> QED BY <2>1, <3>1, ArmingDiffers
  <2> QED BY <2>5, <2>6
<1> DEFINE t == <<Respond>>
<1>3. /\ t \in Seq(Steps) /\ Tail(todo[o]) = t /\ todo[o] # <<>> /\ Sane(t)
      /\ \A x \in PlainSteps : Has(t, x) <=> Has(todo[o], x)
  <2>1. Respond \in PlainSteps
    BY DEF PlainSteps
  <2>2. Sane(t) /\ \A x : Has(t, x) <=> x = Respond
    BY <2>1, OneStep
  <2> QED BY <1>1, <1>2, <2>2, DelayedProgram DEF At
<1>4. /\ UNCHANGED <<ble, wifi, ready, action, stopDue, now, given, goal,
                     overlapped, unanswered>>
      /\ crowded' = (crowded \/ actionDue # Never \/ overlapped)
  BY DEF ArmAction
<1> HIDE DEF t
<1>5. /\ todo' \in [Origins -> Seq(Steps)] /\ todo'[o] = t
      /\ \A u \in Origins : u # o => todo'[u] = todo[u]
  <2>1. todo' = [todo EXCEPT ![o] = t]
    BY <1>3 DEF ArmAction, Advance
  <2> QED BY <1>3, <2>1 DEF IInv, Typed
<1>6. Shaped'
  <2>1. ASSUME NEW u \in Origins PROVE (Sane(todo[u]) \/ Delayed(u))'
    <3>1. CASE u = o
      BY <1>3, <1>5, <3>1
    <3>2. CASE u # o
      BY <1>4, <1>5, <3>2 DEF IInv, Shaped, Delayed
    <3> QED BY <3>1, <3>2
  <2> QED BY <2>1 DEF Shaped
<1>7. now \in Nat /\ d \in Nat /\ now + d \in Nat
  BY DelayAssumption DEF IInv, Typed
<1>8. Typed'
  <2>1. actionDue' \in Nat \cup {Never}
    BY <1>1, <1>7 DEF IInv, Typed, Armed
  <2> QED BY <1>2, <1>4, <1>5, <2>1 DEF IInv, Typed
<1>9. Alone'
  BY <1>3, <1>4, <1>5 DEF IInv, Alone
<1>10. {BleOn, BleOff, WifiOn, WifiOff, AskStop, Respond} \subseteq PlainSteps
  BY DEF PlainSteps
<1>11. Answering'
  BY <1>3, <1>4, <1>5, <1>10, OriginsAre DEF IInv, Answering
<1>12. Ending'
  <2>1. \A x \in PlainSteps : Left(x)' <=> Left(x)
    BY <1>3, <1>5 DEF Left
  <2> QED BY <1>4, <1>10, <2>1 DEF IInv, Ending
<1>13. Promising'
  <2> SUFFICES ASSUME ~crowded' PROVE Promising'
    BY DEF Promising
  <2>1. ~crowded /\ actionDue = Never /\ ~overlapped
    BY <1>4
  <2>2. promises = {}
    BY <2>1 DEF IInv, Promising, Never
  <2>3. promises' = {[what |-> c, due |-> now + d]} /\ actionDue' = now + d /\ action' = c
    BY <1>1, <1>2, <1>4, <2>1, <2>2 DEF Armed
  <2>4. now' <= now + d
    BY <1>4, <1>7
  <2> QED BY <1>7, <2>3, <2>4 DEF Promising
<1> QED BY <1>6, <1>8, <1>9, <1>11, <1>12, <1>13 DEF IInv

-----------------------------------------------------------------------------
(* The system workqueue and the clock.                                     *)

LEMMA ActionFiresKeeps ==
  ASSUME IInv, ActionFires
  PROVE  IInv'
<1> DEFINE p == Switches(action)
<1>1. /\ actionDue # Never /\ actionDue <= now /\ Begin("ble", p) /\ actionDue' = Never
      /\ goal' = GoalAfter(goal, action)
      /\ promises' = promises \ {[what |-> action, due |-> now]}
      /\ UNCHANGED <<ble, wifi, ready, action, stopDue, now, given, crowded,
                     unanswered>>
  BY DEF ActionFires
<1>2. action \in Delayable /\ action \in AllCommands
  BY <1>1 DEF IInv, Typed, AllCommands
<1>3. Does(p, action) /\ ~Has(p, Respond)
  BY <1>2, SwitchesDo
<1> HIDE DEF p
<1>4. /\ todo' \in [Origins -> Seq(Steps)] /\ todo'["ble"] = p
      /\ overlapped' \in BOOLEAN /\ goal' \in [ble : BOOLEAN, wifi : BOOLEAN]
      /\ overlapped => overlapped'
      /\ Shaped' /\ Alone' /\ Ending' /\ (Arms => Arms')
  BY <1>1, <1>2, <1>3, OriginsAre, SwitchingBegins
<1>5. Typed'
  BY <1>1, <1>2, <1>4 DEF IInv, Typed
<1>6. Answering'
  BY <1>1, <1>3, <1>4 DEF IInv, Answering
<1>7. Promising'
  <2> SUFFICES ASSUME ~crowded', promises # {} PROVE Promising'
    BY <1>1 DEF Promising
  <2>1. PICK w \in Delayable, due \in Nat :
          /\ promises = {[what |-> w, due |-> due]}
          /\ actionDue = due /\ now <= due /\ (action = w \/ Arms)
    BY <1>1 DEF IInv, Promising
  <2>2. due = now
    BY <1>1, <2>1 DEF IInv, Typed
  <2>3. CASE action = w
    <3>1. promises' = {}
      BY <1>1, <2>1, <2>2, <2>3
    <3> QED BY <3>1 DEF Promising
  <2>4. CASE action # w /\ Arms
    <3>1. promises' = promises
      BY <1>1, <2>1, <2>4
    <3>2. overlapped'
      <4>1. PICK u \in Origins, c \in Delayable, d \in Delays :
              todo[u] = <<Arming(c, d), Respond>>
        BY <2>4 DEF Arms
      <4>2. <<Arming(c, d), Respond>> # <<>>
        OBVIOUS
      <4> QED BY <1>1, <4>1, <4>2 DEF Begin, Idle
    <3> QED BY <1>1, <1>4, <2>1, <2>2, <2>4, <3>1, <3>2 DEF Promising
  <2> QED BY <2>1, <2>3, <2>4
<1> QED BY <1>4, <1>5, <1>6, <1>7 DEF IInv

LEMMA SelfStopFiresKeeps ==
  ASSUME IInv, SelfStopFires
  PROVE  IInv'
<1> DEFINE p == <<BleOff>>
<1>1. /\ stopDue # Never /\ Begin("ble", p) /\ stopDue' = Never
      /\ UNCHANGED <<ble, wifi, ready, action, actionDue, now, given, goal,
                     promises, crowded, unanswered>>
  BY DEF SelfStopFires
<1>2. Sane(p) /\ p \in Seq(Steps) /\ \A y : Has(p, y) <=> y = BleOff
  <2>1. BleOff \in PlainSteps
    BY DEF PlainSteps
  <2> QED BY <2>1, OneStep DEF Steps
<1> HIDE DEF p
<1>3. /\ todo' \in [Origins -> Seq(Steps)] /\ todo'["ble"] = p
      /\ \A u \in Origins : u # "ble" => todo'[u] = todo[u]
      /\ overlapped' \in BOOLEAN /\ Alone'
      /\ overlapped => overlapped'
      /\ ~overlapped' => \A x : ~Left(x) /\ (Left(x)' <=> Has(p, x))
      /\ Arms => Arms'
  BY <1>1, <1>2, OriginsAre, Begun DEF IInv
<1>4. Shaped'
  <2>1. ASSUME NEW u \in Origins PROVE (Sane(todo[u]) \/ Delayed(u))'
    <3>1. CASE u = "ble"
      BY <1>2, <1>3, <3>1
    <3>2. CASE u # "ble"
      BY <1>1, <1>3, <3>2 DEF IInv, Shaped, Delayed
    <3> QED BY <3>1, <3>2
  <2> QED BY <2>1 DEF Shaped
<1>5. Typed'
  BY <1>1, <1>3 DEF IInv, Typed
<1>6. Answering'
  BY <1>1, <1>2, <1>3, StepsDiffer DEF IInv, Answering
<1>7. Ending'
  BY <1>1, <1>2, <1>3, StepsDiffer DEF IInv, Ending
<1>8. Promising'
  BY <1>1, <1>3 DEF IInv, Promising
<1> QED BY <1>3, <1>4, <1>5, <1>6, <1>7, <1>8 DEF IInv

LEMMA TickKeeps ==
  ASSUME IInv, Tick
  PROVE  IInv'
<1>1. /\ Idle /\ actionDue # now /\ now' = now + 1
      /\ UNCHANGED <<ble, wifi, ready, action, actionDue, stopDue, todo, given,
                     goal, promises, crowded, overlapped, unanswered>>
  BY DEF Tick
<1>2. Typed'
  BY <1>1 DEF IInv, Typed
<1>3. Shaped' /\ Alone' /\ Answering' /\ Ending'
  BY <1>1 DEF IInv, Shaped, Delayed, Alone, Answering, Ending, Left
<1>4. ~Arms
  <2>1. \A c, d : <<Arming(c, d), Respond>> # <<>>
    OBVIOUS
  <2> QED BY <1>1, <2>1 DEF Idle, Arms
<1>5. Promising'
  <2> SUFFICES ASSUME ~crowded', promises # {} PROVE Promising'
    BY <1>1 DEF Promising
  <2>1. PICK w \in Delayable, due \in Nat :
          /\ promises = {[what |-> w, due |-> due]}
          /\ actionDue = due /\ now <= due /\ action = w
    BY <1>1, <1>4 DEF IInv, Promising
  <2>2. now' <= due
    BY <1>1, <2>1 DEF IInv, Typed
  <2> QED BY <1>1, <2>1, <2>2 DEF Promising
<1> QED BY <1>2, <1>3, <1>5 DEF IInv

-----------------------------------------------------------------------------
(* The invariant holds.                                                    *)

LEMMA InitHolds == Init => IInv
<1> SUFFICES ASSUME Init PROVE IInv
  OBVIOUS
<1>1. Typed
  <2>1. <<>> \in Seq(Steps)
    OBVIOUS
  <2> QED BY <2>1 DEF Init, Typed, Never
<1>2. Shaped /\ Alone /\ Answering /\ Ending /\ Promising
  BY Empty, OriginsAre DEF Init, Shaped, Alone, Answering, Ending, Left, Promising
<1> QED BY <1>1, <1>2 DEF IInv

LEMMA StepHolds == IInv /\ [Next]_vars => IInv'
<1> SUFFICES ASSUME IInv, [Next]_vars PROVE IInv'
  OBVIOUS
<1>1. ASSUME NEW o \in Origins, NEW c \in Commands, GiveNow(o, c) PROVE IInv'
  BY <1>1, CommandAssumption, GiveNowKeeps
<1>2. ASSUME NEW o \in Origins, NEW c \in Commands \cap Delayable, NEW d \in Delays,
             GiveDelayed(o, c, d)
      PROVE  IInv'
  BY <1>2, GiveDelayedKeeps
<1>3. ASSUME NEW o \in Origins, Step(o) PROVE IInv'
  BY <1>3, SwitchBleKeeps, SwitchWifiKeeps, WriteActionKeeps, ArmActionKeeps,
     ArmSelfStopKeeps, AnswerKeeps DEF Step
<1>4. CASE UNCHANGED vars
  BY <1>4 DEF vars, IInv, Typed, Shaped, Delayed, Alone, Answering, Ending, Left,
              Promising, Arms
<1> QED BY <1>1, <1>2, <1>3, <1>4, ActionFiresKeeps, SelfStopFiresKeeps, TickKeeps DEF Next

LEMMA IInvHolds == Spec => []IInv
BY InitHolds, StepHolds, PTL DEF Spec

-----------------------------------------------------------------------------

\* Whatever commands, immediate and delayed, came by whatever path, once none
\* is under way the radios are as the commands ask, in their order, as long as
\* no two ran at the same time; a BLE service that could not be brought up is
\* left off (wt_radio_mode_apply; wt_ble_service_start cancels the self-stop of
\* an earlier command, and withdraws its request when bt_enable fails).
THEOREM RadiosEndAsAsked == Spec => []RadiosAsAsked
<1>1. IInv => RadiosAsAsked
  <2> SUFFICES ASSUME IInv, Idle, stopDue = Never, ~overlapped
               PROVE  ble = goal.ble /\ wifi = goal.wifi
    BY DEF RadiosAsAsked
  <2>1. \A x : ~Left(x)
    BY Empty DEF Idle, Left
  <2> QED BY <2>1 DEF IInv, Typed, Ending
<1> QED BY <1>1, IInvHolds, PTL

\* A command over BLE that turns BLE off is answered while the service is still
\* on (wt_ble_schedule_self_stop_response), unless another program ran meanwhile.
THEOREM BleAnswersInTime == Spec => []BleAnswersFirst
<1>1. IInv => BleAnswersFirst
  BY DEF IInv, Answering, BleAnswersFirst
<1> QED BY <1>1, IInvHolds, PTL

\* A delayed action that was acknowledged while no other was to come runs when
\* it was promised (wt_app_delayed_radio_apply).
THEOREM LonePromisesKept == Spec => []LonePromiseKept
<1>1. IInv => LonePromiseKept
  BY DEF IInv, Promising, LonePromiseKept
<1> QED BY <1>1, IInvHolds, PTL
=============================================================================
