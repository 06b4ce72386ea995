---------------------------- MODULE ConfigProofs ----------------------------
(***************************************************************************)
(* Theorems about Config, for any settings, threads, commands and faults.  *)
(***************************************************************************)
EXTENDS Config, TLAPS

Values == {Default, Custom}
Configs == [Fields -> Values]
Jobs == [op : {"idle", "target", "save", "reset", "delete"},
         next : 0 .. Last + 1,
         held : {<<>>} \cup Values \cup Configs,
         crossed : BOOLEAN]

Flashing(t) == at[t].op \in {"save", "delete"}

-----------------------------------------------------------------------------
(* The inductive invariant.                                                *)

Types ==
  /\ live \in Configs /\ promised \in Configs /\ asked \in Configs
  /\ flash \in [Fields -> Values \cup {Invalid}]
  /\ phase \in {"boot", "settle", "up"} /\ mode \in Values \cup {Invalid}
  /\ doubt \in BOOLEAN /\ muddled \in BOOLEAN /\ torn \in BOOLEAN
  /\ untouched \in BOOLEAN
  /\ at \in [Threads -> Jobs]
  /\ \A t \in Threads :
       /\ at[t].op = "save" => at[t].held \in Configs
       /\ at[t].op = "target" => at[t].held \in Values
       /\ Flashing(t) => at[t].next \in 1 .. Last + 1

\* A command that nothing has crossed is the only one under way.
Alone ==
  \A t, u \in Threads :
    t # u /\ at[t].op # "idle" /\ ~at[t].crossed => at[u].op = "idle"

\* What it has done to the flash so far is what it was asked to do.
Progress ==
  \A t \in Threads :
    /\ Flashing(t) => doubt
    /\ at[t].op = "save" /\ ~at[t].crossed =>
         /\ live = asked /\ at[t].held = asked
         /\ \A i \in 1 .. at[t].next - 1 : flash[Items[i]] = asked[Items[i]]
    /\ at[t].op = "delete" /\ ~at[t].crossed =>
         /\ asked = Defaults
         /\ \A i \in 1 .. at[t].next - 1 : flash[Items[i]] = Invalid

\* Between commands the flash holds what the last one promised.
Stored ==
  ~doubt => \/ flash = promised
            \/ promised = Defaults /\ flash = [f \in Fields |-> Invalid]

Target ==
  /\ TargetWhole
  /\ ~torn => promised["bridge_ip"] = promised["bridge_port"]
  /\ ~torn => \A t \in Threads : at[t].op = "target" =>
                /\ live["bridge_ip"] = at[t].held
                /\ \A u \in Threads : at[u].op = "target" => u = t

AsLoaded ==
  untouched =>
    /\ phase # "boot"
    /\ \A t \in Threads : at[t].op \in {"idle", "save"}
    /\ ~doubt => live = promised
    /\ phase = "up" => mode = live["boot_mode"]

\* Settings c: the first n as asked, the others as promised.
CutAt(c, n) ==
  \A i \in 1 .. Last :
    c[Items[i]] = IF i <= n THEN asked[Items[i]] ELSE promised[Items[i]]

\* What a restart would load.
Back == [f \in Fields |-> IF flash[f] = Invalid THEN Default ELSE flash[f]]

Cut ==
  /\ ~muddled /\ (\A t \in Threads : Flashing(t) => ~at[t].crossed) =>
       /\ \E n \in 0 .. Last : CutAt(Back, n)
       /\ \A t \in Threads : Flashing(t) => CutAt(Back, at[t].next - 1)
  /\ untouched /\ ~muddled => \E n \in 0 .. Last : CutAt(live, n)

IInv == Types /\ Alone /\ Progress /\ Stored /\ Target /\ AsLoaded /\ Cut

-----------------------------------------------------------------------------
(* Facts that several steps use.                                           *)

LEMMA Shape ==
  /\ Last \in Nat /\ \A i \in 1 .. Last : Items[i] \in Fields
  /\ {"ble_name", "boot_mode", "bridge_ip", "bridge_port"} \subseteq Fields
  /\ \A f \in Fields : \E i \in 1 .. Last : f = Items[i]
  /\ \A i, j \in 1 .. Last : Items[i] = Items[j] => i = j
  /\ Invalid \notin Values /\ Default \in Values /\ Custom \in Values
  /\ Defaults \in Configs
<1>1. Last \in Nat
  BY ItemsAssumption DEF Last
<1> QED BY <1>1, ItemsAssumption, ValuesAssumption DEF Fields, Values, Configs, Defaults

LEMMA JobFields ==
  ASSUME NEW op \in {"idle", "target", "save", "reset", "delete"},
         NEW next \in 0 .. Last + 1, NEW held \in {<<>>} \cup Values \cup Configs
  PROVE  /\ Job(op, next, held) \in Jobs
         /\ Job(op, next, held).op = op /\ Job(op, next, held).next = next
         /\ Job(op, next, held).held = held
BY DEF Job, Jobs

LEMMA RestingJob == Resting \in Jobs /\ Resting.op = "idle"
BY Shape, JobFields DEF Resting

\* A command that changes settings or flash crosses those of the others, and
\* is itself crossed from the start if there are any.
LEMMA CrossingJobs ==
  ASSUME at \in [Threads -> Jobs], NEW t \in Threads, NEW c \in Jobs, Crossing(t, c)
  PROVE  /\ at' \in [Threads -> Jobs]
         /\ at'[t].op = c.op /\ at'[t].next = c.next /\ at'[t].held = c.held
         /\ at'[t].crossed <=> c.op # "idle" /\ (at[t].crossed \/ OthersBusy(t))
         /\ \A u \in Threads \ {t} :
              /\ at'[u].op = at[u].op /\ at'[u].next = at[u].next
              /\ at'[u].held = at[u].held
              /\ at'[u].crossed <=> at[u].crossed \/ at[u].op # "idle"
<1> DEFINE b == c.op # "idle" /\ (at[t].crossed \/ OthersBusy(t))
<1>1. /\ at' = [u \in Threads |->
                  IF u # t THEN Crossed(u) ELSE [c EXCEPT !.crossed = b]]
      /\ b \in BOOLEAN
  BY DEF Crossing
<1> HIDE DEF b
<1>2. [c EXCEPT !.crossed = b] \in Jobs
  BY <1>1 DEF Jobs
<1>3. \A u \in Threads : Crossed(u) \in Jobs
  BY DEF Crossed, Jobs
<1>4. at' \in [Threads -> Jobs]
  BY <1>1, <1>2, <1>3
<1>5. /\ at'[t].op = c.op /\ at'[t].next = c.next /\ at'[t].held = c.held
      /\ at'[t].crossed = b
  BY <1>1 DEF Jobs
<1>6. ASSUME NEW u \in Threads \ {t}
      PROVE  /\ at'[u].op = at[u].op /\ at'[u].next = at[u].next
             /\ at'[u].held = at[u].held
             /\ at'[u].crossed <=> at[u].crossed \/ at[u].op # "idle"
  <2>1. at'[u] = Crossed(u) /\ at[u] \in Jobs
    BY <1>1
  <2>2. CASE at[u].op = "idle"
    BY <2>1, <2>2 DEF Crossed
  <2>3. CASE at[u].op # "idle"
    BY <2>1, <2>3 DEF Crossed, Jobs
  <2> QED BY <2>2, <2>3
<1> QED BY <1>4, <1>5, <1>6 DEF b

\* Settings are as asked as far as the last item: they are what was asked.
LEMMA AllItemsDone ==
  ASSUME NEW V, NEW c \in [Fields -> V], NEW d \in [Fields -> V],
         \A i \in 1 .. Last : c[Items[i]] = d[Items[i]]
  PROVE  c = d
<1>1. \A f \in Fields : c[f] = d[f]
  BY Shape
<1> QED BY <1>1

-----------------------------------------------------------------------------
(* Steps that leave the flash alone.                                       *)

\* What the commands that change settings in memory have in common: j is what
\* their thread does next.
Changes(t, j) ==
  /\ at[t].op \in {"idle", "target"} /\ j.op \in {"idle", "target", "reset"}
  /\ j.op = "target" => j.held \in Values
  /\ live' \in Configs /\ Crossing(t, j)
  /\ untouched' = FALSE /\ torn' \in BOOLEAN
  /\ UNCHANGED <<flash, phase, mode, promised, asked, doubt, muddled>>

LEMMA ChangesKeep ==
  ASSUME IInv, NEW t \in Threads, NEW j \in Jobs, Changes(t, j)
  PROVE  Types' /\ Alone' /\ Progress' /\ Stored' /\ AsLoaded' /\ Cut'
<1> USE DEF Changes
<1>1. /\ at' \in [Threads -> Jobs] /\ at'[t].op = j.op /\ at'[t].held = j.held
      /\ at'[t].crossed <=> j.op # "idle" /\ (at[t].crossed \/ OthersBusy(t))
      /\ \A u \in Threads \ {t} :
           /\ at'[u].op = at[u].op /\ at'[u].next = at[u].next
           /\ at'[u].held = at[u].held
           /\ at'[u].crossed <=> at[u].crossed \/ at[u].op # "idle"
  BY CrossingJobs DEF IInv, Types
<1>2. \A u \in Threads : Flashing(u)' => u # t /\ Flashing(u) /\ at'[u].crossed
  BY <1>1 DEF Flashing
<1>3. Types'
  BY <1>1, <1>2 DEF IInv, Types, Flashing
<1>4. Alone'
  BY <1>1 DEF IInv, Alone, OthersBusy
<1>5. Progress'
  BY <1>1, <1>2 DEF IInv, Progress, Flashing
<1>6. Stored' /\ AsLoaded'
  BY DEF IInv, Stored, AsLoaded
<1>7. Cut'
  <2>1. CASE \E u \in Threads : Flashing(u)'
    BY <1>2, <2>1 DEF Cut
  <2>2. CASE \A u \in Threads : ~Flashing(u)'
    <3>1. \A u \in Threads : ~Flashing(u)
      BY <1>1, <2>2 DEF Flashing
    <3> QED BY <2>2, <3>1 DEF IInv, Cut, CutAt, Back
  <2> QED BY <2>1, <2>2
<1> QED BY <1>3, <1>4, <1>5, <1>6, <1>7

\* Steps that change nothing but the radios, the phase and the clock.
LEMMA RadioStepsKeep ==
  ASSUME IInv, mode' \in Values \cup {Invalid}, phase' \in {"boot", "settle", "up"},
         untouched' \in BOOLEAN, untouched' => untouched, AsLoaded',
         UNCHANGED <<live, flash, at, promised, asked, doubt, muddled, torn>>
  PROVE  IInv'
<1>1. Types'
  BY DEF IInv, Types, Flashing
<1>2. Alone' /\ Progress' /\ Stored'
  BY DEF IInv, Alone, Progress, Stored, Flashing
<1>3. Target'
  BY DEF IInv, Target, TargetWhole, InTarget
<1>4. Cut'
  BY DEF IInv, Cut, CutAt, Back, Flashing
<1> QED BY <1>1, <1>2, <1>3, <1>4 DEF IInv

\* A command that leaves the bridge target alone.
LEMMA TargetUntouched ==
  ASSUME IInv, NEW t \in Threads, NEW j \in Jobs, Changes(t, j),
         at[t].op = "idle", j.op # "target", torn' = torn,
         live'["bridge_ip"] = live["bridge_ip"],
         live'["bridge_port"] = live["bridge_port"]
  PROVE  Target'
<1>1. \A u \in Threads : at'[u].op = "target" <=> at[u].op = "target"
  BY CrossingJobs DEF Changes, IInv, Types
<1>2. \A u \in Threads : at'[u].op = "target" => at'[u].held = at[u].held
  BY CrossingJobs DEF Changes, IInv, Types
<1> QED BY <1>1, <1>2 DEF Changes, IInv, Target, TargetWhole, InTarget

LEMMA SetKeeps ==
  ASSUME IInv, NEW t \in Threads, NEW f \in Touched, NEW v \in Inputs(f), Set(t, f, v)
  PROVE  IInv'
<1>1. f \in Fields \ {"bridge_ip", "bridge_port"}
  BY BoundsAssumption
<1>2. v \in Values
  BY DEF Set, Inputs, Accepted, Values
<1>3. Changes(t, Resting)
  BY <1>1, <1>2, RestingJob DEF Set, BeginCall, Changes, IInv, Types, Configs
<1>4. Target'
  BY <1>1, <1>3, RestingJob, TargetUntouched, Shape
     DEF Set, BeginCall, IInv, Types, Configs
<1> QED BY <1>3, <1>4, RestingJob, ChangesKeep DEF IInv

LEMMA SetTogetherKeeps ==
  ASSUME IInv, NEW t \in Threads, NEW fields, SetTogether(t, fields),
         {"bridge_ip", "bridge_port"} \cap fields = {}
  PROVE  IInv'
<1>1. Changes(t, Resting)
  BY Shape, RestingJob DEF SetTogether, BeginCall, Changes, IInv, Types, Configs
<1>2. Target'
  BY <1>1, RestingJob, TargetUntouched, Shape
     DEF SetTogether, BeginCall, IInv, Types, Configs
<1> QED BY <1>1, <1>2, RestingJob, ChangesKeep DEF IInv

LEMMA TargetIpKeeps ==
  ASSUME IInv, NEW t \in Threads, NEW v \in Values, TargetIp(t, v)
  PROVE  IInv'
<1> DEFINE j == Job("target", 0, v)
<1>1. j \in Jobs /\ j.op = "target" /\ j.held = v
  <2>1. 0 \in 0 .. Last + 1 /\ v \in {<<>>} \cup Values \cup Configs
    BY Shape
  <2>2. "target" \in {"idle", "target", "save", "reset", "delete"}
    OBVIOUS
  <2> QED BY <2>1, <2>2, JobFields
<1>2. Crossing(t, j)
  BY DEF TargetIp
<1> HIDE DEF j
<1>3. torn' \in BOOLEAN
  BY DEF TargetIp, IInv, Types
<1>4. Changes(t, j)
  BY <1>1, <1>2, <1>3, Shape DEF TargetIp, BeginCall, Changes, IInv, Types, Configs
<1>5. Target'
  <2>1. /\ at'[t].op = "target" /\ at'[t].held = v
        /\ \A u \in Threads \ {t} : at'[u].op = at[u].op
    BY <1>1, <1>2, CrossingJobs DEF IInv, Types
  <2>2. live'["bridge_ip"] = v
    BY Shape DEF TargetIp, IInv, Types, Configs
  <2> QED BY <2>1, <2>2 DEF TargetIp, IInv, Target, TargetWhole, InTarget
<1> QED BY <1>1, <1>4, <1>5, ChangesKeep DEF IInv

LEMMA TargetPortKeeps ==
  ASSUME IInv, NEW t \in Threads, TargetPort(t)
  PROVE  IInv'
<1>1. at[t].op = "target" /\ at[t].held \in Values
  BY DEF TargetPort, IInv, Types
<1>2. untouched = FALSE
  BY <1>1 DEF IInv, AsLoaded, Types
<1>3. Changes(t, Resting)
  BY <1>1, <1>2, RestingJob
     DEF TargetPort, PortItem, past, Changes, IInv, Types, Configs
<1>4. Target'
  <2>1. /\ at'[t].op = "idle"
        /\ \A u \in Threads \ {t} : at'[u].op = at[u].op
    BY <1>3, RestingJob, CrossingJobs DEF Changes, IInv, Types
  <2>2. /\ live'["bridge_ip"] = live["bridge_ip"]
        /\ live'["bridge_port"] = at[t].held
    BY Shape DEF TargetPort, PortItem, IInv, Types, Configs
  <2> QED BY <1>1, <2>1, <2>2 DEF TargetPort, past, IInv, Target, TargetWhole, InTarget
<1> QED BY <1>3, <1>4, RestingJob, ChangesKeep DEF IInv

LEMMA ResetNameKeeps ==
  ASSUME IInv, NEW t \in Threads, NEW fails \in BOOLEAN, ResetName(t, fails)
  PROVE  IInv'
<1> DEFINE j == IF fails THEN Resting ELSE Job("reset", 0, <<>>)
<1>1. j \in Jobs /\ j.op \in {"idle", "reset"}
  BY Shape, RestingJob, JobFields
<1>2. Crossing(t, j)
  BY DEF ResetName
<1> HIDE DEF j
<1>3. Changes(t, j)
  BY <1>1, <1>2, Shape DEF ResetName, BeginCall, Changes, IInv, Types, Configs
<1>4. Target'
  BY <1>1, <1>3, TargetUntouched, Shape DEF ResetName, BeginCall, IInv, Types, Configs
<1> QED BY <1>1, <1>3, <1>4, ChangesKeep DEF IInv

LEMMA RadioCommandsKeep ==
  ASSUME IInv, NEW t \in Threads, SetMode(t) \/ AskReboot(t)
  PROVE  IInv'
<1>1. CASE SetMode(t)
  BY <1>1, RadioStepsKeep, Shape DEF SetMode, IInv, Types, AsLoaded, Values
<1>2. CASE AskReboot(t)
  BY <1>2, RadioStepsKeep DEF AskReboot, past, IInv, Types, AsLoaded
<1> QED BY <1>1, <1>2

LEMMA BootStepsKeep ==
  ASSUME IInv, LoadFails \/ ApplyDefaultMode \/ UNCHANGED vars
  PROVE  IInv'
<1>1. CASE LoadFails
  BY <1>1, RadioStepsKeep DEF LoadFails, past, IInv, Types, AsLoaded
<1>2. CASE ApplyDefaultMode
  BY <1>2, RadioStepsKeep, Shape
     DEF ApplyDefaultMode, BootMode, past, IInv, Types, AsLoaded, Configs
<1>3. CASE UNCHANGED vars
  BY <1>3, RadioStepsKeep DEF vars, past, IInv, Types, AsLoaded
<1> QED BY <1>1, <1>2, <1>3

-----------------------------------------------------------------------------
(* Steps of save and reset.                                                *)

LEMMA ReadBack ==
  ASSUME NEW stored \in [Fields -> Values \cup {Invalid}], NEW kept \in Configs,
         stored = kept \/ (kept = Defaults /\ stored = [f \in Fields |-> Invalid])
  PROVE  [f \in Fields |-> IF stored[f] = Invalid THEN Default ELSE stored[f]] = kept
<1>1. CASE stored = kept
  BY <1>1, Shape DEF Configs
<1>2. CASE kept = Defaults /\ stored = [f \in Fields |-> Invalid]
  BY <1>2 DEF Defaults
<1> QED BY <1>1, <1>2

LEMMA SaveKeeps ==
  ASSUME IInv, NEW t \in Threads, Save(t)
  PROVE  IInv'
<1> DEFINE j == Job("save", 1, live)
<1>1. j \in Jobs /\ j.op = "save" /\ j.next = 1 /\ j.held = live
  <2>1. 1 \in 0 .. Last + 1 /\ live \in {<<>>} \cup Values \cup Configs
    BY Shape DEF IInv, Types
  <2>2. "save" \in {"idle", "target", "save", "reset", "delete"}
    OBVIOUS
  <2> QED BY <2>1, <2>2, JobFields
<1>2. Crossing(t, j)
  BY DEF Save
<1> HIDE DEF j
<1>3. /\ at[t].op = "idle" /\ asked' = live /\ doubt' = TRUE
      /\ muddled' = (muddled \/ doubt)
      /\ UNCHANGED <<live, flash, phase, mode, promised, torn, untouched>>
  BY DEF Save, BeginCall, BeginFlash
<1>4. /\ at' \in [Threads -> Jobs] /\ at'[t].op = "save" /\ at'[t].next = 1
      /\ at'[t].held = live
      /\ at'[t].crossed <=> at[t].crossed \/ OthersBusy(t)
      /\ \A u \in Threads \ {t} :
           /\ at'[u].op = at[u].op /\ at'[u].next = at[u].next
           /\ at'[u].held = at[u].held
           /\ at'[u].crossed <=> at[u].crossed \/ at[u].op # "idle"
  BY <1>1, <1>2, CrossingJobs DEF IInv, Types
<1>5. Types'
  <2>1. muddled' \in BOOLEAN
    BY <1>3 DEF IInv, Types
  <2>2. ASSUME NEW u \in Threads
        PROVE  /\ at'[u].op = "save" => at'[u].held \in Configs
               /\ at'[u].op = "target" => at'[u].held \in Values
               /\ Flashing(u)' => at'[u].next \in 1 .. Last + 1
    <3>1. CASE u = t
      <4>1. live \in Configs /\ 1 \in 1 .. Last + 1
        BY Shape DEF IInv, Types
      <4>2. at'[u].op = "save" /\ at'[u].held \in Configs /\ at'[u].next \in 1 .. Last + 1
        BY <1>4, <3>1, <4>1
      <4> QED BY <4>2
    <3>2. CASE u # t
      BY <1>4, <3>2 DEF IInv, Types, Flashing
    <3> QED BY <3>1, <3>2
  <2> QED BY <1>3, <1>4, <2>1, <2>2 DEF IInv, Types
<1>6. Alone'
  BY <1>4 DEF IInv, Alone, OthersBusy
<1>7. Progress'
  <2>1. \A u \in Threads : u # t /\ Flashing(u)' => at'[u].crossed
    BY <1>4 DEF Flashing
  <2>2. at'[t].op = "save" /\ at'[t].held = asked' /\ live' = asked' /\ at'[t].next = 1
    BY <1>3, <1>4
  <2>3. ASSUME NEW u \in Threads
        PROVE  /\ Flashing(u)' => doubt'
               /\ at'[u].op = "save" /\ ~at'[u].crossed =>
                    /\ live' = asked' /\ at'[u].held = asked'
                    /\ \A i \in 1 .. at'[u].next - 1 : flash'[Items[i]] = asked'[Items[i]]
               /\ at'[u].op = "delete" /\ ~at'[u].crossed =>
                    /\ asked' = Defaults
                    /\ \A i \in 1 .. at'[u].next - 1 : flash'[Items[i]] = Invalid
    BY <1>3, <2>1, <2>2 DEF Flashing
  <2> QED BY <2>3 DEF Progress
<1>8. Stored' /\ Target' /\ AsLoaded'
  BY <1>3, <1>4 DEF IInv, Stored, Target, TargetWhole, InTarget, AsLoaded
<1>9. Cut'
  <2> SUFFICES ASSUME ~muddled' PROVE Cut'
    BY DEF Cut
  <2>1. ~doubt /\ Back = promised
    BY <1>3, ReadBack DEF IInv, Types, Stored, Back
  <2>2. Back' = promised
    BY <1>3, <2>1 DEF Back
  <2>3. CutAt(Back, 0)'
    BY <1>3, <2>2 DEF CutAt
  <2>4. untouched' => CutAt(live, 0)'
    BY <1>3, <2>1 DEF CutAt, IInv, AsLoaded
  <2>5. ASSUME \A u \in Threads : Flashing(u)' => ~at'[u].crossed, NEW u \in Threads, Flashing(u)'
        PROVE  at'[u].next - 1 = 0
    BY <1>4, <2>5 DEF Flashing
  <2> QED BY <2>3, <2>4, <2>5, Shape DEF Cut
<1> QED BY <1>5, <1>6, <1>7, <1>8, <1>9 DEF IInv

\* The flash changes by one item, whatever the command writes there.
Writes(t, v) ==
  /\ Flashing(t) /\ at[t].next <= Last
  /\ flash' = [flash EXCEPT ![Items[at[t].next]] = v]
  /\ at' = [at EXCEPT ![t].next = @ + 1]
  /\ UNCHANGED <<live, phase, mode, past>>

LEMMA WritesKeeps ==
  ASSUME IInv, NEW t \in Threads, NEW v \in Values \cup {Invalid}, Writes(t, v),
         ~at[t].crossed => IF at[t].op = "save" THEN v = asked[Items[at[t].next]]
                                                ELSE v = Invalid
  PROVE  IInv'
<1>0. PICK k \in 1 .. Last : k = at[t].next
  BY Shape DEF Writes, IInv, Types
<1>1. k \in Nat /\ 1 <= k /\ k <= Last /\ Items[k] \in Fields
  BY Shape
<1>2. /\ at' \in [Threads -> Jobs] /\ at'[t].op = at[t].op /\ at'[t].next = k + 1
      /\ at'[t].held = at[t].held /\ at'[t].crossed = at[t].crossed
      /\ \A u \in Threads \ {t} : at'[u] = at[u]
  <2>1. at[t] \in Jobs /\ k + 1 \in 0 .. Last + 1
    BY <1>1, Shape DEF IInv, Types
  <2>2. [at[t] EXCEPT !.next = k + 1] \in Jobs
    BY <2>1 DEF Jobs
  <2>3. at' = [at EXCEPT ![t] = [at[t] EXCEPT !.next = k + 1]]
    BY <1>0 DEF Writes
  <2> QED BY <2>1, <2>2, <2>3 DEF IInv, Types, Jobs
<1>3. /\ flash' \in [Fields -> Values \cup {Invalid}] /\ flash'[Items[k]] = v
      /\ \A i \in 1 .. Last : i # k => flash'[Items[i]] = flash[Items[i]]
  BY <1>0, <1>1, Shape DEF Writes, IInv, Types
<1>4. /\ Flashing(t) /\ UNCHANGED <<live, phase, mode, promised, asked, doubt>>
      /\ UNCHANGED <<muddled, torn, untouched>>
  BY DEF Writes, past
<1>5. \A u \in Threads : Flashing(u)' <=> Flashing(u)
  BY <1>2 DEF Flashing
<1>6. ~at[t].crossed => \A u \in Threads \ {t} : ~Flashing(u)
  BY <1>4 DEF IInv, Alone, Flashing
<1>7. \A u \in Threads \ {t} : Flashing(u) => at[u].crossed
  BY <1>4 DEF IInv, Alone, Flashing
<1>8. Types'
  BY <1>1, <1>2, <1>3, <1>4, <1>5, Shape DEF IInv, Types, Flashing
<1>9. Alone'
  BY <1>2 DEF IInv, Alone
<1>10. Progress'
  <2>1. \A u \in Threads : Flashing(u)' => doubt'
    BY <1>4, <1>5 DEF IInv, Progress
  <2>2. ASSUME NEW u \in Threads, Flashing(u)', ~at'[u].crossed PROVE u = t
    BY <1>2, <1>5, <1>7, <2>2
  <2>3. ASSUME at'[t].op = "save", ~at'[t].crossed
        PROVE  /\ live' = asked' /\ at'[t].held = asked'
               /\ \A i \in 1 .. at'[t].next - 1 : flash'[Items[i]] = asked'[Items[i]]
    <3>1. /\ live = asked /\ at[t].held = asked /\ v = asked[Items[k]]
          /\ \A i \in 1 .. k - 1 : flash[Items[i]] = asked[Items[i]]
      BY <1>0, <1>2, <2>3 DEF IInv, Progress
    <3> QED BY <1>1, <1>2, <1>3, <1>4, <3>1, Shape
  <2>4. ASSUME at'[t].op = "delete", ~at'[t].crossed
        PROVE  /\ asked' = Defaults
               /\ \A i \in 1 .. at'[t].next - 1 : flash'[Items[i]] = Invalid
    <3>1. /\ asked = Defaults /\ v = Invalid
          /\ \A i \in 1 .. k - 1 : flash[Items[i]] = Invalid
      BY <1>0, <1>2, <2>4 DEF IInv, Progress
    <3> QED BY <1>1, <1>2, <1>3, <1>4, <3>1, Shape
  <2> QED BY <2>1, <2>2, <2>3, <2>4 DEF Progress, Flashing
<1>11. Stored'
  BY <1>4 DEF IInv, Progress, Stored
<1>12. Target' /\ AsLoaded'
  BY <1>2, <1>4 DEF IInv, Target, TargetWhole, InTarget, AsLoaded
<1>13. Cut'
  <2>1. ASSUME ~muddled', \A u \in Threads : Flashing(u)' => ~at'[u].crossed
        PROVE  CutAt(Back, k)'
    <3>1. ~at[t].crossed /\ CutAt(Back, k - 1)
      BY <1>0, <1>2, <1>4, <1>5, <2>1 DEF IInv, Cut
    <3>2. Back'[Items[k]] = asked[Items[k]]
      BY <1>0, <1>1, <1>3, <1>4, <3>1, Shape
         DEF IInv, Types, Configs, Progress, Back, Flashing, Defaults
    <3>3. \A i \in 1 .. Last : i # k => Back'[Items[i]] = Back[Items[i]]
      BY <1>3, Shape DEF Back
    <3>4. ASSUME NEW i \in 1 .. Last
          PROVE  Back'[Items[i]] = IF i <= k THEN asked[Items[i]] ELSE promised[Items[i]]
      <4>1. i \in Nat
        BY Shape
      <4>2. CASE i = k
        BY <1>1, <3>2, <4>2
      <4>3. CASE i # k
        BY <1>1, <3>1, <3>3, <4>1, <4>3 DEF CutAt
      <4> QED BY <4>2, <4>3
    <3> QED BY <1>4, <3>4 DEF CutAt
  <2>2. ASSUME \A u \in Threads : Flashing(u)' => ~at'[u].crossed,
               NEW u \in Threads, Flashing(u)'
        PROVE  at'[u].next - 1 = k
    BY <1>1, <1>2, <1>5, <1>7, <2>2
  <2>3. untouched' /\ ~muddled' => \E n \in 0 .. Last : CutAt(live, n)'
    BY <1>4 DEF IInv, Cut, CutAt
  <2>4. k \in 0 .. Last
    BY <1>1, Shape
  <2> QED BY <2>1, <2>2, <2>3, <2>4 DEF Cut
<1> QED BY <1>8, <1>9, <1>10, <1>11, <1>12, <1>13 DEF IInv

LEMMA WriteStepsKeep ==
  ASSUME IInv, NEW t \in Threads, SaveWrites(t) \/ ResetDeletes(t)
  PROVE  IInv'
<1>1. CASE SaveWrites(t)
  <2> DEFINE item == Items[at[t].next]
             v == IF item \in ReadLate THEN live[item] ELSE at[t].held[item]
  <2>1. Writes(t, v) /\ at[t].op = "save" /\ item \in Fields
    BY <1>1, Shape DEF SaveWrites, Writes, Flashing, IInv, Types
  <2>2. v \in Values
    BY <2>1 DEF IInv, Types, Configs
  <2>3. ~at[t].crossed => v = asked[item]
    BY <2>1 DEF IInv, Progress
  <2> HIDE DEF v
  <2> QED BY <2>1, <2>2, <2>3, WritesKeeps
<1>2. CASE ResetDeletes(t)
  <2>1. Writes(t, Invalid) /\ at[t].op = "delete"
    BY <1>2 DEF ResetDeletes, Writes, Flashing
  <2> QED BY <2>1, WritesKeeps
<1> QED BY <1>1, <1>2

\* A save or reset is over: it was clean, or it leaves its doubt behind.
Returns(t) ==
  /\ Flashing(t) /\ at[t].next > Last
  /\ at' = [at EXCEPT ![t] = Resting]
  /\ EndFlash(t, Clean(t))
  /\ UNCHANGED <<live, flash, phase, mode, asked, torn, untouched>>

LEMMA ReturnsKeep ==
  ASSUME IInv, NEW t \in Threads, Returns(t)
  PROVE  IInv'
<1>1. /\ at' \in [Threads -> Jobs] /\ at'[t].op = "idle"
      /\ \A u \in Threads \ {t} : at'[u] = at[u]
  BY RestingJob DEF Returns, IInv, Types
<1>2. /\ Flashing(t) /\ at[t].next = Last + 1
      /\ UNCHANGED <<live, flash, phase, mode, asked, torn, untouched>>
  BY Shape DEF Returns, IInv, Types
<1>3. CASE at[t].crossed
  <2>1. promised' = promised /\ doubt' = TRUE /\ muddled' = TRUE
    BY <1>3 DEF Returns, EndFlash, Clean
  <2>2. Types'
    BY <1>1, <1>2, <2>1 DEF IInv, Types, Flashing
  <2>3. Alone' /\ Progress'
    BY <1>1, <1>2, <2>1 DEF IInv, Alone, Progress, Flashing
  <2>4. Stored' /\ Target' /\ AsLoaded' /\ Cut'
    BY <1>1, <1>2, <2>1
       DEF IInv, Stored, Target, TargetWhole, InTarget, AsLoaded, Cut, Flashing
  <2> QED BY <2>2, <2>3, <2>4 DEF IInv
<1>4. CASE ~at[t].crossed
  <2>1. promised' = asked /\ doubt' = FALSE /\ muddled' = FALSE
    BY <1>4 DEF Returns, EndFlash, Clean
  <2>2. \A u \in Threads : at'[u].op = "idle"
    BY <1>1, <1>2, <1>4 DEF IInv, Alone, Flashing
  <2>3. \A u \in Threads : at[u].op # "target"
    BY <1>1, <1>2, <2>2 DEF Flashing
  <2>4. asked = live \/ asked = Defaults
    BY <1>2, <1>4 DEF IInv, Progress, Flashing
  <2>5. Types'
    BY <1>1, <1>2, <2>1, <2>2 DEF IInv, Types, Flashing
  <2>6. Alone' /\ Progress'
    BY <2>2 DEF Alone, Progress, Flashing
  <2>7. flash = asked \/ (asked = Defaults /\ flash = [f \in Fields |-> Invalid])
    <3>1. CASE at[t].op = "save"
      <4>1. \A i \in 1 .. Last : flash[Items[i]] = asked[Items[i]]
        BY <1>2, <1>4, <3>1, Shape DEF IInv, Progress
      <4>2. asked \in [Fields -> Values \cup {Invalid}]
        BY DEF IInv, Types, Configs
      <4> QED BY <4>1, <4>2, AllItemsDone DEF IInv, Types
    <3>2. CASE at[t].op = "delete"
      <4> DEFINE none == [f \in Fields |-> Invalid]
      <4>1. \A i \in 1 .. Last : flash[Items[i]] = none[Items[i]]
        BY <1>2, <1>4, <3>2, Shape DEF IInv, Progress
      <4>2. none \in [Fields -> Values \cup {Invalid}]
        OBVIOUS
      <4>3. asked = Defaults
        BY <1>4, <3>2 DEF IInv, Progress
      <4> HIDE DEF none
      <4>4. flash = none
        BY <4>1, <4>2, AllItemsDone DEF IInv, Types
      <4> QED BY <4>3, <4>4 DEF none
    <3> QED BY <1>2, <3>1, <3>2 DEF Flashing
  <2>8. Stored'
    BY <1>2, <2>1, <2>7 DEF Stored
  <2>9. Target'
    <3>1. ~torn => live["bridge_ip"] = live["bridge_port"]
      BY <2>3 DEF IInv, Target, TargetWhole, InTarget
    <3>2. ~torn => asked["bridge_ip"] = asked["bridge_port"]
      BY <2>4, <3>1, Shape DEF Defaults
    <3> QED BY <1>2, <2>1, <2>2, <3>1, <3>2 DEF Target, TargetWhole, InTarget
  <2>10. AsLoaded'
    BY <1>2, <1>4, <2>1, <2>2 DEF IInv, AsLoaded, Progress, Flashing
  <2>11. Cut'
    <3>1. Back' = promised'
      BY <1>2, <2>1, <2>7, ReadBack DEF IInv, Types, Back
    <3>2. CutAt(Back, 0)'
      BY <3>1, Shape DEF CutAt
    <3>3. untouched' => CutAt(live, 0)'
      BY <2>1, <2>10, Shape DEF AsLoaded, CutAt
    <3> QED BY <2>2, <3>2, <3>3, Shape DEF Cut, Flashing
  <2> QED BY <2>5, <2>6, <2>8, <2>9, <2>10, <2>11 DEF IInv
<1> QED BY <1>3, <1>4

LEMMA SaveFailsKeeps ==
  ASSUME IInv, NEW t \in Threads, SaveFails(t)
  PROVE  IInv'
<1>1. /\ at' \in [Threads -> Jobs] /\ at'[t].op = "idle"
      /\ \A u \in Threads \ {t} : at'[u] = at[u]
  BY RestingJob DEF SaveFails, AfterError, IInv, Types
<1>2. /\ Flashing(t) /\ at[t].next - 1 \in 0 .. Last
      /\ muddled' = (muddled \/ at[t].crossed) /\ doubt
      /\ UNCHANGED <<live, flash, phase, mode, promised, asked, doubt, torn, untouched>>
  BY Shape DEF SaveFails, Flashing, IInv, Types, Progress
<1>3. Types'
  BY <1>1, <1>2 DEF IInv, Types, Flashing
<1>4. Alone' /\ Progress'
  BY <1>1, <1>2 DEF IInv, Alone, Progress, Flashing
<1>5. Stored' /\ Target' /\ AsLoaded'
  BY <1>1, <1>2 DEF IInv, Stored, Target, TargetWhole, InTarget, AsLoaded, Flashing
<1>6. Cut'
  <2> SUFFICES ASSUME ~muddled' PROVE Cut'
    BY DEF Cut
  <2>1. ~muddled /\ ~at[t].crossed
    BY <1>2
  <2>2. \A u \in Threads \ {t} : at[u].op = "idle"
    BY <1>2, <2>1 DEF IInv, Alone, Flashing
  <2>3. \A u \in Threads : ~Flashing(u)'
    BY <1>1, <2>2 DEF Flashing
  <2>4. \E n \in 0 .. Last : CutAt(Back, n)
    BY <2>1, <2>2 DEF IInv, Cut, Flashing
  <2> QED BY <1>2, <2>1, <2>3, <2>4 DEF IInv, Cut, CutAt, Back
<1> QED BY <1>3, <1>4, <1>5, <1>6 DEF IInv

LEMMA DeleteFailsKeeps ==
  ASSUME IInv, NEW t \in Threads, DeleteFails(t)
  PROVE  IInv'
<1>0. PICK k \in 1 .. Last : k = at[t].next
  BY Shape DEF DeleteFails, Flashing, IInv, Types
<1>1. /\ at' \in [Threads -> Jobs] /\ at'[t].op = "delete" /\ at'[t].next = k + 1
      /\ at'[t].crossed = TRUE
      /\ \A u \in Threads \ {t} : at'[u] = at[u]
  <2>1. at[t] \in Jobs /\ k + 1 \in 0 .. Last + 1 /\ at[t].op = "delete"
    BY Shape DEF DeleteFails, IInv, Types
  <2> DEFINE next == [at[t] EXCEPT !.next = k + 1]
             j == [next EXCEPT !.crossed = TRUE]
  <2>2. at' = [at EXCEPT ![t] = j]
    BY <1>0 DEF DeleteFails, IInv, Types
  <2>3. next \in Jobs /\ next.op = "delete" /\ next.next = k + 1
    BY <2>1 DEF Jobs
  <2> HIDE DEF next
  <2>4. j \in Jobs /\ j.op = "delete" /\ j.next = k + 1 /\ j.crossed = TRUE
    BY <2>3 DEF Jobs
  <2> HIDE DEF j
  <2> QED BY <2>2, <2>4 DEF IInv, Types
<1>2. /\ muddled' = TRUE /\ at[t].op = "delete"
      /\ UNCHANGED <<live, flash, phase, mode, promised, asked, doubt, torn, untouched>>
  BY DEF DeleteFails
<1>3. Types'
  <2>1. k + 1 \in 1 .. Last + 1
    BY Shape
  <2> QED BY <1>1, <1>2, <2>1 DEF IInv, Types, Flashing
<1>4. Alone' /\ Progress'
  BY <1>1, <1>2 DEF IInv, Alone, Progress, Flashing
<1>5. Stored' /\ Target' /\ AsLoaded' /\ Cut'
  BY <1>1, <1>2 DEF IInv, Stored, Target, TargetWhole, InTarget, AsLoaded, Cut
<1> QED BY <1>3, <1>4, <1>5 DEF IInv

LEMMA ResetRestKeeps ==
  ASSUME IInv, NEW t \in Threads, ResetRest(t)
  PROVE  IInv'
<1> DEFINE j == Job("delete", 1, <<>>)
<1>1. j \in Jobs /\ j.op = "delete" /\ j.next = 1
  <2>1. 1 \in 0 .. Last + 1 /\ <<>> \in {<<>>} \cup Values \cup Configs
    BY Shape
  <2>2. "delete" \in {"idle", "target", "save", "reset", "delete"}
    OBVIOUS
  <2> QED BY <2>1, <2>2, JobFields
<1>2. Crossing(t, j)
  BY DEF ResetRest
<1> HIDE DEF j
<1>3. /\ at[t].op = "reset" /\ asked' = Defaults /\ doubt' = TRUE
      /\ muddled' = (muddled \/ doubt) /\ torn' = (torn \/ InTarget)
      /\ UNCHANGED <<flash, phase, mode, promised, untouched>>
  BY DEF ResetRest, BeginFlash
<1>4. /\ at' \in [Threads -> Jobs] /\ at'[t].op = "delete" /\ at'[t].next = 1
      /\ \A u \in Threads \ {t} :
           /\ at'[u].op = at[u].op /\ at'[u].next = at[u].next
           /\ at'[u].held = at[u].held
           /\ at'[u].crossed <=> at[u].crossed \/ at[u].op # "idle"
  BY <1>1, <1>2, CrossingJobs DEF IInv, Types
<1>5. at'[t].crossed <=> at[t].crossed \/ OthersBusy(t)
  BY <1>1, <1>2, CrossingJobs DEF IInv, Types
<1>6. /\ live' \in Configs /\ live'["bridge_ip"] = Default
      /\ live'["bridge_port"] = Default /\ untouched = FALSE
  BY <1>3, Shape DEF ResetRest, IInv, Types, AsLoaded, Configs, Defaults
<1>7. Types'
  <2>1. muddled' \in BOOLEAN /\ torn' \in BOOLEAN /\ 1 \in 1 .. Last + 1
    BY <1>3, Shape DEF IInv, Types
  <2>2. asked' \in Configs
    BY <1>3, Shape
  <2> QED BY <1>3, <1>4, <1>6, <2>1, <2>2 DEF IInv, Types, Flashing
<1>8. Alone'
  BY <1>4, <1>5 DEF IInv, Alone, OthersBusy
<1>9. Progress'
  <2>1. \A u \in Threads : u # t /\ Flashing(u)' => at'[u].crossed
    BY <1>4 DEF Flashing
  <2> QED BY <1>3, <1>4, <2>1 DEF Progress, Flashing
<1>10. Stored' /\ AsLoaded'
  BY <1>3, <1>6 DEF Stored, AsLoaded
<1>11. Target'
  <2>1. \A u \in Threads : at'[u].op = "target" => at[u].op = "target"
    BY <1>3, <1>4
  <2> QED BY <1>3, <1>6, <2>1 DEF IInv, Target, TargetWhole, InTarget
<1>12. Cut'
  <2> SUFFICES ASSUME ~muddled' PROVE Cut'
    BY DEF Cut
  <2>1. Back' = promised
    BY <1>3, ReadBack DEF IInv, Types, Stored, Back
  <2>2. CutAt(Back, 0)'
    BY <1>3, <2>1, Shape DEF CutAt
  <2>3. ASSUME \A u \in Threads : Flashing(u)' => ~at'[u].crossed, NEW u \in Threads, Flashing(u)'
        PROVE  at'[u].next - 1 = 0
    BY <1>4, <2>3 DEF Flashing
  <2> QED BY <1>3, <1>6, <2>2, <2>3, Shape DEF Cut
<1> QED BY <1>7, <1>8, <1>9, <1>10, <1>11, <1>12 DEF IInv

-----------------------------------------------------------------------------
(* Restarts.                                                               *)

LEMMA RestartKeeps ==
  ASSUME IInv, Restart
  PROVE  IInv'
<1>1. /\ at' \in [Threads -> Jobs] /\ \A t \in Threads : at'[t].op = "idle"
      /\ live' = Defaults /\ mode' = Invalid /\ phase' = "boot" /\ untouched' = FALSE
      /\ muddled' = (muddled \/ \E t \in Threads : at[t].crossed)
      /\ UNCHANGED <<flash, promised, asked, doubt, torn>>
  BY RestingJob DEF Restart
<1>2. Types'
  <2>1. muddled' \in BOOLEAN
    BY <1>1 DEF IInv, Types
  <2> QED BY <1>1, <2>1, Shape DEF IInv, Types, Flashing
<1>3. Alone' /\ Progress' /\ Stored' /\ AsLoaded'
  BY <1>1 DEF IInv, Alone, Progress, Flashing, Stored, AsLoaded
<1>4. Target'
  BY <1>1, Shape DEF IInv, Target, TargetWhole, InTarget, Defaults
<1>5. Cut'
  <2> SUFFICES ASSUME ~muddled' PROVE Cut'
    BY DEF Cut
  <2>1. \E n \in 0 .. Last : CutAt(Back, n)
    BY <1>1 DEF IInv, Cut
  <2>2. \E n \in 0 .. Last : CutAt(Back, n)'
    BY <1>1, <2>1 DEF CutAt, Back
  <2> QED BY <1>1, <2>2 DEF Cut, Flashing
<1> QED BY <1>2, <1>3, <1>4, <1>5 DEF IInv

LEMMA LoadKeeps ==
  ASSUME IInv, Load
  PROVE  IInv'
<1>1. /\ at' \in [Threads -> Jobs]
      /\ \A t \in Threads :
           /\ at'[t].op = at[t].op /\ at'[t].next = at[t].next
           /\ at'[t].held = at[t].held
           /\ at'[t].crossed <=> at[t].crossed \/ at[t].op # "idle"
  <2>1. \A t \in Threads : at'[t] = Crossed(t) /\ at[t] \in Jobs
    BY DEF Load, IInv, Types
  <2>2. at' = [t \in Threads |-> Crossed(t)]
    BY DEF Load
  <2>3. \A t \in Threads : Crossed(t) \in Jobs
    BY <2>1 DEF Crossed, Jobs
  <2>4. at' \in [Threads -> Jobs]
    BY <2>2, <2>3
  <2>5. ASSUME NEW t \in Threads
        PROVE  /\ at'[t].op = at[t].op /\ at'[t].next = at[t].next
               /\ at'[t].held = at[t].held
               /\ at'[t].crossed <=> at[t].crossed \/ at[t].op # "idle"
    <3>1. at'[t] = Crossed(t) /\ at[t] \in Jobs
      BY <2>1
    <3>2. CASE at[t].op = "idle"
      BY <3>1, <3>2 DEF Crossed
    <3>3. CASE at[t].op # "idle"
      BY <3>1, <3>3 DEF Crossed, Jobs
    <3> QED BY <3>2, <3>3
  <2> QED BY <2>4, <2>5
<1>2. /\ phase' = "settle" /\ live' = Loaded
      /\ torn' = (torn \/ doubt \/ InTarget)
      /\ untouched' = (live = Defaults /\ \A t \in Threads : at[t].op = "idle")
      /\ UNCHANGED <<flash, mode, promised, asked, doubt, muddled>>
  BY DEF Load
<1>3. Types'
  <2>1. live' \in Configs
    BY <1>2, Shape DEF Loaded, IInv, Types, Configs
  <2>2. torn' \in BOOLEAN /\ untouched' \in BOOLEAN
    BY <1>2 DEF IInv, Types
  <2> QED BY <1>1, <1>2, <2>1, <2>2 DEF IInv, Types, Flashing
<1>4. Alone' /\ Progress' /\ Stored'
  BY <1>1, <1>2 DEF IInv, Alone, Progress, Flashing, Stored
<1>5. Target'
  <2>1. ASSUME ~torn'
        PROVE  /\ ~torn /\ live'["bridge_ip"] = live'["bridge_port"]
               /\ \A t \in Threads : at'[t].op # "target"
    <3>1. ~torn /\ ~doubt /\ ~InTarget
      BY <1>2, <2>1
    <3>2. live["bridge_ip"] = live["bridge_port"] /\ promised["bridge_ip"] = promised["bridge_port"]
      BY <3>1 DEF IInv, Target, TargetWhole
    <3>3. Loaded["bridge_ip"] = Loaded["bridge_port"]
      BY <3>1, <3>2, Shape DEF Loaded, IInv, Stored, Types, Configs
    <3> QED BY <1>1, <1>2, <3>1, <3>3 DEF InTarget
  <2> QED BY <1>2, <2>1 DEF IInv, Target, TargetWhole
<1>6. untouched' => live' = Back /\ \A t \in Threads : at'[t].op = "idle"
  <2>1. live = Defaults => Loaded = Back
    BY DEF Loaded, Back, Defaults
  <2> QED BY <1>1, <1>2, <2>1
<1>7. AsLoaded'
  <2>1. ~doubt => Back = promised
    BY ReadBack DEF IInv, Types, Stored, Back
  <2> QED BY <1>2, <1>6, <2>1 DEF AsLoaded
<1>8. Cut'
  <2>1. Back' = Back
    BY <1>2 DEF Back
  <2>2. CASE \E t \in Threads : Flashing(t)
    BY <1>1, <1>6, <2>2 DEF Cut, Flashing
  <2>3. CASE \A t \in Threads : ~Flashing(t)
    <3>1. \A t \in Threads : ~Flashing(t)'
      BY <1>1, <2>3 DEF Flashing
    <3>2. ~muddled => \E n \in 0 .. Last : CutAt(Back, n)
      BY <2>3 DEF IInv, Cut
    <3>3. ~muddled => \E n \in 0 .. Last : CutAt(Back, n)'
      BY <1>2, <2>1, <3>2 DEF CutAt
    <3>4. untouched' /\ ~muddled' => \E n \in 0 .. Last : CutAt(live, n)'
      BY <1>2, <1>6, <2>1, <3>3 DEF CutAt
    <3> QED BY <1>2, <3>1, <3>3, <3>4 DEF Cut
  <2> QED BY <2>2, <2>3
<1> QED BY <1>3, <1>4, <1>5, <1>7, <1>8 DEF IInv

-----------------------------------------------------------------------------
(* The theorems.                                                           *)

LEMMA IInvHolds == Spec => []IInv
<1>1. Init => IInv
  <2> SUFFICES ASSUME Init PROVE IInv
    OBVIOUS
  <2>1. at \in [Threads -> Jobs] /\ \A t \in Threads : at[t].op = "idle"
    BY RestingJob DEF Init
  <2>2. Types
    BY <2>1, Shape DEF Init, Types, Flashing
  <2>3. Alone /\ Progress /\ AsLoaded
    BY <2>1 DEF Init, Alone, Progress, Flashing, AsLoaded
  <2>4. Stored
    BY DEF Init, Stored
  <2>5. Target
    BY <2>1, Shape DEF Init, Target, TargetWhole, InTarget, Defaults
  <2>6. Cut
    <3>1. Back = promised
      BY <2>2, ReadBack DEF Init, Types, Back
    <3>2. \A i \in 1 .. Last : ~(i <= 0)
      OBVIOUS
    <3>3. CutAt(Back, 0)
      BY <3>1, <3>2 DEF CutAt
    <3> QED BY <2>1, <3>3, Shape DEF Init, Cut, Flashing
  <2> QED BY <2>2, <2>3, <2>4, <2>5, <2>6 DEF IInv
<1>2. IInv /\ [Next]_vars => IInv'
  <2> SUFFICES ASSUME IInv, [Next]_vars PROVE IInv'
    OBVIOUS
  <2>1. ASSUME NEW t \in Threads, Command(t) PROVE IInv'
    <3>1. CASE \E f \in Touched : \E v \in Inputs(f) : Set(t, f, v)
      BY <3>1, SetKeeps
    <3>2. CASE SetTogether(t, Bridges)
      BY <3>2, SetTogetherKeeps DEF Bridges
    <3>3. CASE SetTogether(t, {"discovery", "wifi_cmd"})
      BY <3>3, SetTogetherKeeps
    <3>4. CASE \E v \in {Default, Custom} : TargetIp(t, v)
      BY <3>4, TargetIpKeeps DEF Values
    <3>5. CASE SetMode(t) \/ AskReboot(t)
      BY <3>5, RadioCommandsKeep
    <3>6. CASE Save(t)
      BY <3>6, SaveKeeps
    <3>7. CASE \E fails \in BOOLEAN : ResetName(t, fails)
      BY <3>7, ResetNameKeeps
    <3> QED BY <2>1, <3>1, <3>2, <3>3, <3>4, <3>5, <3>6, <3>7 DEF Command
  <2>2. ASSUME NEW t \in Threads, Proceeds(t) PROVE IInv'
    <3>1. CASE TargetPort(t)
      BY <3>1, TargetPortKeeps
    <3>2. CASE SaveWrites(t) \/ ResetDeletes(t)
      BY <3>2, WriteStepsKeep
    <3>3. CASE SaveFails(t)
      BY <3>3, SaveFailsKeeps
    <3>4. CASE SaveReturns(t) \/ ResetReturns(t)
      BY <3>4, ReturnsKeep DEF SaveReturns, ResetReturns, Returns, Flashing
    <3>5. CASE ResetRest(t)
      BY <3>5, ResetRestKeeps
    <3>6. CASE DeleteFails(t)
      BY <3>6, DeleteFailsKeeps
    <3> QED BY <2>2, <3>1, <3>2, <3>3, <3>4, <3>5, <3>6 DEF Proceeds
  <2>3. CASE RebootFires \/ PowerFails
    BY <2>3, RestartKeeps DEF RebootFires, PowerFails
  <2>4. CASE Load
    BY <2>4, LoadKeeps
  <2>5. CASE LoadFails \/ ApplyDefaultMode \/ UNCHANGED vars
    BY <2>5, BootStepsKeep
  <2> QED BY <2>1, <2>2, <2>3, <2>4, <2>5 DEF Next
<1> QED BY <1>1, <1>2, PTL DEF Spec

\* No setting, in memory or in flash, ever holds a value that its command
\* refuses, for any settings, threads and faults (wt_app.c:225).
THEOREM TypeCorrect == Spec => []TypeOK
<1>1. IInv => TypeOK
  BY Shape DEF IInv, Types, TypeOK, Values, Configs, Jobs
<1> QED BY <1>1, IInvHolds, PTL

\* What the last clean save stored, or the last clean reset restored, is what
\* the next boot loads and applies (wt_app.c:499, main.c:54).
THEOREM SavesAreKept == Spec => []ConfigKept
<1>1. IInv => ConfigKept
  BY DEF IInv, AsLoaded, ConfigKept
<1> QED BY <1>1, IInvHolds, PTL

\* A save or reset that is cut short, at whichever item, leaves the items
\* before it new and the others old (wt_app.c:510).
THEOREM CutsLeavePrefixes == Spec => []CutShortIsPrefix
<1>1. IInv => CutShortIsPrefix
  BY DEF IInv, Cut, CutAt, CutShortIsPrefix
<1> QED BY <1>1, IInvHolds, PTL

\* The address and port of the bridge target were given together, unless two
\* commands wrote them at once or a save was disturbed (wt_app.c:303).
THEOREM TargetsStayWhole == Spec => []TargetWhole
<1>1. IInv => TargetWhole
  BY DEF IInv, Target
<1> QED BY <1>1, IInvHolds, PTL
=============================================================================
