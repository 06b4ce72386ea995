------------------------------ MODULE Config ------------------------------
(***************************************************************************)
(* The settings (wt_app.c:199-307, 374-569, main.c): commands of several   *)
(* threads change them in memory, config save and reset write the flash    *)
(* one item after the other, and a restart, asked for or not, loads what   *)
(* is there.  A step ends where a thread calls the flash or the Bluetooth  *)
(* stack, or may be preempted between two assignments.                     *)
(***************************************************************************)
EXTENDS Naturals, Sequences

CONSTANTS
  Items,               \* the settings in the order of save and reset
  Threads,             \* threads that carry out commands
  Default, Custom,     \* a setting's default, and another valid value
  Invalid,             \* one that is refused: port 0, unknown mode, empty name
  Touched,             \* bound: the settings that single commands change
  MaxCalls,            \* bound: commands
  MaxFaults            \* bound: failed flash operations, and restarts

\* All that the code has, in its order.
AllItems == <<"ble_name", "boot_mode", "discovery", "wifi_cmd", "wifi_cmd_port",
              "bridge_ble", "bridge_uart", "bridge_wifi", "bridge_ip",
              "bridge_port">>
Last == Len(Items)
Fields == {Items[i] : i \in 1 .. Last}
Bridges == {"bridge_ble", "bridge_uart", "bridge_wifi"}
Checked == {"ble_name", "boot_mode", "wifi_cmd_port"}

ASSUME ItemsAssumption ==
  /\ Items \in Seq(STRING)
  /\ Items = SelectSeq(AllItems, LAMBDA f : f \in Fields)
  /\ \A i, j \in 1 .. Last : Items[i] = Items[j] => i = j
  /\ {"ble_name", "boot_mode", "bridge_ip", "bridge_port"} \subseteq Fields
ASSUME ValuesAssumption == Default # Custom /\ Invalid \notin {Default, Custom}
ASSUME BoundsAssumption ==
  /\ Touched \subseteq Fields \ {"bridge_ip", "bridge_port"}
  /\ {MaxCalls, MaxFaults} \subseteq Nat

VARIABLES
  live,          \* the settings in memory
  flash,         \* the stored ones; Invalid where there is none
  phase,         \* boot (before settings_load), settle (the second after), up
  mode,          \* what the radios were last told; Invalid: nothing yet
  reboot,        \* reboot_work is scheduled
  at,            \* per thread: its command, see Job
  calls, faults, \* bounded counters
  promised,      \* history: what the last clean save or reset left
  asked,         \* history: what the last one began to leave
  doubt,         \* history: one has begun and has not ended clean
  muddled,       \* history: one was crossed, failed, or began in doubt
  torn,          \* history: the bridge target was written by two at once
  untouched      \* history: no command since the settings were loaded

\* op: the command; next: the item it is at; held: the settings it has copied;
\* history: crossed: another command has changed settings or flash meanwhile.
Job(op, next, held) ==
  [op |-> op, next |-> next, held |-> held, crossed |-> FALSE]
Resting == Job("idle", 0, <<>>)

past == <<promised, asked, doubt, muddled, torn, untouched>>
vars == <<live, flash, phase, mode, reboot, at, calls, faults, past>>

Defaults == [f \in Fields |-> Default]

Init ==
  /\ live = Defaults /\ flash = [f \in Fields |-> Invalid]
  /\ phase = "boot" /\ mode = Invalid /\ reboot = FALSE
  /\ at = [t \in Threads |-> Resting]
  /\ calls = 0 /\ faults = 0
  /\ promised = Defaults /\ asked = Defaults
  /\ doubt = FALSE /\ muddled = FALSE /\ torn = FALSE /\ untouched = FALSE

BeginCall(t) == at[t].op = "idle" /\ calls < MaxCalls /\ calls' = calls + 1
Fault == faults < MaxFaults /\ faults' = faults + 1

Crossed(u) ==
  IF at[u].op = "idle" THEN at[u] ELSE [at[u] EXCEPT !.crossed = TRUE]

OthersBusy(t) == \E u \in Threads \ {t} : at[u].op # "idle"

\* Thread t goes on with c, which crosses what others are in the middle of.
Crossing(t, c) ==
  at' = [u \in Threads |->
           IF u # t THEN Crossed(u)
           ELSE [c EXCEPT !.crossed =
                   c.op # "idle" /\ (at[t].crossed \/ OthersBusy(t))]]

InTarget == \E t \in Threads : at[t].op = "target"

-----------------------------------------------------------------------------
(* Commands that change settings in memory.                                *)

AnyValue(f, v) == TRUE                   \* faulty: the value is not checked
Accepted(f, v) == f \in Checked => v # Invalid

Inputs(f) == IF f \in Checked THEN {Default, Custom, Invalid}
                               ELSE {Default, Custom}

\* What wt_ble_name_set, wt_app_boot_mode_set, wt_wifi_cmd_port_set and the
\* on|off setters leave; a refused value changes nothing.
Set(t, f, v) ==
  /\ BeginCall(t) /\ Accepted(f, v)
  /\ live' = [live EXCEPT ![f] = v]
  /\ Crossing(t, Resting)
  /\ untouched' = FALSE
  /\ UNCHANGED <<flash, phase, mode, reboot, faults, promised, asked, doubt,
                 muddled, torn>>

\* bridge all on|off; a scan turns the UDP services on.
SetTogether(t, fields) ==
  /\ BeginCall(t)
  /\ live' = [f \in Fields |-> IF f \in fields THEN Custom ELSE live[f]]
  /\ Crossing(t, Resting)
  /\ untouched' = FALSE
  /\ UNCHANGED <<flash, phase, mode, reboot, faults, promised, asked, doubt,
                 muddled, torn>>

\* bridge target: the address, then the port.
TargetIp(t, v) ==
  /\ BeginCall(t)
  /\ live' = [live EXCEPT !["bridge_ip"] = v]
  /\ Crossing(t, Job("target", 0, v))
  /\ torn' = (torn \/ InTarget)
  /\ untouched' = FALSE
  /\ UNCHANGED <<flash, phase, mode, reboot, faults, promised, asked, doubt,
                 muddled>>

PortAgain == "bridge_ip"                 \* faulty: the port is not stored
PortItem == "bridge_port"

TargetPort(t) ==
  /\ at[t].op = "target"
  /\ live' = [live EXCEPT ![PortItem] = at[t].held]
  /\ Crossing(t, Resting)
  /\ UNCHANGED <<flash, phase, mode, reboot, calls, faults, past>>

\* A mode command, for a mode other than the default.
SetMode(t) ==
  /\ BeginCall(t)
  /\ mode' = Custom
  /\ untouched' = FALSE
  /\ UNCHANGED <<live, flash, phase, reboot, at, faults, promised, asked, doubt,
                 muddled, torn>>

-----------------------------------------------------------------------------
(* config save and config reset                                            *)

\* Save reads these when their turn comes, the others when it begins.
ReadLate == {"ble_name", "boot_mode", "bridge_ip", "bridge_port"}

\* The flash begins to change to what the command intends.
BeginFlash(intended) ==
  /\ asked' = intended /\ doubt' = TRUE /\ muddled' = (muddled \/ doubt)

\* It has changed: it holds what was intended, unless something crossed it.
EndFlash(t, clean) ==
  /\ promised' = IF clean THEN asked ELSE promised
  /\ doubt' = ~clean /\ muddled' = ~clean

Save(t) ==
  /\ BeginCall(t)
  /\ Crossing(t, Job("save", 1, live))
  /\ BeginFlash(live)
  /\ UNCHANGED <<live, flash, phase, mode, reboot, faults, promised, torn,
                 untouched>>

SaveWrites(t) ==
  LET item == Items[at[t].next]
  IN  /\ at[t].op = "save" /\ at[t].next <= Last
      /\ flash' = [flash EXCEPT ![item] =
                     IF item \in ReadLate THEN live[item] ELSE at[t].held[item]]
      /\ at' = [at EXCEPT ![t].next = @ + 1]
      /\ UNCHANGED <<live, phase, mode, reboot, calls, faults, past>>

\* An item that cannot be written ends the command with an error.
PassedOver(t) == [at[t] EXCEPT !.next = @ + 1]   \* faulty: the save goes on
AfterError(t) == Resting

SaveFails(t) ==
  /\ at[t].op = "save" /\ at[t].next <= Last /\ Fault
  /\ at' = [at EXCEPT ![t] = AfterError(t)]
  /\ muddled' = (muddled \/ at[t].crossed)
  /\ UNCHANGED <<live, flash, phase, mode, reboot, calls, promised, asked, doubt,
                 torn, untouched>>

Clean(t) == ~at[t].crossed

SaveReturns(t) ==
  /\ at[t].op = "save" /\ at[t].next > Last
  /\ at' = [at EXCEPT ![t] = Resting]
  /\ EndFlash(t, Clean(t))
  /\ UNCHANGED <<live, flash, phase, mode, reboot, calls, faults, asked, torn,
                 untouched>>

\* The name first; an error of the Bluetooth stack ends the reset there.
ResetName(t, fails) ==
  /\ BeginCall(t)
  /\ live' = [live EXCEPT !["ble_name"] = Default]
  /\ Crossing(t, IF fails THEN Resting ELSE Job("reset", 0, <<>>))
  /\ untouched' = FALSE
  /\ UNCHANGED <<flash, phase, mode, reboot, faults, promised, asked, doubt,
                 muddled, torn>>

ResetRest(t) ==
  /\ at[t].op = "reset"
  /\ live' = [Defaults EXCEPT !["ble_name"] = live["ble_name"]]
  /\ Crossing(t, Job("delete", 1, <<>>))
  /\ torn' = (torn \/ InTarget)
  /\ BeginFlash(Defaults)
  /\ UNCHANGED <<flash, phase, mode, reboot, calls, faults, promised, untouched>>

ResetDeletes(t) ==
  /\ at[t].op = "delete" /\ at[t].next <= Last
  /\ flash' = [flash EXCEPT ![Items[at[t].next]] = Invalid]
  /\ at' = [at EXCEPT ![t].next = @ + 1]
  /\ UNCHANGED <<live, phase, mode, reboot, calls, faults, past>>

\* A failed deletion is passed over; the reset answers ok.
DeleteFails(t) ==
  /\ at[t].op = "delete" /\ at[t].next <= Last /\ Fault
  /\ at' = [at EXCEPT ![t].next = @ + 1, ![t].crossed = TRUE]
  /\ muddled' = TRUE
  /\ UNCHANGED <<live, flash, phase, mode, reboot, calls, promised, asked, doubt,
                 torn, untouched>>

ResetReturns(t) ==
  /\ at[t].op = "delete" /\ at[t].next > Last
  /\ at' = [at EXCEPT ![t] = Resting]
  /\ EndFlash(t, Clean(t))
  /\ UNCHANGED <<live, flash, phase, mode, reboot, calls, faults, asked, torn,
                 untouched>>

-----------------------------------------------------------------------------
(* Restarts.                                                               *)

\* wt_app_reboot_schedule; an item that is scheduled keeps its deadline.
AskReboot(t) ==
  /\ BeginCall(t)
  /\ reboot' = TRUE
  /\ UNCHANGED <<live, flash, phase, mode, at, faults, past>>

\* Memory is lost; main begins again.
Restart ==
  /\ live' = Defaults /\ mode' = Invalid /\ reboot' = FALSE
  /\ phase' = "boot"
  /\ at' = [t \in Threads |-> Resting]
  /\ muddled' = (muddled \/ \E t \in Threads : at[t].crossed)
  /\ untouched' = FALSE
  /\ UNCHANGED <<flash, calls, promised, asked, doubt, torn>>

RebootFires == reboot /\ Restart /\ UNCHANGED faults

PowerFails == Fault /\ Restart

\* wt_app_settings_set for every item in the flash.
Loaded == [f \in Fields |-> IF flash[f] = Invalid THEN live[f] ELSE flash[f]]

\* Commands given before the settings are loaded give way to what is stored.
Load ==
  /\ phase = "boot" /\ phase' = "settle"
  /\ live' = Loaded
  /\ at' = [t \in Threads |-> Crossed(t)]
  /\ torn' = (torn \/ doubt \/ InTarget)
  /\ untouched' = (live = Defaults /\ \A t \in Threads : at[t].op = "idle")
  /\ UNCHANGED <<flash, mode, reboot, calls, faults, promised, asked, doubt,
                 muddled>>

LoadFails ==
  /\ phase = "boot" /\ phase' = "settle" /\ Fault
  /\ UNCHANGED <<live, flash, mode, reboot, at, calls, past>>

CompiledMode == Default                  \* faulty: the setting is not used
BootMode == live["boot_mode"]

\* wt_radio_apply_default_mode, a second later.
ApplyDefaultMode ==
  /\ phase = "settle" /\ phase' = "up"
  /\ mode' = BootMode
  /\ UNCHANGED <<live, flash, reboot, at, calls, faults, past>>

-----------------------------------------------------------------------------

Proceeds(t) ==
  \/ TargetPort(t)
  \/ SaveWrites(t) \/ SaveFails(t) \/ SaveReturns(t)
  \/ ResetRest(t) \/ ResetDeletes(t) \/ DeleteFails(t) \/ ResetReturns(t)

Command(t) ==
  \/ \E f \in Touched : \E v \in Inputs(f) : Set(t, f, v)
  \/ SetTogether(t, Bridges) \/ SetTogether(t, {"discovery", "wifi_cmd"})
  \/ \E v \in {Default, Custom} : TargetIp(t, v)
  \/ SetMode(t) \/ Save(t) \/ AskReboot(t)
  \/ \E fails \in BOOLEAN : ResetName(t, fails)

Next ==
  \/ \E t \in Threads : Command(t) \/ Proceeds(t)
  \/ RebootFires \/ PowerFails
  \/ Load \/ LoadFails \/ ApplyDefaultMode

Spec == Init /\ [][Next]_vars

-----------------------------------------------------------------------------
(* Properties.                                                             *)

\* No setting ever holds a value its command refuses (wt_wifi.c:193,
\* wt_app.c:227, wt_ble.c:164).
TypeOK ==
  /\ live \in [Fields -> {Default, Custom}]
  /\ flash \in [Fields -> {Default, Custom, Invalid}]
  /\ phase \in {"boot", "settle", "up"}
  /\ mode \in {Default, Custom, Invalid}
  /\ \A t \in Threads :
       /\ at[t].op \in {"idle", "target", "save", "reset", "delete"}
       /\ at[t].next \in 0 .. Last + 1

\* README.md:881: what a save that answered ok has stored, or a reset has
\* restored, comes back at the next boot, and the boot mode with it, unless
\* commands crossed it (wt_app.c:499-565, main.c:54-58).
ConfigKept ==
  phase # "boot" /\ untouched /\ ~doubt =>
    /\ live = promised
    /\ phase = "up" => mode = promised["boot_mode"]

\* A save or reset cut short leaves its first items new and the others as the
\* last one left them: never a value that neither of them had (wt_app.c:510).
CutShortIsPrefix ==
  phase # "boot" /\ untouched /\ ~muddled =>
    \E n \in 0 .. Last : \A i \in 1 .. Last :
      live[Items[i]] = IF i <= n THEN asked[Items[i]] ELSE promised[Items[i]]

\* The bridge target is an address and port that were given together, unless
\* two commands wrote it at once or the last save was disturbed (wt_app.c:303).
TargetWhole == InTarget \/ torn \/ live["bridge_ip"] = live["bridge_port"]
=============================================================================
