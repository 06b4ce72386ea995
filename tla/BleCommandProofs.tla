-------------------------- MODULE BleCommandProofs --------------------------
(***************************************************************************)
(* Proofs about the BLE command intake: the interpreter never stays busy   *)
(* without work, what it runs is never a mixture of two lines, and as long *)
(* as no line is taken too early whole lines run in the order sent.  They  *)
(* hold for every number of lines, every number of writes per line and     *)
(* every buffer size.                                                      *)
(***************************************************************************)
EXTENDS BleCommand, SequenceTheorems, TLAPS

USE LinesAssumption, BufferAssumption

\* A text is the beginning of one line.
IsBeginning(text) ==
  \E l \in 1 .. Lines : \E n \in 1 .. Parts[l] : text = Beginning(l, n)

\* The client is inside a line that has parts left, and the receive buffer
\* holds exactly the parts of it that were acknowledged.
ClientInLine ==
  /\ line \in Nat \ {0} /\ sentParts \in Nat
  /\ sentParts > 0 => /\ line <= Lines
                      /\ sentParts < Parts[line]
                      /\ buf = Beginning(line, sentParts)

\* Scheduled work has a line to run, and a set busy flag has work behind it.
BusyHasWork ==
  /\ work \in {"idle", "delayed", "queued"}
  /\ work # "idle" => workBuf # <<>>
  /\ NeverWedged

\* Every text past the receive buffer is the beginning of one line.
TextsAreBeginnings ==
  /\ workBuf # <<>> => IsBeginning(workBuf)
  /\ cmd # <<>> => IsBeginning(cmd)
  /\ runs \in Seq(Seq(Part)) /\ RunsNoMixture

-----------------------------------------------------------------------------
(* What the text operations do to beginnings.                              *)

\* A beginning is a sequence of parts, and not empty.
LEMMA BeginningIsText ==
  ASSUME NEW l \in 1 .. Lines, NEW n \in Nat \ {0}
  PROVE  /\ Beginning(l, n) \in Seq(Part) /\ Len(Beginning(l, n)) = n
         /\ Beginning(l, n) # <<>>
<1>1. Beginning(l, n) \in [1 .. n -> Part]
  BY DEF Beginning, Part
<1>2. Beginning(l, n) \in Seq(Part) /\ Len(Beginning(l, n)) = n
  BY <1>1
<1> QED
  BY <1>2

\* The first part of a line is its beginning of length one.
LEMMA FirstPart ==
  ASSUME NEW l \in 1 .. Lines
  PROVE  <<[line |-> l, part |-> 1]>> = Beginning(l, 1)
BY DEF Beginning

\* The next part behind a beginning makes the beginning one longer.
LEMMA NextPart ==
  ASSUME NEW l \in 1 .. Lines, NEW n \in Nat \ {0}
  PROVE  Append(SubSeq(Beginning(l, n), 1, n), [line |-> l, part |-> n + 1])
           = Beginning(l, n + 1)
<1> DEFINE b == Beginning(l, n)
           e == [line |-> l, part |-> n + 1]
<1>1. b \in Seq(Part) /\ Len(b) = n
  BY BeginningIsText
<1>2. \A i \in 1 .. n : b[i] = [line |-> l, part |-> i]
  BY DEF Beginning
<1>3. SubSeq(b, 1, n) = b
  BY <1>1
<1>4. e \in Part
  BY DEF Part
<1>5. /\ Append(b, e) \in Seq(Part) /\ Len(Append(b, e)) = n + 1
      /\ \A i \in 1 .. n + 1 : Append(b, e)[i] = IF i = n + 1 THEN e ELSE b[i]
  BY <1>1, <1>4
<1>6. /\ Beginning(l, n + 1) \in Seq(Part) /\ Len(Beginning(l, n + 1)) = n + 1
      /\ \A i \in 1 .. n + 1 : Beginning(l, n + 1)[i] = [line |-> l, part |-> i]
  BY BeginningIsText DEF Beginning
<1>7. Append(b, e) = Beginning(l, n + 1)
  <2>1. ASSUME NEW i \in 1 .. n + 1
        PROVE  Append(b, e)[i] = Beginning(l, n + 1)[i]
    <3>1. CASE i = n + 1
      BY <1>5, <1>6, <3>1
    <3>2. CASE i \in 1 .. n
      BY <1>2, <1>5, <1>6, <3>2
    <3>3. i = n + 1 \/ i \in 1 .. n
      OBVIOUS
    <3> QED
      BY <3>1, <3>2, <3>3
  <2> HIDE DEF b, e
  <2> QED
    BY <1>5, <1>6, <2>1, SeqEqual
<1> QED
  BY <1>3, <1>7

-----------------------------------------------------------------------------
(* The invariant.                                                          *)

IntakeInv == ClientInLine /\ BusyHasWork /\ TextsAreBeginnings

LEMMA InitIntake == Init => IntakeInv
BY DEF Init, IntakeInv, ClientInLine, BusyHasWork, NeverWedged,
       TextsAreBeginnings, RunsNoMixture

\* An acknowledged part leaves the client inside its line, or at the next one,
\* if the buffer took the part.
LEMMA AckedPart ==
  ASSUME ClientInLine, Sending, PartAcked,
         buf' = Beginning(line, sentParts + 1)
  PROVE  ClientInLine'
<1>1. line \in 1 .. Lines /\ Parts[line] \in Nat \ {0}
  BY DEF Sending, ClientInLine
<1>2. sentParts < Parts[line]
  BY <1>1 DEF ClientInLine
<1>3. CASE sentParts + 1 = Parts[line]
  BY <1>3 DEF PartAcked, ClientInLine
<1>4. CASE sentParts + 1 # Parts[line]
  BY <1>1, <1>2, <1>4 DEF PartAcked, ClientInLine
<1> QED
  BY <1>3, <1>4

\* A handed-over beginning is what the workqueue will find.
LEMMA HandedOver ==
  ASSUME IntakeInv, Sending, HandOver, sentParts + 1 <= Parts[line],
         buf' = Beginning(line, sentParts + 1), UNCHANGED <<cmd, runs>>
  PROVE  BusyHasWork' /\ TextsAreBeginnings'
<1>1. line \in 1 .. Lines /\ sentParts + 1 \in 1 .. Parts[line]
  BY DEF Sending, IntakeInv, ClientInLine
<1>2. workBuf' # <<>> /\ IsBeginning(workBuf)'
  <2>1. Beginning(line, sentParts + 1) # <<>>
    BY <1>1, BeginningIsText
  <2>2. IsBeginning(Beginning(line, sentParts + 1))
    BY <1>1 DEF IsBeginning
  <2> QED
    BY <2>1, <2>2 DEF HandOver, IsBeginning
<1>3. BusyHasWork'
  BY <1>2 DEF HandOver, BusyHasWork, NeverWedged
<1>4. TextsAreBeginnings'
  BY <1>2 DEF IntakeInv, TextsAreBeginnings, RunsNoMixture, IsBeginning
<1> QED
  BY <1>3, <1>4

\* Every step keeps the invariant.
LEMMA StepIntake == IntakeInv /\ [Next]_vars => IntakeInv'
<1> SUFFICES ASSUME IntakeInv, [Next]_vars PROVE IntakeInv'
  OBVIOUS
<1> USE DEF vars, deviceVars, clientVars
<1>0. Sending => line \in 1 .. Lines /\ Parts[line] \in Nat \ {0}
  BY DEF Sending, IntakeInv, ClientInLine
<1>1. CASE WriteFirst
  <2>1. buf' = Beginning(line, sentParts + 1)
    <3>1. NewPart = [line |-> line, part |-> 1] /\ sentParts + 1 = 1
      BY <1>1 DEF WriteFirst, NewPart
    <3> QED
      BY <1>0, <1>1, <3>1, FirstPart DEF WriteFirst
  <2>2. sentParts + 1 <= Parts[line]
    BY <1>0, <1>1 DEF WriteFirst
  <2> QED
    BY <1>1, <2>1, <2>2, AckedPart, HandedOver DEF WriteFirst, IntakeInv
<1>2. CASE WriteRefused
  <2>1. ClientInLine'
    BY <1>2 DEF WriteRefused, LineRefused, IntakeInv, ClientInLine
  <2> QED
    BY <1>2, <2>1 DEF WriteRefused, IntakeInv, BusyHasWork, NeverWedged,
                      TextsAreBeginnings, RunsNoMixture, IsBeginning
<1>3. CASE WriteNext
  <2>1. sentParts \in Nat \ {0} /\ sentParts < Parts[line]
        /\ buf = Beginning(line, sentParts)
    BY <1>3 DEF WriteNext, IntakeInv, ClientInLine
  <2>2. buf' = Beginning(line, sentParts + 1)
    BY <1>0, <1>3, <2>1, NextPart DEF WriteNext, NewPart
  <2>3. sentParts + 1 <= Parts[line]
    BY <1>0, <1>3, <2>1 DEF WriteNext
  <2> QED
    BY <1>3, <2>2, <2>3, AckedPart, HandedOver DEF WriteNext, IntakeInv
<1>4. CASE WriteTooLong
  <2>1. ClientInLine'
    BY <1>4 DEF WriteTooLong, LineRefused, IntakeInv, ClientInLine
  <2> QED
    BY <1>4, <2>1 DEF WriteTooLong, IntakeInv, BusyHasWork, NeverWedged,
                      TextsAreBeginnings, RunsNoMixture, IsBeginning
<1>5. CASE DebounceEnds
  BY <1>5 DEF DebounceEnds, IntakeInv, ClientInLine, BusyHasWork, NeverWedged,
              TextsAreBeginnings, RunsNoMixture, IsBeginning
<1>6. CASE StartCommand
  <2>1. cmd' = workBuf /\ workBuf # <<>> /\ IsBeginning(workBuf)
    BY <1>6 DEF StartCommand, TextToRun, IntakeInv, BusyHasWork,
                TextsAreBeginnings
  <2>2. BusyHasWork'
    BY <1>6, <2>1 DEF StartCommand, IntakeInv, BusyHasWork, NeverWedged
  <2> QED
    BY <1>6, <2>1, <2>2 DEF StartCommand, IntakeInv, ClientInLine,
                            TextsAreBeginnings, RunsNoMixture, IsBeginning
<1>7. CASE FinishCommand
  <2>1. IsBeginning(cmd) /\ cmd \in Seq(Part)
    <3>1. IsBeginning(cmd)
      BY <1>7 DEF FinishCommand, IntakeInv, TextsAreBeginnings
    <3>2. PICK l \in 1 .. Lines : \E n \in 1 .. Parts[l] : cmd = Beginning(l, n)
      BY <3>1 DEF IsBeginning
    <3>3. PICK n \in Nat \ {0} : cmd = Beginning(l, n)
      BY <3>2
    <3> QED
      BY <3>1, <3>3, BeginningIsText
  <2>2. runs' \in Seq(Seq(Part)) /\ RunsNoMixture'
    <3>1. /\ runs \in Seq(Seq(Part)) /\ runs' = Append(runs, cmd)
          /\ \A i \in 1 .. Len(runs) : IsBeginning(runs[i])
      BY <1>7 DEF FinishCommand, IntakeInv, TextsAreBeginnings, RunsNoMixture,
                  IsBeginning
    <3>2. /\ runs' \in Seq(Seq(Part)) /\ Len(runs') = Len(runs) + 1
          /\ \A i \in 1 .. Len(runs') :
               runs'[i] = IF i = Len(runs) + 1 THEN cmd ELSE runs[i]
      BY <2>1, <3>1
    <3>3. \A i \in 1 .. Len(runs') : IsBeginning(runs'[i])
      BY <2>1, <3>1, <3>2
    <3> QED
      BY <3>2, <3>3 DEF RunsNoMixture, IsBeginning
  <2>3. BusyHasWork'
    BY <1>7 DEF FinishCommand, ClearBusy, IntakeInv, BusyHasWork, NeverWedged
  <2> QED
    BY <1>7, <2>2, <2>3 DEF FinishCommand, IntakeInv, ClientInLine,
                            TextsAreBeginnings, IsBeginning
<1>8. CASE UNCHANGED vars
  BY <1>8 DEF IntakeInv, ClientInLine, BusyHasWork, NeverWedged,
              TextsAreBeginnings, RunsNoMixture, IsBeginning
<1> QED
  BY <1>1, <1>2, <1>3, <1>4, <1>5, <1>6, <1>7, <1>8 DEF Next

THEOREM IntakeInvariant == Spec => []IntakeInv
BY InitIntake, StepIntake, PTL DEF Spec

\* The interpreter never stays busy without work: ble_cmd_work_busy is set only
\* while a line waits for the debounce, for the workqueue, or runs
\* (wt_ble_cmd_write, wt_ble_cmd_work_handler).
THEOREM NotWedged == Spec => []NeverWedged
<1>1. IntakeInv => NeverWedged
  BY DEF IntakeInv, BusyHasWork
<1> QED
  BY <1>1, IntakeInvariant, PTL

\* Whatever the timing of writes and debounce, what wt_ble_command_execute gets
\* is the beginning of one line, never parts of two.
THEOREM NoMixture == Spec => []RunsNoMixture
<1>1. IntakeInv => RunsNoMixture
  BY DEF IntakeInv, TextsAreBeginnings
<1> QED
  BY <1>1, IntakeInvariant, PTL

-----------------------------------------------------------------------------
(* Whole lines in the order sent.                                          *)

LineOf(text) == text[1].line

\* A text that may run: a line the client is past by line n with, acknowledged
\* and whole, or as much as fits of one that is too long.
Settled(text, n, out) ==
  /\ LineOf(text) \in 1 .. Lines /\ LineOf(text) < n
  /\ \/ Whole(text, LineOf(text)) /\ out[LineOf(text)] = "acked"
     \/ TooLong(LineOf(text)) /\ text = Beginning(LineOf(text), MaxParts)

\* As long as no line was taken too early, the busy flag keeps a second line
\* out from the first part of a line until it has run.
OneLineInside ==
  /\ sentParts > 0 => /\ work # "idle" /\ sentParts <= MaxParts
                      /\ workBuf = Beginning(line, sentParts)
  /\ work # "idle" => busy /\ cmd = <<>>
  /\ cmd # <<>> => busy

\* What waits to run, what runs and what has run may run, in that order.
WaitsInTurn ==
  work # "idle" =>
    /\ sentParts = 0 => Settled(workBuf, line, outcome)
    /\ \A i \in 1 .. Len(runs) : LineOf(runs[i]) < LineOf(workBuf)
IsRunInTurn ==
  cmd # <<>> =>
    /\ Settled(cmd, line, outcome)
    /\ \A i \in 1 .. Len(runs) : LineOf(runs[i]) < LineOf(cmd)
RanInTurn ==
  /\ \A i \in 1 .. Len(runs) : Settled(runs[i], line, outcome)
  /\ \A i, j \in 1 .. Len(runs) : i < j => LineOf(runs[i]) < LineOf(runs[j])

OnTime == OneLineInside /\ WaitsInTurn /\ IsRunInTurn /\ RanInTurn
OrderInv == DOMAIN outcome = 1 .. Lines /\ (~late => OnTime)

LEMMA LineOfBeginning ==
  ASSUME NEW l \in 1 .. Lines, NEW n \in Nat \ {0}
  PROVE  LineOf(Beginning(l, n)) = l
BY DEF LineOf, Beginning

\* A line the client is past keeps its outcome.
LEMMA SettledStays ==
  ASSUME NEW text, NEW n \in Nat, NEW m \in Nat, n <= m, NEW out, NEW new,
         Settled(text, n, out), \A l \in 1 .. Lines : l < n => new[l] = out[l]
  PROVE  Settled(text, m, new)
<1>1. LineOf(text) \in 1 .. Lines /\ LineOf(text) < n /\ LineOf(text) < m
  BY DEF Settled
<1> QED
  BY <1>1 DEF Settled

\* The client moves on, and what it is past stays as it was.
LEMMA ClientMoves ==
  ASSUME IntakeInv, OrderInv, Sending, PartAcked \/ LineRefused
  PROVE  /\ line \in Nat /\ line' \in Nat /\ line <= line'
         /\ \A l \in 1 .. Lines : l < line => outcome'[l] = outcome[l]
         /\ DOMAIN outcome' = 1 .. Lines
<1>1. line \in 1 .. Lines /\ DOMAIN outcome = 1 .. Lines
  BY DEF Sending, IntakeInv, ClientInLine, OrderInv
<1>2. /\ line' = line \/ line' = line + 1
      /\ outcome' = outcome \/ \E o \in {"acked", "refused"} :
                                 outcome' = [outcome EXCEPT ![line] = o]
  BY DEF PartAcked, LineRefused
<1> QED
  BY <1>1, <1>2

\* A part that is taken is the only text inside.
LEMMA TakenInTurn ==
  ASSUME IntakeInv, OrderInv, ~late, Sending, HandOver, PartAcked,
         sentParts + 1 <= Parts[line], sentParts + 1 <= MaxParts, cmd = <<>>,
         buf' = Beginning(line, sentParts + 1), UNCHANGED <<cmd, runs>>
  PROVE  OnTime'
<1>1. line \in 1 .. Lines /\ sentParts \in Nat /\ OnTime /\ DOMAIN outcome = 1 .. Lines
  BY DEF Sending, IntakeInv, ClientInLine, OrderInv
<1>2. LineOf(workBuf') = line /\ workBuf' = Beginning(line, sentParts + 1)
  BY <1>1, LineOfBeginning DEF HandOver
<1>3. \A i \in 1 .. Len(runs) : Settled(runs[i], line', outcome')
  BY <1>1, ClientMoves, SettledStays DEF OnTime, RanInTurn
<1>4. OneLineInside'
  BY <1>1, <1>2 DEF OneLineInside, HandOver, PartAcked
<1>5. WaitsInTurn'
  <2>1. ASSUME sentParts' = 0 PROVE Settled(workBuf', line', outcome')
    <3>1. sentParts + 1 = Parts[line] /\ line' = line + 1 /\ outcome'[line] = "acked"
      BY <1>1, <2>1 DEF PartAcked
    <3> QED
      BY <1>1, <1>2, <3>1 DEF Settled, Whole
  <2>2. \A i \in 1 .. Len(runs) : LineOf(runs[i]) < LineOf(workBuf')
    BY <1>1, <1>2 DEF OnTime, RanInTurn, Settled
  <2> QED
    BY <2>1, <2>2 DEF WaitsInTurn
<1>6. RanInTurn' /\ IsRunInTurn'
  BY <1>1, <1>3 DEF OnTime, RanInTurn, IsRunInTurn
<1> QED
  BY <1>4, <1>5, <1>6 DEF OnTime

\* A line that is refused leaves the text inside to run.
LEMMA RefusedInTurn ==
  ASSUME IntakeInv, OrderInv, ~late, Sending, LineRefused, sentParts = 0 \/ ~Fits,
         UNCHANGED <<workBuf, busy, work, cmd, runs>>
  PROVE  OnTime'
<1>1. /\ line \in 1 .. Lines /\ sentParts \in Nat /\ OnTime
      /\ sentParts > 0 => sentParts < Parts[line]
  BY DEF Sending, IntakeInv, ClientInLine, OrderInv
<1>2. line' = line + 1 /\ sentParts' = 0
  BY DEF LineRefused
<1>3. \A text : Settled(text, line, outcome) => Settled(text, line', outcome')
  BY ClientMoves, SettledStays
<1>4. OneLineInside'
  BY <1>1, <1>2 DEF OnTime, OneLineInside
<1>5. ASSUME work # "idle" PROVE Settled(workBuf, line', outcome')
  <2>1. CASE sentParts = 0
    BY <1>1, <1>3, <1>5, <2>1 DEF OnTime, WaitsInTurn
  <2>2. CASE sentParts > 0
    <3>1. sentParts = MaxParts /\ workBuf = Beginning(line, MaxParts) /\ TooLong(line)
      BY <1>1, <2>2 DEF OnTime, OneLineInside, Fits, TooLong
    <3>2. LineOf(workBuf) = line
      BY <1>1, <3>1, LineOfBeginning
    <3> QED
      BY <1>1, <1>2, <3>1, <3>2 DEF Settled
  <2> QED
    BY <1>1, <2>1, <2>2
<1>6. WaitsInTurn'
  BY <1>1, <1>5 DEF OnTime, WaitsInTurn
<1>7. RanInTurn' /\ IsRunInTurn'
  BY <1>1, <1>3 DEF OnTime, RanInTurn, IsRunInTurn
<1> QED
  BY <1>4, <1>6, <1>7 DEF OnTime

LEMMA StepOrder == IntakeInv /\ OrderInv /\ [Next]_vars => OrderInv'
<1> SUFFICES ASSUME IntakeInv, OrderInv, [Next]_vars PROVE OrderInv'
  OBVIOUS
<1> USE DEF vars, deviceVars, clientVars
<1>0. /\ DOMAIN outcome = 1 .. Lines /\ (~late => OnTime)
      /\ line \in Nat \ {0} /\ sentParts \in Nat
      /\ Sending => line \in 1 .. Lines /\ Parts[line] \in Nat \ {0}
  BY DEF OrderInv, IntakeInv, ClientInLine, Sending
<1>1. CASE WriteFirst
  <2>1. Sending /\ sentParts = 0 /\ ~busy /\ HandOver /\ PartAcked /\ buf' = <<NewPart>>
        /\ UNCHANGED <<cmd, runs, late>>
    BY <1>1 DEF WriteFirst, Admitted
  <2>2. buf' = Beginning(line, sentParts + 1)
    BY <1>0, <2>1, FirstPart DEF NewPart
  <2>3. ~late => OnTime'
    <3> SUFFICES ASSUME ~late PROVE OnTime'
      OBVIOUS
    <3>1. cmd = <<>>
      BY <1>0, <2>1 DEF OnTime, OneLineInside
    <3> QED
      BY <1>0, <2>1, <2>2, <3>1, TakenInTurn
  <2> QED
    BY <2>1, <2>3, ClientMoves DEF OrderInv
<1>2. CASE WriteNext
  <2>1. Sending /\ sentParts > 0 /\ Fits /\ HandOver /\ PartAcked
        /\ buf' = Append(SubSeq(buf, 1, sentParts), NewPart)
        /\ UNCHANGED <<cmd, runs, late>>
    BY <1>2 DEF WriteNext
  <2>2. sentParts < Parts[line] /\ buf = Beginning(line, sentParts)
    BY <2>1 DEF IntakeInv, ClientInLine
  <2>3. buf' = Beginning(line, sentParts + 1)
    BY <1>0, <2>1, <2>2, NextPart DEF NewPart
  <2>4. ~late => OnTime'
    <3> SUFFICES ASSUME ~late PROVE OnTime'
      OBVIOUS
    <3>1. cmd = <<>>
      BY <1>0, <2>1 DEF OnTime, OneLineInside
    <3>2. sentParts + 1 <= Parts[line] /\ sentParts + 1 <= MaxParts
      BY <1>0, <2>1, <2>2 DEF Fits
    <3> QED
      BY <2>1, <2>3, <3>1, <3>2, TakenInTurn
  <2> QED
    BY <2>1, <2>4, ClientMoves DEF OrderInv
<1>3. CASE WriteRefused \/ WriteTooLong
  <2>1. Sending /\ LineRefused /\ (sentParts = 0 \/ ~Fits)
        /\ UNCHANGED <<workBuf, busy, work, cmd, runs, late>>
    BY <1>3 DEF WriteRefused, WriteTooLong
  <2> QED
    BY <2>1, RefusedInTurn, ClientMoves DEF OrderInv
<1>4. CASE DebounceEnds \/ UNCHANGED vars
  <2>1. UNCHANGED <<workBuf, busy, cmd, line, sentParts, outcome, runs, late>>
        /\ (work' # "idle" => work # "idle") /\ (work # "idle" => work' # "idle")
    BY <1>4 DEF DebounceEnds
  <2>2. OnTime => OnTime'
    BY <2>1 DEF OnTime, OneLineInside, WaitsInTurn, IsRunInTurn, RanInTurn
  <2> QED
    BY <1>0, <2>1, <2>2 DEF OrderInv
<1>5. CASE StartCommand
  <2> SUFFICES ASSUME ~late' PROVE OnTime'
    BY <1>0, <1>5 DEF StartCommand, OrderInv
  <2>0. ~late /\ ~(sentParts > 0)
    BY <1>5, Zenon DEF StartCommand
  <2>1. /\ ~late /\ sentParts = 0 /\ work # "idle" /\ work' = "idle" /\ cmd' = workBuf
        /\ UNCHANGED <<busy, line, sentParts, outcome, runs>>
    <3>1. sentParts = 0
      BY <1>0, <2>0
    <3>2. work # "idle" /\ work' = "idle" /\ cmd' = workBuf
      BY <1>5 DEF StartCommand, TextToRun
    <3>3. UNCHANGED <<busy, line, sentParts, outcome, runs>>
      BY <1>5 DEF StartCommand
    <3> QED
      BY <2>0, <3>1, <3>2, <3>3, Zenon
  <2>2. OnTime
    BY <1>0, <2>1
  <2> QED
    BY <2>1, <2>2 DEF OnTime, OneLineInside, WaitsInTurn, IsRunInTurn, RanInTurn
<1>6. CASE FinishCommand
  <2> SUFFICES ASSUME ~late' PROVE OnTime'
    BY <1>0, <1>6 DEF FinishCommand, OrderInv
  <2>1. /\ OnTime /\ cmd # <<>> /\ cmd' = <<>> /\ runs' = Append(runs, cmd)
        /\ UNCHANGED <<workBuf, work, line, sentParts, outcome>>
    BY <1>0, <1>6 DEF FinishCommand
  <2>2. work = "idle" /\ ~(sentParts > 0)
    BY <2>1 DEF OnTime, OneLineInside
  <2>3. RanInTurn'
    <3>1. /\ Len(runs) \in Nat /\ Len(runs') = Len(runs) + 1
          /\ \A i \in 1 .. Len(runs) : runs'[i] = runs[i]
          /\ runs'[Len(runs) + 1] = cmd
      BY <2>1 DEF IntakeInv, TextsAreBeginnings
    <3>2. \A i \in 1 .. Len(runs') : i \in 1 .. Len(runs) \/ i = Len(runs) + 1
      BY <3>1
    <3>3. \A i \in 1 .. Len(runs') : Settled(runs'[i], line, outcome)
      BY <2>1, <3>1, <3>2 DEF OnTime, RanInTurn, IsRunInTurn
    <3>4. \A i, j \in 1 .. Len(runs') : i < j => LineOf(runs'[i]) < LineOf(runs'[j])
      <4> SUFFICES ASSUME NEW i \in 1 .. Len(runs'), NEW j \in 1 .. Len(runs'), i < j
                   PROVE  LineOf(runs'[i]) < LineOf(runs'[j])
        OBVIOUS
      <4>1. i \in 1 .. Len(runs)
        BY <3>1
      <4>2. CASE j \in 1 .. Len(runs)
        BY <2>1, <3>1, <4>1, <4>2 DEF OnTime, RanInTurn
      <4>3. CASE j = Len(runs) + 1
        BY <2>1, <3>1, <4>1, <4>3 DEF OnTime, IsRunInTurn
      <4> QED
        BY <3>2, <4>2, <4>3
    <3> QED
      BY <2>1, <3>3, <3>4 DEF RanInTurn
  <2> QED
    BY <2>1, <2>2, <2>3 DEF OnTime, OneLineInside, WaitsInTurn, IsRunInTurn
<1> QED
  BY <1>1, <1>2, <1>3, <1>4, <1>5, <1>6 DEF Next

\* As long as the parts of a line follow one another within the debounce, the
\* lines that run are acknowledged lines, whole, each once and in the order
\* sent (wt_ble_cmd_write, wt_ble_cmd_work_handler); the exception is as much
\* of a line that is too long as fits.
THEOREM WholeLinesRunInOrder == Spec => []RunsWholeLinesInOrder
<1>1. Init => OrderInv
  BY DEF Init, OrderInv, OnTime, OneLineInside, WaitsInTurn, IsRunInTurn, RanInTurn
<1>2. OrderInv => RunsWholeLinesInOrder
  BY DEF OrderInv, OnTime, RanInTurn, Settled, LineOf, RunsWholeLinesInOrder
<1> QED
  BY <1>1, <1>2, StepOrder, IntakeInvariant, PTL DEF Spec
=============================================================================
