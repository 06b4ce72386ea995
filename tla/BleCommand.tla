----------------------------- MODULE BleCommand -----------------------------
(***************************************************************************)
(* How a command line written to the BLE command characteristic gets to    *)
(* run: wt_ble_cmd_write on the Bluetooth receive thread, ble_cmd_work on  *)
(* the system workqueue, and one client that sends its lines in order.     *)
(*                                                                         *)
(* A line longer than one write arrives in parts at increasing offsets.    *)
(* Each part puts the dispatch off by another 35 ms (k_work_reschedule).   *)
(* ble_cmd_work_busy keeps a second line out until the first has run.      *)
(***************************************************************************)
EXTENDS Integers, Sequences

CONSTANTS
  Lines,        \* the number of command lines the client sends
  Parts,        \* per line, the number of writes it takes
  MaxParts      \* the writes that fit into ble_cmd_buf

ASSUME LinesAssumption == Lines \in Nat /\ Parts \in [1 .. Lines -> Nat \ {0}]
ASSUME BufferAssumption == MaxParts \in Nat \ {0}

\* A text is the sequence of the parts it was put together from.
Part == [line : 1 .. Lines, part : Nat]

VARIABLES
  buf,          \* ble_cmd_buf
  workBuf,      \* ble_cmd_work_buf
  busy,         \* ble_cmd_work_busy
  work,         \* ble_cmd_work: "idle", "delayed" or "queued"
  cmd,          \* the handler's copy of the line it runs, <<>> between lines
  line,         \* external: the line the client is sending
  sentParts,    \* external: the parts of it that were acknowledged
  outcome,      \* history: per line, "none", "acked" or "refused"
  runs,         \* history: the texts run, in order
  late          \* history: a line was taken to run before its last part came

deviceVars == <<buf, workBuf, busy, work, cmd>>
clientVars == <<line, sentParts, outcome>>
vars == <<deviceVars, clientVars, runs, late>>

Init ==
  /\ buf = <<>> /\ workBuf = <<>> /\ busy = FALSE /\ work = "idle" /\ cmd = <<>>
  /\ line = 1 /\ sentParts = 0
  /\ outcome = [l \in 1 .. Lines |-> "none"]
  /\ runs = <<>> /\ late = FALSE

Sending == line <= Lines
NewPart == [line |-> line, part |-> sentParts + 1]

\* The client: an acknowledged part is followed by the next, an acknowledged
\* line by the next line.  A refused line is given up (flushCommandQueue takes
\* it off its queue before it writes it).
PartAcked ==
  IF sentParts + 1 = Parts[line]
    THEN /\ outcome' = [outcome EXCEPT ![line] = "acked"]
         /\ line' = line + 1 /\ sentParts' = 0
    ELSE /\ sentParts' = sentParts + 1
         /\ UNCHANGED <<line, outcome>>

LineRefused ==
  /\ outcome' = [outcome EXCEPT ![line] = "refused"]
  /\ line' = line + 1 /\ sentParts' = 0

\* The end of an accepted write: the text so far is handed over, and the
\* dispatch is put off again.
HandOverUnterminated ==                    \* faulty: leaves what was beyond it
  /\ busy' = TRUE
  /\ workBuf' = buf' \o SubSeq(workBuf, Len(buf') + 1, Len(workBuf))
  /\ work' = "delayed"

HandOver ==
  /\ busy' = TRUE
  /\ workBuf' = buf'
  /\ work' = "delayed"

\* Whether a first part finds the interpreter free (atomic_cas).
AlwaysAdmitted == TRUE                     \* faulty: does not look
Admitted == ~busy

-----------------------------------------------------------------------------
(* wt_ble_cmd_write                                                        *)

\* A part that goes beyond the buffer is refused and changes nothing; what was
\* accepted of its line stays handed over.
Fits == sentParts < MaxParts

WriteTooLong ==
  /\ Sending
  /\ ~Fits
  /\ LineRefused
  /\ UNCHANGED <<deviceVars, runs, late>>

\* A write at offset 0 clears the buffer, even when it is then refused.
WriteFirst ==
  /\ Sending /\ sentParts = 0
  /\ Admitted
  /\ buf' = <<NewPart>>
  /\ HandOver
  /\ PartAcked
  /\ UNCHANGED <<cmd, runs, late>>

WriteRefused ==
  /\ Sending /\ sentParts = 0
  /\ ~Admitted
  /\ buf' = <<NewPart>>
  /\ LineRefused
  /\ UNCHANGED <<workBuf, busy, work, cmd, runs, late>>

\* A write at a later offset goes through whether or not a line is running.
WriteNext ==
  /\ Sending /\ sentParts > 0
  /\ Fits
  /\ buf' = Append(SubSeq(buf, 1, sentParts), NewPart)
  /\ HandOver
  /\ PartAcked
  /\ UNCHANGED <<cmd, runs, late>>

-----------------------------------------------------------------------------
(* ble_cmd_work on the system workqueue.                                   *)

\* The text the handler runs.
ReceiveBuffer == buf                       \* faulty: not the handed-over copy
TextToRun == workBuf

\* 35 ms without a further part.
DebounceEnds ==
  /\ work = "delayed"
  /\ work' = "queued"
  /\ UNCHANGED <<buf, workBuf, busy, cmd, clientVars, runs, late>>

\* wt_ble_cmd_work_handler up to wt_ble_command_execute.
StartCommand ==
  /\ cmd = <<>>
  /\ work = "queued"
  /\ work' = "idle"
  /\ cmd' = TextToRun
  /\ late' = (late \/ sentParts > 0)
  /\ UNCHANGED <<buf, workBuf, busy, clientVars, runs>>

\* wt_ble_command_execute returns, and the handler lets the next line in.
StaysBusy == busy' = busy                  \* faulty: forgotten on some path
ClearBusy == busy' = FALSE

FinishCommand ==
  /\ cmd # <<>>
  /\ runs' = Append(runs, cmd)
  /\ cmd' = <<>>
  /\ ClearBusy
  /\ UNCHANGED <<buf, workBuf, work, clientVars, late>>

Next == WriteFirst \/ WriteRefused \/ WriteNext \/ WriteTooLong
        \/ DebounceEnds \/ StartCommand \/ FinishCommand

Spec == Init /\ [][Next]_vars

\* The workqueue serves what is due and every command ends.
FairSpec == /\ Spec
            /\ WF_vars(DebounceEnds) /\ WF_vars(StartCommand) /\ WF_vars(FinishCommand)
-----------------------------------------------------------------------------
(* Properties.                                                             *)

Texts == Seq(Part)

\* Every variable keeps its type.
TypeOK ==
  /\ buf \in Texts /\ workBuf \in Texts /\ cmd \in Texts
  /\ busy \in BOOLEAN /\ late \in BOOLEAN
  /\ work \in {"idle", "delayed", "queued"}
  /\ line \in 1 .. Lines + 1 /\ sentParts \in Nat
  /\ outcome \in [1 .. Lines -> {"none", "acked", "refused"}]
  /\ runs \in Seq(Texts)

Beginning(l, n) == [p \in 1 .. n |-> [line |-> l, part |-> p]]
Whole(text, l) == text = Beginning(l, Parts[l])
TooLong(l) == Parts[l] > MaxParts

\* The lines that run are acknowledged lines, whole, each once and in the
\* order sent; a refused line never runs, though its text went through the
\* receive buffer - as long as the parts of a line follow one another within
\* the debounce.  The exception is a line that takes several writes and is too
\* long: it is refused, but as much of it as fits runs.
RunsWholeLinesInOrder ==
  ~late =>
    /\ \A i \in 1 .. Len(runs) :
         LET l == runs[i][1].line
         IN \/ Whole(runs[i], l) /\ outcome[l] = "acked"
            \/ TooLong(l) /\ runs[i] = Beginning(l, MaxParts)
    /\ \A i, j \in 1 .. Len(runs) :
         i < j => runs[i][1].line < runs[j][1].line

\* Whatever the timing, the dispatcher never runs a mixture of two lines, nor
\* a line without its beginning.
RunsNoMixture ==
  \A i \in 1 .. Len(runs) :
    \E l \in 1 .. Lines : \E n \in 1 .. Parts[l] : runs[i] = Beginning(l, n)

\* The busy flag never stays behind: while it is set the work is scheduled or
\* a line is running, so that a client can always get a next line in.
NeverWedged == busy => work # "idle" \/ cmd # <<>>

\* Every acknowledged line runs in the end, if none was taken to run too early.
AckedRuns ==
  \A l \in 1 .. Lines :
    outcome[l] = "acked" ~>
      late \/ \E i \in 1 .. Len(runs) : Whole(runs[i], l)
=============================================================================
