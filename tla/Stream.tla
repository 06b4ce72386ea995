------------------------------- MODULE Stream -------------------------------
(***************************************************************************)
(* Texts on their way to a client: short ones in one packet, long ones as  *)
(* ~S, ~C and ~E frames (wt_stream.c), over the BLE response and TX        *)
(* queues, whose frames are made in one buffer that all threads share      *)
(* (wt_ble.c:542-697), or over UDP; and the web console that puts them     *)
(* together again (index.html:866-1010).                                   *)
(*                                                                         *)
(* A queue is its promise in BleOutq: a frame is refused, or arrives once, *)
(* or is lost with its connection, and others may overtake it when a push  *)
(* into the full ring flushes it (wt_ble.c:449); over UDP the network does *)
(* the same.  As the console sees only the order of arrivals, a frame      *)
(* arrives when it is sent, is lost, or comes late.  Streams are shorter   *)
(* than the 1000 frames at which sequence numbers wrap, and a short text   *)
(* does not look like a frame.  What the console does with a response that *)
(* it has put together - it shows it, holds unfinished JSON back for the   *)
(* next one, drops a repetition within 500 ms (index.html:919-959) - is    *)
(* left out.                                                               *)
(***************************************************************************)
EXTENDS Naturals, Sequences

CONSTANTS
  Threads,        \* threads that send
  Ble, Udp,       \* channels: BLE queues and UDP sockets
  Responses,      \* the BLE channel of command responses
  Chunks,         \* numbers of chunks of a long text
  Ids,            \* largest stream id, 999 in the code
  None

Channels == Ble \cup Udp

ASSUME ChannelsAssumption == Responses \in Ble /\ Ble \cap Udp = {}
ASSUME ChunksAssumption == Chunks \subseteq Nat \ {0}
ASSUME BoundsAssumption == Ids \in Nat \ {0}
ASSUME NoneAssumption == None \notin Seq(Nat)

VARIABLES
  nextId,      \* per channel: ble_rsp_stream_next_id, ...
  buffer,      \* ble_cmd_rsp_buf: the packet in it
  job,         \* per thread: the text it sends, see NoJob
  late,        \* per channel: packets that others have overtaken
  streams,     \* the console: per channel and id, chunks received or None
  left,        \* bound: how many faults, and commands, may still come
  texts,       \* per text its channel, number of chunks (0: short), and if it
               \* is in ble_cmd_rsp_format_buf, written over by later ones
  assembled,   \* history: per channel, what the console has put together, and
               \* the text whose packet made it do so
  crossed,     \* history: texts in a buffer another thread wrote over, with
               \* the id of another open stream or of a packet still on its
               \* way, or whose stream has got a packet made for another
  reused,      \* history: texts whose id had left an open stream behind
  halved       \* history: texts a packet of which was refused, lost or late

\* text: its number; at: the next frame, 0 for ~S.
NoJob == [step |-> "idle", text |-> 0, id |-> 0, at |-> 0]

network == <<late, streams, assembled, halved>>
sending == <<nextId, buffer, job, network, texts, crossed, reused>>
streamVars == <<sending, left>>

StreamInit ==
  /\ nextId = [c \in Channels |-> 0]
  /\ buffer = None
  /\ job = [t \in Threads |-> NoJob]
  /\ late = [c \in Channels |-> {}]
  /\ streams = [c \in Channels |-> [id \in 1 .. Ids |-> None]]
  /\ texts = <<>>
  /\ assembled = [c \in Channels |-> {}]
  /\ crossed = {} /\ reused = {} /\ halved = {}

Spend(what) == left[what] > 0 /\ left' = [left EXCEPT ![what] = @ - 1]
Fault == Spend("faults")

ChannelOf(t) == texts[job[t].text].chan
LengthOf(t) == texts[job[t].text].length

Packet(kind, id, seq, text) ==
  [kind |-> kind, id |-> id, seq |-> seq, text |-> text]
Plain(n) == Packet("plain", 0, 0, n)

\* The frame that thread t is at; ~E carries the number of chunks.
Frame(t) ==
  LET j == job[t]
  IN  IF LengthOf(t) = 0 THEN Plain(j.text)
      ELSE IF j.at = 0 THEN Packet("S", j.id, 0, j.text)
      ELSE Packet(IF j.at <= LengthOf(t) THEN "C" ELSE "E",
                  j.id, j.at - 1, j.text)

\* A frame of another thread still waits in the shared buffer to be copied.
WaitsInBuffer(t) ==
  job[t].step = "emit" /\ ChannelOf(t) \in Ble
  /\ (LengthOf(t) > 0 \/ texts[job[t].text].formatted)

\* Words of its text are still to be copied from the format buffer.
Reads(t) ==
  /\ job[t].step # "idle" /\ texts[job[t].text].formatted
  /\ LengthOf(t) > 0 /\ job[t].at <= LengthOf(t)

Waiting(t) == {job[u].text : u \in {u \in Threads \ {t} : WaitsInBuffer(u)}}
Reading(t) == {job[u].text : u \in {u \in Threads \ {t} : Reads(u)}}

\* Text n meets other texts.
Cross(n, met) ==
  crossed' = IF met = {} THEN crossed ELSE crossed \cup met \cup {n}

\* A chunk of a formatted text has words of it, or of one formatted since.
Words(t) ==
  IF Frame(t).kind = "C" /\ texts[job[t].text].formatted
    THEN {n \in job[t].text .. Len(texts) : texts[n].formatted}
    ELSE {job[t].text}

-----------------------------------------------------------------------------
(* The console.                                                            *)

Received(c, id) == IF streams[c][id] = None THEN <<>> ELSE streams[c][id]

\* Chunk seq of a stream, as an array that grows: 0 is undefined.
Stored(chunks, seq, text) ==
  [k \in 1 .. (IF seq >= Len(chunks) THEN seq + 1 ELSE Len(chunks)) |->
     IF k = seq + 1 THEN text ELSE IF k <= Len(chunks) THEN chunks[k] ELSE 0]

AnyChunks(chunks, expected) == TRUE      \* faulty: missing chunks are ignored
Complete(chunks, expected) ==
  \A k \in 1 .. expected : k <= Len(chunks) /\ chunks[k] # 0

\* chunks.join, with the chunks at their places: nothing stands for none.
Joined(chunks) == [k \in {k \in DOMAIN chunks : chunks[k] # 0} |-> chunks[k]]

Assemble(c, chunks, p) ==
  LET text == [chunks |-> chunks, by |-> p.text]
  IN  assembled' = [assembled EXCEPT ![c] = @ \cup {text}]

Handle(c, p) ==
  \/ /\ p.kind = "plain"
     /\ Assemble(c, <<p.text>>, p)
     /\ UNCHANGED streams
  \/ /\ p.kind = "S"
     /\ streams' = [streams EXCEPT ![c][p.id] = <<>>]
     /\ UNCHANGED assembled
  \/ /\ p.kind = "C"
     /\ streams' = [streams EXCEPT ![c][p.id] =
                      Stored(Received(c, p.id), p.seq, p.text)]
     /\ UNCHANGED assembled
  \/ /\ p.kind = "E"
     /\ streams' = [streams EXCEPT ![c][p.id] = None]
     /\ IF streams[c][p.id] # None /\ Complete(streams[c][p.id], p.seq)
          THEN Assemble(c, Joined(streams[c][p.id]), p)
          ELSE UNCHANGED assembled

-----------------------------------------------------------------------------
(* Sending.                                                                *)

\* wt_ble_rsp_send, wt_ble_transmit_payload or a UDP answer begins a text.  A
\* response is formatted, and written to the shared buffer whole; a scan's, the
\* TX payloads and UDP answers come from a buffer of their own.  Who asks for
\* it, and what is left, is for the module that uses this one to say.
Begin(t, c, length, formatted) ==
  LET n == Len(texts) + 1
  IN  /\ job[t].step = "idle"
      /\ texts' = Append(texts, [chan |-> c, length |-> length,
                                  formatted |-> formatted])
      /\ job' = [job EXCEPT ![t] =
                   [NoJob EXCEPT
                      !.text = n,
                      !.step = IF length = 0 THEN "emit" ELSE "bump"]]
      /\ IF formatted
           THEN buffer' = Plain(n) /\ Cross(n, Waiting(t) \cup Reading(t))
           ELSE UNCHANGED <<buffer, crossed>>
      /\ UNCHANGED <<nextId, network, reused>>

\* wt_stream_next_id, which takes no lock.
Bump(t) ==
  /\ job[t].step = "bump"
  /\ nextId' = [nextId EXCEPT ![ChannelOf(t)] = @ + 1]
  /\ job' = [job EXCEPT ![t].step = "draw"]
  /\ UNCHANGED <<buffer, network, left, texts, crossed, reused>>

WrapsLate(id) == IF id > Ids + 1 THEN 1 ELSE id  \* faulty: an id too large
Wrapped(id) == IF id > Ids THEN 1 ELSE id

Open(c, id) ==
  {job[t].text : t \in {t \in Threads : /\ job[t].step \in {"format", "emit"}
                                        /\ ChannelOf(t) = c /\ job[t].id = id}}

\* A packet with this id is still on its way.
Overtaken(c, id) == \E p \in late[c] : p.id = id

\* The next frame is made in the shared buffer; over UDP a sender has its own.
Making(c) == IF c \in Ble THEN "format" ELSE "emit"

\* wt_stream_begin refuses an id it cannot print in three digits.
Draw(t) ==
  LET c == ChannelOf(t)
      n == job[t].text
      id == Wrapped(nextId[c])
  IN  /\ job[t].step = "draw"
      /\ nextId' = [nextId EXCEPT ![c] = id]
      /\ IF id \in 1 .. Ids
           THEN /\ job' = [job EXCEPT ![t].step = Making(c), ![t].id = id]
                /\ crossed' = IF Open(c, id) = {} /\ ~Overtaken(c, id)
                                THEN crossed
                                ELSE crossed \cup Open(c, id) \cup {n}
                /\ reused' = IF streams[c][id] = None THEN reused
                             ELSE reused \cup {n}
           ELSE /\ job' = [job EXCEPT ![t] = NoJob]
                /\ UNCHANGED <<crossed, reused>>
      /\ UNCHANGED <<buffer, network, left, texts>>

Format(t) ==
  /\ job[t].step = "format"
  /\ job' = [job EXCEPT ![t].step = "emit"]
  /\ \E n \in Words(t) : buffer' = [Frame(t) EXCEPT !.text = n]
  /\ Cross(job[t].text, Waiting(t))
  /\ UNCHANGED <<nextId, network, left, texts, reused>>

Finished(t) == job[t].at = LengthOf(t) + 1 \/ LengthOf(t) = 0

\* wt_ble_outq_push or zsock_sendto takes what the buffer holds by then.
Sent(t) == IF WaitsInBuffer(t) THEN buffer ELSE Frame(t)

EmitThen(t) ==
  /\ job[t].step = "emit"
  /\ job' = [job EXCEPT ![t] =
               IF Finished(t)
                 THEN NoJob
                 ELSE [job[t] EXCEPT !.step = Making(ChannelOf(t)),
                                     !.at = job[t].at + 1]]
  /\ UNCHANGED <<nextId, buffer, texts, reused>>

Halve(t) == Fault /\ halved' = halved \cup {job[t].text, Sent(t).text}

\* The streams that a frame made for another text gets into.
Meets(t) == IF Sent(t) = Frame(t) \/ Sent(t).kind = "plain" THEN {}
            ELSE Open(ChannelOf(t), Sent(t).id)

Emit(t) ==
  /\ EmitThen(t)
  /\ Handle(ChannelOf(t), Sent(t))
  /\ crossed' = crossed \cup Meets(t)
  /\ UNCHANGED <<late, halved, left>>

\* ble_disconnected empties the queue, and the sender may go on in the next
\* connection; or the network loses the packet.
EmitLost(t) ==
  EmitThen(t) /\ Halve(t) /\ UNCHANGED <<late, streams, assembled, crossed>>

\* Packets sent later overtake it.
EmitLate(t) ==
  /\ EmitThen(t) /\ Halve(t)
  /\ late' = [late EXCEPT ![ChannelOf(t)] = @ \cup {Sent(t)}]
  /\ crossed' = crossed \cup Meets(t)
  /\ UNCHANGED <<streams, assembled>>

Arrive(c, p) ==
  /\ late' = [late EXCEPT ![c] = @ \ {p}]
  /\ Handle(c, p)
  /\ UNCHANGED <<nextId, buffer, job, texts, crossed, reused, halved, left>>

\* A refused frame ends the stream; no ~E follows.
EmitRefused(t) ==
  /\ job[t].step = "emit" /\ Halve(t)
  /\ job' = [job EXCEPT ![t] = NoJob]
  /\ UNCHANGED <<nextId, buffer, texts, crossed, reused>>
  /\ UNCHANGED <<late, streams, assembled>>

Sends(t) ==
  \/ Bump(t) \/ Draw(t) \/ Format(t)
  \/ Emit(t) \/ EmitLost(t) \/ EmitLate(t) \/ EmitRefused(t)

-----------------------------------------------------------------------------
(* Properties.                                                             *)

\* What text n is when all of it, and nothing else, arrives.
Whole(n) ==
  [k \in 1 .. (IF texts[n].length = 0 THEN 1 ELSE texts[n].length) |-> n]

\* Texts the promise leaves out: threads met in a buffer or in an id, or an id
\* came round again while a packet of its last use was on its way, or what that
\* had left behind was not cleared because the ~S or another packet was lost.
Spoiled == crossed \cup (reused \cap halved)

\* What the console puts together is one text of that channel, whole, however
\* streams are cut, lost or interleaved - unless a text that is part of it, or
\* whose packet ended it, is spoiled (wt_stream.c:71, wt_ble.c:624,
\* index.html:866).
WholeOrNothing ==
  \A c \in Channels : \A d \in assembled[c] :
    \/ texts[d.by].chan = c /\ d.chunks = Whole(d.by)
    \/ d.by \in Spoiled
    \/ \E k \in DOMAIN d.chunks : d.chunks[k] \in Spoiled

\* A text that met no refusal, loss or other thread, and no packet of which was
\* overtaken, is put together once its packets have arrived: no id or frame
\* count, and nothing that an earlier stream left behind, makes the device or
\* the console drop it (wt_stream.c:10, 145, index.html:889).
SentIsAssembled ==
  \A n \in 1 .. Len(texts) :
    LET c == texts[n].chan
    IN  \/ n \in crossed \cup halved
        \/ \E t \in Threads : job[t].step # "idle" /\ job[t].text = n
        \/ [chunks |-> Whole(n), by |-> n] \in assembled[c]
=============================================================================
