---------------------------- MODULE StreamProofs ----------------------------
(***************************************************************************)
(* Theorems about Stream as the threads of UdpCommand use it, for any      *)
(* threads, channels, lengths of texts and ids, and any budgets: what the  *)
(* console puts together is one text, whole, and what was sent without a   *)
(* fault or another thread in the way is assembled.                        *)
(***************************************************************************)
EXTENDS UdpCommand, TLAPS

-----------------------------------------------------------------------------
(* Types.                                                                  *)

Kinds == {"plain", "S", "C", "E"}
Packets == [kind : Kinds, id : 0 .. Ids, seq : Nat, text : Nat]
Jobs == [step : {"idle", "bump", "draw", "format", "emit"}, text : Nat,
         id : 0 .. Ids, at : Nat]

Texts == [chan : Channels, length : Lengths, formatted : BOOLEAN]

NetworkTypes ==
  /\ late \in [Channels -> SUBSET Packets]
  /\ streams \in [Channels -> [1 .. Ids -> Seq(Nat) \cup {None}]]
  /\ DOMAIN assembled = Channels
SenderTypes ==
  /\ nextId \in [Channels -> Nat]
  /\ buffer \in Packets \cup {None}
  /\ job \in [Threads -> Jobs]
  /\ texts \in Seq(Texts)

\* Where each thread is in the text it sends.
Busy(t) == job[t].step # "idle"
InFrames(t) == job[t].step \in {"format", "emit"}
Long(t) == LengthOf(t) > 0

JobFits(t) ==
  Busy(t) =>
    /\ job[t].text \in 1 .. Len(texts)
    /\ job[t].step = "draw" => nextId[ChannelOf(t)] >= 1
    /\ job[t].step \in {"bump", "draw", "format"} => Long(t)
    /\ job[t].step \in {"bump", "draw"} => job[t].at = 0
    /\ job[t].step = "format" => ChannelOf(t) \in Ble
    /\ ~Long(t) => job[t].id = 0 /\ job[t].at = 0
    /\ Long(t) /\ InFrames(t) => job[t].id >= 1 /\ job[t].at <= LengthOf(t) + 1

JobsFit == \A t \in Threads : JobFits(t)

\* A packet as some frame of its text makes it, or of a text that met it.
Made(p) ==
  /\ p \in Packets /\ p.text \in 1 .. Len(texts)
  /\ p.kind # "plain" => p.id >= 1
  /\ p.text \notin crossed =>
       /\ p.kind # "plain" => texts[p.text].length > 0
       /\ p.kind = "C" => p.seq < texts[p.text].length
       /\ p.kind = "E" => p.seq = texts[p.text].length

\* A late packet is its text's own, or that text has met another.
LateFits(c, p) ==
  texts[p.text].chan = c /\ (p.kind = "plain" => texts[p.text].length = 0)
LatePackets ==
  \A c \in Channels : \A p \in late[c] :
    /\ Made(p) /\ p.text \in halved
    /\ p.text \notin crossed => LateFits(c, p)

\* The frame in the buffer is the one its sender made there, and the words still
\* to be copied from the format buffer are its reader's, or both texts met.
BufferHolds ==
  \A t \in Threads :
    WaitsInBuffer(t) =>
      \/ buffer = Frame(t)
      \/ job[t].text \in crossed /\ Made(buffer) /\ buffer.text \in crossed
WordsHold ==
  \A t \in Threads :
    Reads(t) => \A n \in job[t].text .. Len(texts) :
      texts[n].formatted =>
        n = job[t].text \/ (job[t].text \in crossed /\ n \in crossed)

-----------------------------------------------------------------------------
(* Ids.                                                                    *)

\* Thread t is inside a stream with this id.
Inside(t, c, id) == InFrames(t) /\ Long(t) /\ ChannelOf(t) = c /\ job[t].id = id

\* Two texts that use an id at the same time are spoiled, at least one of them.
IdsApart ==
  /\ \A t, u \in Threads : \A c \in Channels : \A id \in 1 .. Ids :
       Inside(t, c, id) /\ Inside(u, c, id) /\ t # u => job[t].text \in crossed
  /\ \A t \in Threads : \A c \in Channels : \A p \in late[c] :
       p.kind # "plain" /\ Inside(t, c, p.id) =>
         p.text = job[t].text \/ job[t].text \in crossed
  /\ \A c \in Channels : \A p, q \in late[c] :
       p.kind # "plain" /\ q.kind # "plain" /\ p.id = q.id =>
         p.text = q.text \/ p.text \in crossed \/ q.text \in crossed

\* What the console holds of a stream whose text n is not spoiled.
Clean(c, id, n) ==
  streams[c][id] # None =>
    \A k \in DOMAIN streams[c][id] :
      LET m == streams[c][id][k]
      IN  m = 0 \/ m \in Spoiled \/ (m = n /\ k <= texts[n].length)

\* A sender whose stream holds no chunk of another text: its ~S has cleared
\* what was left behind, or there was nothing.
Alone(t) ==
  job[t].text \notin Spoiled /\ (job[t].at = 0 => job[t].text \notin reused)

StreamsClean ==
  /\ \A t \in Threads : \A c \in Channels : \A id \in 1 .. Ids :
       Inside(t, c, id) /\ Alone(t) => Clean(c, id, job[t].text)
  /\ \A c \in Channels : \A p \in late[c] :
       p.kind # "plain" /\ p.text \notin Spoiled => Clean(c, p.id, p.text)

\* What it holds of a text that has met nothing.
Unhurt(n) == n \notin crossed \cup halved

StreamsExact ==
  \A t \in Threads : \A c \in Channels : \A id \in 1 .. Ids :
    Inside(t, c, id) /\ job[t].at >= 1 /\ Unhurt(job[t].text) =>
      streams[c][id] = [k \in 1 .. job[t].at - 1 |-> job[t].text]

AssembledFits ==
  \A c \in Channels : \A d \in assembled[c] :
    d.by \in 1 .. Len(texts)

StreamInv ==
  /\ NetworkTypes /\ SenderTypes /\ JobsFit /\ LatePackets
  /\ BufferHolds /\ WordsHold /\ IdsApart /\ StreamsClean /\ StreamsExact
  /\ AssembledFits /\ WholeOrNothing /\ SentIsAssembled

-----------------------------------------------------------------------------
(* What the steps have in common.                                          *)

\* Texts only come to the list, and a text once spoiled stays it.
TextsKept ==
  /\ Len(texts) \in Nat /\ Len(texts') \in Nat
  /\ \A n \in 1 .. Len(texts) : n \in 1 .. Len(texts') /\ texts'[n] = texts[n]
Grows == crossed \subseteq crossed' /\ reused \subseteq reused' /\ halved \subseteq halved'

LEMMA SpoiledGrows ==
  ASSUME Grows
  PROVE  Spoiled \subseteq Spoiled'
BY DEF Grows, Spoiled

LEMMA TextRead ==
  ASSUME SenderTypes, NEW n \in 1 .. Len(texts)
  PROVE  /\ texts[n].chan \in Channels /\ texts[n].length \in Lengths
         /\ texts[n].length \in Nat
<1>1. texts \in Seq(Texts)
  BY DEF SenderTypes
<1>2. texts[n] \in Texts
  BY <1>1
<1>3. Lengths \subseteq Nat
  BY ChunksAssumption DEF Lengths
<1> QED
  BY <1>2, <1>3 DEF Texts

LEMMA TextAdded ==
  ASSUME SenderTypes, NEW c \in Channels, NEW l \in Lengths, NEW f \in BOOLEAN,
         texts' = Append(texts, [chan |-> c, length |-> l, formatted |-> f])
  PROVE  /\ texts' \in Seq(Texts)
         /\ TextsKept
         /\ Len(texts') = Len(texts) + 1
         /\ texts'[Len(texts) + 1] = [chan |-> c, length |-> l, formatted |-> f]
<1>1. texts \in Seq(Texts)
  BY DEF SenderTypes
<1>2. [chan |-> c, length |-> l, formatted |-> f] \in Texts
  BY DEF Texts
<1> QED
  BY <1>1, <1>2 DEF TextsKept

LEMMA TextsSame ==
  ASSUME SenderTypes, UNCHANGED texts
  PROVE  TextsKept
<1>1. texts \in Seq(Texts)
  BY DEF SenderTypes
<1>2. Len(texts) \in Nat
  BY <1>1
<1> QED
  BY <1>2 DEF TextsKept

\* A thread that a step does not move sees what it saw.
Same(t) ==
  /\ job'[t] = job[t]
  /\ Busy(t)' = Busy(t) /\ InFrames(t)' = InFrames(t)
  /\ Busy(t) => /\ ChannelOf(t)' = ChannelOf(t) /\ LengthOf(t)' = LengthOf(t)
                /\ Frame(t)' = Frame(t)
  /\ WaitsInBuffer(t)' = WaitsInBuffer(t) /\ Reads(t)' = Reads(t)
  /\ \A c, id : Inside(t, c, id)' = Inside(t, c, id)

LEMMA Unmoved ==
  ASSUME NEW t, TextsKept, job'[t] = job[t], Busy(t) => job[t].text \in 1 .. Len(texts)
  PROVE  Same(t)
<1>1. Busy(t)' = Busy(t) /\ InFrames(t)' = InFrames(t)
  BY DEF Busy, InFrames
<1>2. InFrames(t) => Busy(t)
  BY DEF Busy, InFrames
<1>3. ASSUME Busy(t)
      PROVE  /\ ChannelOf(t)' = ChannelOf(t) /\ LengthOf(t)' = LengthOf(t)
             /\ Frame(t)' = Frame(t)
  BY <1>3 DEF TextsKept, ChannelOf, LengthOf, Frame
<1>4. WaitsInBuffer(t)' = WaitsInBuffer(t) /\ Reads(t)' = Reads(t)
  <2>1. CASE Busy(t)
    <3>1. texts'[job'[t].text] = texts[job[t].text]
      BY <2>1 DEF TextsKept
    <3> QED
      BY <1>3, <2>1, <3>1 DEF WaitsInBuffer, Reads, Busy
  <2>2. CASE ~Busy(t)
    BY <2>2 DEF WaitsInBuffer, Reads, Busy
  <2> QED
    BY <2>1, <2>2
<1>5. ASSUME NEW c, NEW id PROVE Inside(t, c, id)' = Inside(t, c, id)
  BY <1>1, <1>2, <1>3 DEF Inside, Long
<1> QED
  BY <1>1, <1>3, <1>4, <1>5 DEF Same

\* The frame a thread is at.
LEMMA FrameFits ==
  ASSUME SenderTypes, NEW t \in Threads, JobFits(t), InFrames(t),
         NEW p, p = Frame(t)
  PROVE  /\ Made(p) /\ p.text = job[t].text
         /\ ~Long(t) => p.kind = "plain"
         /\ Long(t) => p.kind # "plain" /\ p.id = job[t].id
         /\ Long(t) /\ job[t].at = 0 => p.kind = "S"
         /\ Long(t) /\ job[t].at \in 1 .. LengthOf(t) =>
              p.kind = "C" /\ p.seq = job[t].at - 1
         /\ Long(t) /\ job[t].at = LengthOf(t) + 1 =>
              p.kind = "E" /\ p.seq = LengthOf(t)
<1>1. /\ job[t] \in Jobs /\ job[t].text \in 1 .. Len(texts)
      /\ Long(t) => job[t].id >= 1 /\ job[t].at <= LengthOf(t) + 1
  BY DEF SenderTypes, JobFits, InFrames, Busy
<1>2. LengthOf(t) \in Nat /\ LengthOf(t) = texts[job[t].text].length
  BY <1>1, TextRead DEF LengthOf
<1>3. job[t].id \in 0 .. Ids /\ job[t].at \in Nat /\ job[t].text \in Nat
  BY <1>1 DEF Jobs
<1>4. CASE ~Long(t)
  <2>1. p = [kind |-> "plain", id |-> 0, seq |-> 0, text |-> job[t].text]
    BY <1>2, <1>4 DEF Long, Frame, Plain, Packet
  <2> QED
    BY <1>1, <1>3, <1>4, <2>1, BoundsAssumption DEF Made, Packets, Kinds, Long
<1>5. CASE Long(t) /\ job[t].at = 0
  <2>1. p = [kind |-> "S", id |-> job[t].id, seq |-> 0, text |-> job[t].text]
    BY <1>2, <1>5 DEF Long, Frame, Packet
  <2> QED
    BY <1>1, <1>2, <1>3, <1>5, <2>1 DEF Made, Packets, Kinds, Long
<1>6. CASE Long(t) /\ job[t].at \in 1 .. LengthOf(t)
  <2>1. p = [kind |-> "C", id |-> job[t].id, seq |-> job[t].at - 1, text |-> job[t].text]
    BY <1>2, <1>6 DEF Long, Frame, Packet
  <2> QED
    BY <1>1, <1>2, <1>3, <1>6, <2>1 DEF Made, Packets, Kinds, Long
<1>7. CASE Long(t) /\ job[t].at = LengthOf(t) + 1
  <2>1. p = [kind |-> "E", id |-> job[t].id, seq |-> job[t].at - 1, text |-> job[t].text]
    BY <1>2, <1>7 DEF Long, Frame, Packet
  <2> QED
    BY <1>1, <1>2, <1>3, <1>7, <2>1 DEF Made, Packets, Kinds, Long
<1> QED
  BY <1>1, <1>2, <1>3, <1>4, <1>5, <1>6, <1>7

\* What a thread gives to the queue is its own frame, or both are spoiled.
LEMMA SentFits ==
  ASSUME SenderTypes, BufferHolds, NEW t \in Threads, JobFits(t), job[t].step = "emit",
         NEW p, p = Sent(t)
  PROVE  \/ p = Frame(t)
         \/ job[t].text \in crossed /\ p.text \in crossed /\ Made(p)
BY DEF BufferHolds, Sent

-----------------------------------------------------------------------------
(* What the console does with a packet.                                    *)

LEMMA StoredFits ==
  ASSUME NEW chunks \in Seq(Nat), NEW seq \in Nat, NEW text \in Nat
  PROVE  LET s == Stored(chunks, seq, text)
         IN  /\ s \in Seq(Nat)
             /\ seq + 1 \in DOMAIN s /\ s[seq + 1] = text
             /\ \A k \in DOMAIN s :
                  \/ k = seq + 1 \/ s[k] = 0
                  \/ k \in DOMAIN chunks /\ s[k] = chunks[k]
<1> DEFINE s == Stored(chunks, seq, text)
           m == IF seq >= Len(chunks) THEN seq + 1 ELSE Len(chunks)
<1>1. Len(chunks) \in Nat /\ DOMAIN chunks = 1 .. Len(chunks)
      /\ \A k \in 1 .. Len(chunks) : chunks[k] \in Nat
  OBVIOUS
<1>2. m \in Nat /\ seq + 1 \in 1 .. m
  BY <1>1
<1>3. s = [k \in 1 .. m |-> IF k = seq + 1 THEN text
                            ELSE IF k <= Len(chunks) THEN chunks[k] ELSE 0]
  BY DEF Stored
<1> HIDE DEF m, s
<1>4. s \in [1 .. m -> Nat]
  BY <1>1, <1>2, <1>3
<1>5. s \in Seq(Nat)
  BY <1>2, <1>4
<1>6. \A k \in 1 .. m : \/ k = seq + 1 \/ s[k] = 0
                        \/ k \in DOMAIN chunks /\ s[k] = chunks[k]
  BY <1>1, <1>2, <1>3
<1>7. seq + 1 \in DOMAIN s /\ s[seq + 1] = text /\ DOMAIN s = 1 .. m
  BY <1>2, <1>3
<1> QED
  BY <1>5, <1>6, <1>7 DEF s

LEMMA ReceivedFits ==
  ASSUME NetworkTypes, NEW c \in Channels, NEW id \in 1 .. Ids
  PROVE  /\ Received(c, id) \in Seq(Nat)
         /\ streams[c][id] # None => Received(c, id) = streams[c][id]
         /\ streams[c][id] = None => Received(c, id) = <<>>
<1>1. streams \in [Channels -> [1 .. Ids -> Seq(Nat) \cup {None}]]
  BY DEF NetworkTypes
<1>2. streams[c][id] \in Seq(Nat) \cup {None}
  BY <1>1
<1>3. <<>> \in Seq(Nat)
  OBVIOUS
<1> QED
  BY <1>2, <1>3 DEF Received

\* A packet as it comes to the console.
Comes(c, p) ==
  c \in Channels /\ p \in Packets /\ Handle(c, p) /\ (p.kind # "plain" => p.id >= 1)

LEMMA ComesFits ==
  ASSUME NetworkTypes, NEW c, NEW p, Comes(c, p)
  PROVE  /\ p.kind \in Kinds /\ p.text \in Nat /\ p.seq \in Nat
         /\ p.kind # "plain" => p.id \in 1 .. Ids
BY BoundsAssumption DEF Comes, Packets

LEMMA ComesTyped ==
  ASSUME NetworkTypes, NEW c, NEW p, Comes(c, p)
  PROVE  /\ streams' \in [Channels -> [1 .. Ids -> Seq(Nat) \cup {None}]]
         /\ DOMAIN assembled' = Channels
<1>1. /\ p.kind \in Kinds /\ p.text \in Nat /\ p.seq \in Nat
      /\ p.kind # "plain" => p.id \in 1 .. Ids
  BY ComesFits
<1>2. /\ streams \in [Channels -> [1 .. Ids -> Seq(Nat) \cup {None}]]
      /\ DOMAIN assembled = Channels /\ c \in Channels
  BY DEF NetworkTypes, Comes
<1>3. DOMAIN assembled' = Channels
  BY <1>2 DEF Comes, Handle, Assemble
<1>4. CASE UNCHANGED streams
  BY <1>2, <1>3, <1>4
<1>5. ASSUME NEW s \in Seq(Nat) \cup {None}, p.kind # "plain",
             streams' = [streams EXCEPT ![c][p.id] = s]
      PROVE  streams' \in [Channels -> [1 .. Ids -> Seq(Nat) \cup {None}]]
  <2> DEFINE S == Seq(Nat) \cup {None}
  <2>1. s \in S /\ p.id \in 1 .. Ids /\ c \in Channels
        /\ streams \in [Channels -> [1 .. Ids -> S]]
    BY <1>1, <1>2, <1>5
  <2> HIDE DEF S
  <2>2. streams' \in [Channels -> [1 .. Ids -> S]]
    BY <1>5, <2>1
  <2> QED
    BY <2>2 DEF S
<1>6. CASE p.kind = "S"
  <2>1. <<>> \in Seq(Nat) \cup {None}
    OBVIOUS
  <2>2. streams' = [streams EXCEPT ![c][p.id] = <<>>]
    BY <1>6 DEF Comes, Handle
  <2> QED
    BY <1>3, <1>5, <1>6, <2>1, <2>2
<1>7. CASE p.kind = "C"
  <2>1. Stored(Received(c, p.id), p.seq, p.text) \in Seq(Nat)
    BY <1>1, <1>2, <1>7, ReceivedFits, StoredFits
  <2> QED
    BY <1>3, <1>5, <1>7, <2>1 DEF Comes, Handle
<1>8. CASE p.kind = "E"
  BY <1>3, <1>5, <1>8 DEF Comes, Handle
<1> QED
  BY <1>1, <1>3, <1>4, <1>6, <1>7, <1>8 DEF Comes, Handle, Kinds

\* It touches one stream at most, and that only with a chunk.
LEMMA OtherStreams ==
  ASSUME NetworkTypes, NEW c, NEW p, Comes(c, p),
         NEW d \in Channels, NEW id \in 1 .. Ids,
         ~(p.kind # "plain" /\ d = c /\ id = p.id)
  PROVE  streams'[d][id] = streams[d][id]
<1>1. /\ p.kind # "plain" => p.id \in 1 .. Ids
      /\ streams \in [Channels -> [1 .. Ids -> Seq(Nat) \cup {None}]] /\ c \in Channels
  BY ComesFits DEF NetworkTypes, Comes
<1>2. \/ UNCHANGED streams
      \/ p.kind # "plain" /\ \E s : streams' = [streams EXCEPT ![c][p.id] = s]
  BY DEF Comes, Handle
<1> QED
  BY <1>1, <1>2

LEMMA ThatStream ==
  ASSUME NetworkTypes, NEW c, NEW p, Comes(c, p), p.kind # "plain"
  PROVE  /\ p.kind = "S" => streams'[c][p.id] = <<>>
         /\ p.kind = "C" => streams'[c][p.id] = Stored(Received(c, p.id), p.seq, p.text)
         /\ p.kind = "E" => streams'[c][p.id] = None
<1>1. /\ p.id \in 1 .. Ids
      /\ streams \in [Channels -> [1 .. Ids -> Seq(Nat) \cup {None}]] /\ c \in Channels
  BY ComesFits DEF NetworkTypes, Comes
<1>2. Handle(c, p)
  BY DEF Comes
<1>3. ASSUME NEW s, streams' = [streams EXCEPT ![c][p.id] = s]
      PROVE  streams'[c][p.id] = s
  BY <1>1, <1>3
<1>4. p.kind = "S" => streams' = [streams EXCEPT ![c][p.id] = <<>>]
  BY <1>2 DEF Handle
<1>5. p.kind = "C" => streams' = [streams EXCEPT ![c][p.id] =
                                    Stored(Received(c, p.id), p.seq, p.text)]
  BY <1>2 DEF Handle
<1>6. p.kind = "E" => streams' = [streams EXCEPT ![c][p.id] = None]
  BY <1>2 DEF Handle
<1> QED
  BY <1>3, <1>4, <1>5, <1>6

\* A packet of the text itself, or of a spoiled one, keeps its stream clean;
\* its ~S cleans it.
LEMMA CleanKept ==
  ASSUME NetworkTypes, SenderTypes, NEW c, NEW p, Comes(c, p), Grows, UNCHANGED texts,
         NEW d \in Channels, NEW id \in 1 .. Ids, NEW n,
         Made(p),
         p.kind = "C" /\ d = c /\ id = p.id => p.text \in Spoiled' \/ p.text = n,
         Clean(d, id, n) \/ (p.kind = "S" /\ d = c /\ id = p.id)
  PROVE  Clean(d, id, n)'
<1>0. Spoiled \subseteq Spoiled'
  BY SpoiledGrows
<1>1. CASE p.kind # "plain" /\ d = c /\ id = p.id
  <2>1. CASE p.kind = "S" \/ p.kind = "E"
    BY <1>1, <2>1, ThatStream DEF Clean
  <2>2. CASE p.kind = "C"
    <3> DEFINE s == Stored(Received(c, p.id), p.seq, p.text)
    <3>1. /\ p.text \in Nat /\ p.seq \in Nat /\ streams'[d][id] = s
          /\ p.text \in crossed \/ p.seq < texts[p.text].length
      BY <1>1, <2>2, ComesFits, ThatStream DEF Made
    <3>a. c \in Channels /\ p.id \in 1 .. Ids
      BY <1>1, ComesFits DEF Comes
    <3>b. Received(c, p.id) \in Seq(Nat)
      BY <3>a, ReceivedFits
    <3>c. /\ s[p.seq + 1] = p.text
          /\ \A k \in DOMAIN s :
               \/ k = p.seq + 1 \/ s[k] = 0
               \/ k \in DOMAIN Received(c, p.id) /\ s[k] = Received(c, p.id)[k]
      BY <3>1, <3>b, StoredFits
    <3>d. /\ streams[c][p.id] # None => Received(c, p.id) = streams[c][p.id]
          /\ streams[c][p.id] = None => DOMAIN Received(c, p.id) = {}
      BY <3>a, ReceivedFits
    <3>2. \A k \in DOMAIN s :
            \/ k = p.seq + 1 \/ s[k] = 0
            \/ streams[d][id] # None /\ k \in DOMAIN streams[d][id]
               /\ s[k] = streams[d][id][k]
      BY <1>1, <3>c, <3>d
    <3>3. s[p.seq + 1] = p.text
      BY <3>c
    <3> HIDE DEF s
    <3>4. \A k \in DOMAIN s :
            \/ s[k] = 0 \/ s[k] \in Spoiled'
            \/ s[k] = n /\ k <= texts[n].length
      <4> SUFFICES ASSUME NEW k \in DOMAIN s
                   PROVE  \/ s[k] = 0 \/ s[k] \in Spoiled'
                          \/ s[k] = n /\ k <= texts[n].length
        OBVIOUS
      <4>a. CASE k = p.seq + 1 /\ p.text \in crossed
        BY <1>0, <3>3, <4>a DEF Spoiled
      <4>1. CASE k = p.seq + 1 /\ p.text \notin crossed
        <5>1. s[k] \in Spoiled' \/ s[k] = n
          BY <1>1, <2>2, <3>3, <4>1
        <5>2. ASSUME s[k] = n PROVE k <= texts[n].length
          <6>1. n = p.text
            BY <3>3, <4>1, <5>2
          <6>2. texts[n].length \in Nat
            BY <6>1, TextRead DEF Made
          <6> QED
            BY <3>1, <4>1, <6>1, <6>2
        <5> QED
          BY <5>1, <5>2
      <4>2. CASE k # p.seq + 1
        BY <1>0, <2>2, <3>2, <4>2 DEF Clean
      <4> QED
        BY <4>a, <4>1, <4>2
    <3> QED
      BY <3>1, <3>4 DEF Clean
  <2> QED
    BY <1>1, <2>1, <2>2, ComesFits DEF Kinds
<1>2. CASE ~(p.kind # "plain" /\ d = c /\ id = p.id)
  <2>1. streams'[d][id] = streams[d][id]
    BY <1>2, OtherStreams
  <2> QED
    BY <1>0, <1>2, <2>1 DEF Clean
<1> QED
  BY <1>1, <1>2

-----------------------------------------------------------------------------
(* The threads' jobs.                                                      *)

\* A job, field by field.
Is(j, step, text, id, at) ==
  j \in Jobs /\ j.step = step /\ j.text = text /\ j.id = id /\ j.at = at

LEMMA JobsWritten ==
  ASSUME NEW j \in Jobs, NEW s \in {"idle", "bump", "draw", "format", "emit"},
         NEW n \in Nat, NEW id \in 0 .. Ids, NEW k \in Nat
  PROVE  /\ Is([NoJob EXCEPT !.text = n, !.step = s], s, n, 0, 0)
         /\ Is([j EXCEPT !.step = s], s, j.text, j.id, j.at)
         /\ Is([j EXCEPT !.step = s, !.id = id], s, j.text, id, j.at)
         /\ Is([j EXCEPT !.step = s, !.at = k], s, j.text, j.id, k)
<1>1. NoJob \in Jobs /\ NoJob.id = 0 /\ NoJob.at = 0
  BY BoundsAssumption DEF NoJob, Jobs
<1>2. Is([NoJob EXCEPT !.text = n, !.step = s], s, n, 0, 0)
  BY <1>1 DEF Is, Jobs
<1>3. Is([j EXCEPT !.step = s], s, j.text, j.id, j.at)
  BY DEF Is, Jobs
<1>4. Is([j EXCEPT !.step = s, !.id = id], s, j.text, id, j.at)
  BY DEF Is, Jobs
<1>5. Is([j EXCEPT !.step = s, !.at = k], s, j.text, j.id, k)
  BY DEF Is, Jobs
<1> QED
  BY <1>2, <1>3, <1>4, <1>5

LEMMA JobsKept ==
  ASSUME SenderTypes, JobsFit, TextsKept, NEW t \in Threads, NEW j,
         job' = [job EXCEPT ![t] = j],
         \A c \in Channels : nextId[c] >= 1 => nextId'[c] >= 1,
         JobFits(t)'
  PROVE  JobsFit' /\ \A u \in Threads \ {t} : Same(u)
<1>1. ASSUME NEW u \in Threads \ {t} PROVE Same(u) /\ JobFits(u)'
  <2>1. job'[u] = job[u]
    BY DEF SenderTypes
  <2>2. JobFits(u) /\ (Busy(u) => job[u].text \in 1 .. Len(texts))
    BY DEF JobsFit, JobFits
  <2>3. Same(u)
    BY <2>1, <2>2, Unmoved
  <2>4. Busy(u) => ChannelOf(u) \in Channels
    BY <2>2, TextRead DEF ChannelOf
  <2>5. Busy(u)' = Busy(u) /\ InFrames(u)' = InFrames(u)
    BY <2>3 DEF Same
  <2>6. Busy(u) => ChannelOf(u)' = ChannelOf(u) /\ LengthOf(u)' = LengthOf(u)
                   /\ (Long(u)' <=> Long(u))
    BY <2>3 DEF Same, Long
  <2>7. Busy(u) => job[u].text \in 1 .. Len(texts')
    BY <2>2 DEF TextsKept
  <2>8. ASSUME Busy(u), job[u].step = "draw" PROVE nextId'[ChannelOf(u)] >= 1
    BY <2>2, <2>4, <2>8 DEF JobFits
  <2>9. JobFits(u)'
    <3> SUFFICES ASSUME Busy(u)
                 PROVE  /\ job'[u].text \in 1 .. Len(texts')
                        /\ job'[u].step = "draw" => nextId'[ChannelOf(u)'] >= 1
                        /\ job'[u].step \in {"bump", "draw", "format"} => Long(u)'
                        /\ job'[u].step \in {"bump", "draw"} => job'[u].at = 0
                        /\ job'[u].step = "format" => ChannelOf(u)' \in Ble
                        /\ ~Long(u)' => job'[u].id = 0 /\ job'[u].at = 0
                        /\ Long(u)' /\ InFrames(u)' =>
                             job'[u].id >= 1 /\ job'[u].at <= LengthOf(u)' + 1
      BY <2>5 DEF JobFits
    <3> QED
      BY <2>1, <2>2, <2>5, <2>6, <2>7, <2>8 DEF JobFits
  <2> QED
    BY <2>3, <2>9
<1> QED
  BY <1>1 DEF JobsFit

\* What every step of a thread that sends shows.
Progress(t) ==
  /\ TextsKept /\ Grows /\ SenderTypes' /\ JobsFit'
  /\ \A u \in Threads \ {t} : Same(u)

LEMMA CrossGrows ==
  ASSUME NEW n, NEW met, Cross(n, met)
  PROVE  /\ crossed \subseteq crossed'
         /\ \A m \in met : m \in crossed' /\ n \in crossed'
BY DEF Cross

LEMMA BeginProgress ==
  ASSUME SenderTypes, JobsFit, NEW t \in Threads, NEW c \in Channels,
         NEW l \in Lengths, NEW f \in BOOLEAN, Begin(t, c, l, f)
  PROVE  /\ Progress(t) /\ ~Busy(t)
         /\ Is(job'[t], IF l = 0 THEN "emit" ELSE "bump", Len(texts) + 1, 0, 0)
         /\ texts'[Len(texts) + 1] = [chan |-> c, length |-> l, formatted |-> f]
         /\ Len(texts') = Len(texts) + 1
<1> DEFINE n == Len(texts) + 1
           s == IF l = 0 THEN "emit" ELSE "bump"
           j == [NoJob EXCEPT !.text = n, !.step = s]
<1>1. /\ texts' \in Seq(Texts) /\ TextsKept /\ Len(texts') = n
      /\ texts'[n] = [chan |-> c, length |-> l, formatted |-> f]
  BY TextAdded DEF Begin
<1>2. n \in Nat /\ n \in 1 .. Len(texts')
  BY <1>1 DEF TextsKept
<1>3. job' = [job EXCEPT ![t] = j] /\ ~Busy(t)
  BY DEF Begin, Busy
<1>4. Is(j, s, n, 0, 0) /\ l \in Nat
  <2>1. job[t] \in Jobs /\ l \in Nat
    BY ChunksAssumption DEF SenderTypes, Lengths
  <2>2. s \in {"idle", "bump", "draw", "format", "emit"} /\ 0 \in 0 .. Ids /\ 0 \in Nat
    BY BoundsAssumption
  <2> HIDE DEF s
  <2> QED
    BY <1>2, <2>1, <2>2, JobsWritten
<1> HIDE DEF j
<1>5. job' \in [Threads -> Jobs] /\ Is(job'[t], s, n, 0, 0)
  <2>1. j \in Jobs
    BY <1>4 DEF Is
  <2>2. job' \in [Threads -> Jobs] /\ job'[t] = j
    BY <1>3, <2>1 DEF SenderTypes
  <2> QED
    BY <1>4, <2>2
<1>6. JobFits(t)'
  <2>1. LengthOf(t)' = l
    BY <1>1, <1>5 DEF LengthOf, Is
  <2>2. Long(t)' <=> l > 0
    BY <2>1 DEF Long
  <2>3. InFrames(t)' => l = 0
    BY <1>5 DEF InFrames, Is
  <2> SUFFICES /\ job'[t].text \in 1 .. Len(texts')
               /\ job'[t].step \notin {"draw", "format"}
               /\ job'[t].step = "bump" => Long(t)'
               /\ job'[t].id = 0 /\ job'[t].at = 0
               /\ ~(Long(t)' /\ InFrames(t)')
    BY DEF JobFits
  <2> QED
    BY <1>2, <1>4, <1>5, <2>2, <2>3 DEF Is
<1>7. /\ nextId' = nextId /\ reused' = reused /\ halved' = halved
      /\ \/ buffer' = buffer /\ crossed' = crossed
         \/ buffer' = Plain(n) /\ Cross(n, Waiting(t) \cup Reading(t))
  BY DEF Begin, network
<1>8. Plain(n) \in Packets
  BY <1>2, BoundsAssumption DEF Plain, Packet, Packets, Kinds
<1>9. buffer' \in Packets \cup {None} /\ Grows
  BY <1>7, <1>8, CrossGrows DEF SenderTypes, Grows
<1>10. SenderTypes'
  BY <1>1, <1>5, <1>7, <1>9 DEF SenderTypes
<1>11. JobsFit' /\ \A u \in Threads \ {t} : Same(u)
  BY <1>1, <1>3, <1>6, <1>7, JobsKept
<1> QED
  BY <1>1, <1>3, <1>5, <1>9, <1>10, <1>11 DEF Progress

LEMMA BumpProgress ==
  ASSUME SenderTypes, JobsFit, NEW t \in Threads, Bump(t)
  PROVE  Progress(t) /\ job'[t].step = "draw"
<1>1. job[t] \in Jobs /\ JobFits(t) /\ Busy(t) /\ job[t].step = "bump"
  BY DEF SenderTypes, JobsFit, Bump, Busy
<1>2. ChannelOf(t) \in Channels
  BY <1>1, TextRead DEF JobFits, ChannelOf
<1>3. /\ nextId' = [nextId EXCEPT ![ChannelOf(t)] = nextId[ChannelOf(t)] + 1]
      /\ job' = [job EXCEPT ![t] = [job[t] EXCEPT !.step = "draw"]]
      /\ texts' = texts /\ buffer' = buffer /\ Grows
  BY DEF Bump, network, Grows
<1>4. TextsKept
  BY <1>3, TextsSame
<1>5. nextId' \in [Channels -> Nat] /\ nextId'[ChannelOf(t)] >= 1
      /\ \A c \in Channels : nextId[c] >= 1 => nextId'[c] >= 1
  BY <1>2, <1>3 DEF SenderTypes
<1>6. [job[t] EXCEPT !.step = "draw"] \in Jobs
  BY <1>1 DEF Jobs
<1>7. /\ job' \in [Threads -> Jobs] /\ job'[t].step = "draw"
      /\ job'[t].text = job[t].text /\ job'[t].id = job[t].id
      /\ job'[t].at = job[t].at
  BY <1>1, <1>3, <1>6 DEF SenderTypes, Jobs
<1>8. SenderTypes'
  BY <1>3, <1>5, <1>7 DEF SenderTypes
<1>9. JobFits(t)'
  <2>1. ChannelOf(t)' = ChannelOf(t) /\ LengthOf(t)' = LengthOf(t)
    BY <1>3, <1>7 DEF ChannelOf, LengthOf
  <2> SUFFICES /\ job'[t].text \in 1 .. Len(texts')
               /\ nextId'[ChannelOf(t)'] >= 1
               /\ Long(t)' /\ job'[t].at = 0 /\ ~InFrames(t)'
    BY <1>7 DEF JobFits
  <2> QED
    BY <1>1, <1>3, <1>5, <1>7, <2>1 DEF JobFits, InFrames, Long
<1>10. JobsFit' /\ \A u \in Threads \ {t} : Same(u)
  BY <1>3, <1>4, <1>5, <1>9, JobsKept
<1> QED
  BY <1>3, <1>4, <1>7, <1>8, <1>10 DEF Progress

\* wt_stream_next_id gives an id that can be printed: none is refused.
LEMMA DrawProgress ==
  ASSUME SenderTypes, JobsFit, NEW t \in Threads, Draw(t), NEW c, c = ChannelOf(t),
         NEW n, n = job[t].text, NEW id, id = Wrapped(nextId[c])
  PROVE  /\ Progress(t) /\ c \in Channels /\ id \in 1 .. Ids
         /\ n \in 1 .. Len(texts) /\ ~InFrames(t)
         /\ Is(job'[t], Making(c), n, id, 0)
         /\ ChannelOf(t)' = c /\ Long(t)'
         /\ Open(c, id) # {} \/ Overtaken(c, id) => n \in crossed'
         /\ Open(c, id) \subseteq crossed'
         /\ reused' = IF streams[c][id] = None THEN reused ELSE reused \cup {n}
         /\ UNCHANGED <<buffer, late, streams, assembled, halved, texts>>
<1>1. job[t] \in Jobs /\ JobFits(t) /\ Busy(t) /\ job[t].step = "draw"
  BY DEF SenderTypes, JobsFit, Draw, Busy
<1>2. c \in Channels /\ n \in 1 .. Len(texts) /\ nextId[c] >= 1 /\ Long(t)
      /\ job[t].at = 0 /\ ~InFrames(t)
  BY <1>1, TextRead DEF JobFits, ChannelOf, InFrames
<1>3. id \in 1 .. Ids
  BY <1>2, BoundsAssumption DEF SenderTypes, Wrapped
<1> DEFINE j == [job[t] EXCEPT !.step = Making(c), !.id = id]
<1>4. /\ nextId' = [nextId EXCEPT ![c] = id]
      /\ job' = [job EXCEPT ![t] = j]
      /\ crossed' = IF Open(c, id) = {} /\ ~Overtaken(c, id) THEN crossed
                    ELSE crossed \cup Open(c, id) \cup {n}
      /\ reused' = IF streams[c][id] = None THEN reused ELSE reused \cup {n}
      /\ UNCHANGED <<buffer, late, streams, assembled, halved, texts>>
  BY <1>3 DEF Draw, network
<1>5. TextsKept /\ Grows
  BY <1>4, TextsSame DEF Grows
<1>6. Making(c) \in {"format", "emit"} /\ (Making(c) = "format" => c \in Ble)
  BY DEF Making
<1>7. Is(j, Making(c), n, id, 0)
  <2>1. Making(c) \in {"idle", "bump", "draw", "format", "emit"} /\ id \in 0 .. Ids
        /\ 0 \in Nat
    BY <1>3, <1>6
  <2> QED
    BY <1>1, <1>2, <2>1, JobsWritten
<1> HIDE DEF j
<1>8. job' \in [Threads -> Jobs] /\ Is(job'[t], Making(c), n, id, 0)
  <2>1. j \in Jobs
    BY <1>7 DEF Is
  <2>2. job' \in [Threads -> Jobs] /\ job'[t] = j
    BY <1>4, <2>1 DEF SenderTypes
  <2> QED
    BY <1>7, <2>2
<1>9. nextId' \in [Channels -> Nat] /\ \A d \in Channels : nextId[d] >= 1 => nextId'[d] >= 1
  BY <1>2, <1>3, <1>4 DEF SenderTypes
<1>10. SenderTypes'
  BY <1>4, <1>8, <1>9 DEF SenderTypes
<1>11. ChannelOf(t)' = c /\ LengthOf(t)' = LengthOf(t) /\ Long(t)'
  BY <1>2, <1>4, <1>8 DEF ChannelOf, LengthOf, Long, Is
<1>12. JobFits(t)'
  <2>1. LengthOf(t) \in Nat
    BY <1>2, TextRead DEF LengthOf
  <2> SUFFICES /\ job'[t].text \in 1 .. Len(texts')
               /\ job'[t].step \notin {"bump", "draw"}
               /\ job'[t].step = "format" => ChannelOf(t)' \in Ble
               /\ Long(t)'
               /\ job'[t].id >= 1 /\ job'[t].at <= LengthOf(t)' + 1
    BY DEF JobFits
  <2> QED
    BY <1>2, <1>3, <1>4, <1>6, <1>8, <1>11, <2>1 DEF Is
<1>13. JobsFit' /\ \A u \in Threads \ {t} : Same(u)
  BY <1>4, <1>5, <1>9, <1>12, JobsKept
<1> QED
  BY <1>2, <1>3, <1>4, <1>5, <1>7, <1>8, <1>10, <1>11, <1>13 DEF Progress

LEMMA FormatProgress ==
  ASSUME SenderTypes, JobsFit, NEW t \in Threads, Format(t), NEW p, p = Frame(t)
  PROVE  /\ Progress(t) /\ InFrames(t) /\ Made(p) /\ p.text = job[t].text
         /\ Frame(t)' = p /\ Cross(job[t].text, Waiting(t))
         /\ \E n \in Words(t) : buffer' = [p EXCEPT !.text = n]
         /\ Is(job'[t], "emit", job[t].text, job[t].id, job[t].at)
         /\ ChannelOf(t)' = ChannelOf(t) /\ LengthOf(t)' = LengthOf(t)
         /\ UNCHANGED <<late, streams, assembled, halved, reused, texts>>
<1>1. job[t] \in Jobs /\ JobFits(t) /\ Busy(t) /\ InFrames(t) /\ job[t].step = "format"
  BY DEF SenderTypes, JobsFit, Format, Busy, InFrames
<1>2. Made(p) /\ p.text = job[t].text
  BY <1>1, FrameFits
<1> DEFINE j == [job[t] EXCEPT !.step = "emit"]
<1>3. /\ nextId' = nextId /\ job' = [job EXCEPT ![t] = j]
      /\ UNCHANGED <<late, streams, assembled, halved, reused, texts>>
      /\ Cross(job[t].text, Waiting(t))
      /\ \E n \in Words(t) : buffer' = [p EXCEPT !.text = n]
  BY DEF Format, network
<1>4. TextsKept /\ Grows
  BY <1>3, TextsSame, CrossGrows DEF Grows
<1>5. Is(j, "emit", job[t].text, job[t].id, job[t].at)
  BY <1>1 DEF Is, Jobs
<1>6. job' \in [Threads -> Jobs] /\ Is(job'[t], "emit", job[t].text, job[t].id, job[t].at)
  <2>1. j \in Jobs
    BY <1>5 DEF Is
  <2>2. job' \in [Threads -> Jobs] /\ job'[t] = j
    BY <1>3, <2>1 DEF SenderTypes
  <2> QED
    BY <1>5, <2>2
<1> HIDE DEF j
<1>7. SenderTypes'
  <2>1. PICK n \in Words(t) : buffer' = [p EXCEPT !.text = n]
    BY <1>3
  <2>2. n \in Nat
    BY <1>1, <2>1, TextsSame DEF Words, Jobs
  <2>3. p \in Packets
    BY <1>2 DEF Made
  <2>4. [p EXCEPT !.text = n] \in Packets
    BY <2>2, <2>3 DEF Packets
  <2> QED
    BY <1>3, <1>6, <2>1, <2>4 DEF SenderTypes
<1>8. ChannelOf(t)' = ChannelOf(t) /\ LengthOf(t)' = LengthOf(t) /\ Frame(t)' = p
  <2>1. ChannelOf(t)' = ChannelOf(t) /\ LengthOf(t)' = LengthOf(t)
    BY <1>3, <1>6 DEF ChannelOf, LengthOf, Is
  <2> QED
    BY <1>6, <2>1 DEF Frame, Is
<1>9. JobFits(t)'
  <2> SUFFICES /\ job'[t].text \in 1 .. Len(texts')
               /\ job'[t].step \notin {"bump", "draw", "format"}
               /\ Long(t)'
               /\ job'[t].id >= 1 /\ job'[t].at <= LengthOf(t)' + 1
    BY DEF JobFits
  <2> QED
    BY <1>1, <1>3, <1>6, <1>8 DEF JobFits, Long, Is
<1>10. JobsFit' /\ \A u \in Threads \ {t} : Same(u)
  BY <1>3, <1>4, <1>9, JobsKept
<1> QED
  BY <1>1, <1>2, <1>3, <1>4, <1>6, <1>7, <1>8, <1>10 DEF Progress

\* After a frame a thread is at the next one of the same text, or done.
Advances(t) ==
  \/ Finished(t) /\ job'[t] = NoJob
  \/ /\ ~Finished(t) /\ Long(t)
     /\ Is(job'[t], Making(ChannelOf(t)), job[t].text, job[t].id, job[t].at + 1)

LEMMA EmitProgress ==
  ASSUME SenderTypes, JobsFit, NEW t \in Threads, EmitThen(t), Grows
  PROVE  /\ Progress(t) /\ InFrames(t) /\ Advances(t)
         /\ UNCHANGED <<buffer, texts, reused>>
<1>1. job[t] \in Jobs /\ JobFits(t) /\ Busy(t) /\ InFrames(t) /\ job[t].step = "emit"
  BY DEF SenderTypes, JobsFit, EmitThen, Busy, InFrames
<1>2. /\ job[t].text \in 1 .. Len(texts) /\ LengthOf(t) \in Nat
      /\ ~Long(t) <=> LengthOf(t) = 0
  BY <1>1, TextRead DEF JobFits, LengthOf, Long
<1> DEFINE m == Making(ChannelOf(t))
           k == [job[t] EXCEPT !.step = m, !.at = job[t].at + 1]
           j == IF Finished(t) THEN NoJob ELSE k
<1>3. job' = [job EXCEPT ![t] = j]
  BY DEF EmitThen
<1> HIDE DEF m
<1>4. nextId' = nextId /\ UNCHANGED <<buffer, texts, reused>>
  BY DEF EmitThen
<1>5. m \in {"format", "emit"} /\ (m = "format" => ChannelOf(t) \in Ble)
  BY DEF Making, m
<1>6. Is(k, m, job[t].text, job[t].id, job[t].at + 1) /\ NoJob \in Jobs
  <2>1. m \in {"idle", "bump", "draw", "format", "emit"} /\ job[t].at + 1 \in Nat
    BY <1>1, <1>5 DEF Jobs
  <2>2. 0 \in Nat /\ 0 \in 0 .. Ids
    BY BoundsAssumption
  <2>3. Is(k, m, job[t].text, job[t].id, job[t].at + 1)
    BY <1>1, <2>1, <2>2, JobsWritten
  <2>4. NoJob \in Jobs
    BY <2>2 DEF NoJob, Jobs
  <2> QED
    BY <2>3, <2>4
<1> HIDE DEF k
<1>a. j \in Jobs
  BY <1>6 DEF Is
<1>b. (Finished(t) => j = NoJob)
      /\ (~Finished(t) => Is(j, m, job[t].text, job[t].id, job[t].at + 1))
  BY <1>6
<1> HIDE DEF j
<1>c. job' \in [Threads -> Jobs] /\ job'[t] = j
  BY <1>3, <1>a DEF SenderTypes
<1>7. (Finished(t) => job'[t] = NoJob)
      /\ (~Finished(t) => Is(job'[t], m, job[t].text, job[t].id, job[t].at + 1))
  BY <1>b, <1>c
<1>8. TextsKept /\ SenderTypes'
  BY <1>4, <1>c, TextsSame DEF SenderTypes
<1>9. JobFits(t)'
  <2>1. CASE Finished(t)
    <3>1. job'[t].step = "idle"
      BY <1>7, <2>1 DEF NoJob
    <3> QED
      BY <3>1 DEF JobFits, Busy
  <2>2. CASE ~Finished(t)
    <3>1. /\ job'[t].text = job[t].text /\ job'[t].id = job[t].id
          /\ job'[t].at = job[t].at + 1 /\ job'[t].step = m
      BY <1>7, <2>2 DEF Is
    <3>2. ChannelOf(t)' = ChannelOf(t) /\ LengthOf(t)' = LengthOf(t)
          /\ (Long(t)' <=> Long(t))
      BY <1>4, <3>1 DEF ChannelOf, LengthOf, Long
    <3>3. Long(t) /\ job[t].at # LengthOf(t) + 1
      BY <1>2, <2>2 DEF Finished
    <3>4. job[t].id >= 1 /\ job[t].at <= LengthOf(t) + 1 /\ job[t].at \in Nat
      BY <1>1, <3>3 DEF JobFits, Jobs
    <3>5. job[t].at + 1 <= LengthOf(t) + 1
      BY <1>2, <3>3, <3>4
    <3> SUFFICES /\ job'[t].text \in 1 .. Len(texts')
                 /\ job'[t].step \notin {"bump", "draw"}
                 /\ job'[t].step = "format" => ChannelOf(t)' \in Ble
                 /\ Long(t)'
                 /\ job'[t].id >= 1 /\ job'[t].at <= LengthOf(t)' + 1
      BY DEF JobFits
    <3> QED
      BY <1>2, <1>4, <1>5, <3>1, <3>2, <3>3, <3>4, <3>5
  <2> QED
    BY <2>1, <2>2
<1>10. JobsFit' /\ \A u \in Threads \ {t} : Same(u)
  <2>1. \A c \in Channels : nextId[c] >= 1 => nextId'[c] >= 1
    BY <1>4
  <2> QED
    BY <1>3, <1>8, <1>9, <2>1, JobsKept
<1>11. Advances(t)
  BY <1>2, <1>7 DEF Advances, Finished, m
<1> QED
  BY <1>1, <1>4, <1>8, <1>10, <1>11 DEF Progress

LEMMA RefusedProgress ==
  ASSUME SenderTypes, JobsFit, NEW t \in Threads, EmitRefused(t)
  PROVE  /\ Progress(t) /\ InFrames(t) /\ job'[t] = NoJob
         /\ job[t].text \in halved'
         /\ UNCHANGED <<buffer, texts, crossed, reused, late, streams,
                        assembled>>
<1>1. InFrames(t)
  BY DEF EmitRefused, InFrames
<1>2. /\ job' = [job EXCEPT ![t] = NoJob] /\ nextId' = nextId
      /\ UNCHANGED <<buffer, texts, crossed, reused, late, streams, assembled>>
      /\ halved \subseteq halved' /\ job[t].text \in halved'
  BY DEF EmitRefused, Halve
<1>3. TextsKept /\ Grows
  BY <1>2, TextsSame DEF Grows
<1>4. NoJob \in Jobs
  BY BoundsAssumption DEF NoJob, Jobs
<1>5. job' \in [Threads -> Jobs] /\ job'[t] = NoJob
  BY <1>2, <1>4 DEF SenderTypes
<1>6. SenderTypes'
  BY <1>2, <1>5 DEF SenderTypes
<1>7. JobFits(t)'
  BY <1>5 DEF NoJob, JobFits, Busy
<1>8. JobsFit' /\ \A u \in Threads \ {t} : Same(u)
  BY <1>2, <1>3, <1>7, JobsKept
<1> QED
  BY <1>1, <1>2, <1>3, <1>5, <1>6, <1>8 DEF Progress

-----------------------------------------------------------------------------
(* The shared buffer and the late packets.                                 *)

LEMMA MadeKept ==
  ASSUME NEW p, Made(p), TextsKept, Grows
  PROVE  Made(p)' /\ texts'[p.text] = texts[p.text]
BY DEF Made, TextsKept, Grows

LEMMA BufferKept ==
  ASSUME BufferHolds, TextsKept, Grows, UNCHANGED buffer,
         \A u \in Threads : Same(u) \/ ~WaitsInBuffer(u)'
  PROVE  BufferHolds'
<1> SUFFICES ASSUME NEW u \in Threads, WaitsInBuffer(u)'
             PROVE  \/ buffer' = Frame(u)'
                    \/ job'[u].text \in crossed' /\ Made(buffer)' /\ buffer'.text \in crossed'
  BY DEF BufferHolds
<1>1. Same(u) /\ WaitsInBuffer(u)
  BY DEF Same
<1>2. Busy(u)
  BY <1>1 DEF WaitsInBuffer, Busy
<1>3. Frame(u)' = Frame(u) /\ job'[u] = job[u]
  BY <1>1, <1>2 DEF Same
<1>4. \/ buffer = Frame(u)
      \/ job[u].text \in crossed /\ Made(buffer) /\ buffer.text \in crossed
  BY <1>1 DEF BufferHolds
<1>5. Made(buffer) => Made(buffer)'
  BY MadeKept
<1> QED
  BY <1>3, <1>4, <1>5 DEF Grows

\* What a thread writes there is its own, or it has met another text; those who
\* still wait are spoiled with it.
LEMMA BufferWritten ==
  ASSUME NEW t \in Threads, NEW n, NEW packet, NEW met, buffer' = packet,
         Cross(n, met), Waiting(t) \subseteq met, Made(packet)',
         packet.text = n \/ (n \in crossed' /\ packet.text \in crossed'),
         WaitsInBuffer(t)' =>
           packet = Frame(t)' \/ (job'[t].text \in crossed' /\ packet.text \in crossed'),
         \A u \in Threads \ {t} : Same(u)
  PROVE  BufferHolds'
<1>1. Made(buffer)'
  BY DEF Made
<1>2. ASSUME NEW u \in Threads \ {t}, WaitsInBuffer(u)'
      PROVE  job'[u].text \in crossed' /\ packet.text \in crossed'
  <2>1. WaitsInBuffer(u) /\ job'[u] = job[u]
    BY <1>2 DEF Same
  <2>2. job[u].text \in met
    BY <2>1 DEF Waiting
  <2> QED
    BY <2>1, <2>2, CrossGrows
<1> QED
  BY <1>1, <1>2 DEF BufferHolds

LEMMA WordsKept ==
  ASSUME WordsHold, Grows, UNCHANGED texts,
         \A u \in Threads : Reads(u)' => Reads(u) /\ job'[u].text = job[u].text
  PROVE  WordsHold'
BY DEF WordsHold, Grows

LEMMA WordsKeptBy ==
  ASSUME WordsHold, NEW t \in Threads, Progress(t), UNCHANGED texts,
         Reads(t)' => Reads(t) /\ job'[t].text = job[t].text
  PROVE  WordsHold'
<1>1. Grows /\ \A u \in Threads \ {t} : Same(u)
  BY DEF Progress
<1>2. \A u \in Threads : Reads(u)' => Reads(u) /\ job'[u].text = job[u].text
  BY <1>1 DEF Same
<1> QED
  BY <1>1, <1>2, WordsKept

LEMMA LateKept ==
  ASSUME LatePackets, TextsKept, Grows, \A c \in Channels : late'[c] \subseteq late[c]
  PROVE  LatePackets'
<1> SUFFICES ASSUME NEW c \in Channels, NEW p \in late'[c]
             PROVE  /\ Made(p)' /\ p.text \in halved'
                    /\ p.text \notin crossed' => LateFits(c, p)'
  BY DEF LatePackets, LateFits
<1>1. /\ Made(p) /\ p.text \in halved
      /\ p.text \notin crossed => LateFits(c, p)
  BY DEF LatePackets, LateFits
<1> QED
  BY <1>1, MadeKept DEF Grows, LateFits

-----------------------------------------------------------------------------
(* A frame given to the queue.                                             *)

\* The packet that thread t gives to channel c.
Gives(t, c, p) ==
  /\ EmitThen(t) /\ InFrames(t) /\ c = ChannelOf(t) /\ p = Sent(t)
  /\ c \in Channels /\ Made(p)
  /\ job[t].text \in 1 .. Len(texts) /\ LengthOf(t) \in Nat
  /\ p = Frame(t) \/ (job[t].text \in crossed /\ p.text \in crossed)
  /\ p = Frame(t) =>
       /\ p.text = job[t].text
       /\ ~Long(t) <=> p.kind = "plain"
       /\ p.kind # "plain" => Inside(t, c, p.id)
       /\ Long(t) => p.id = job[t].id

LEMMA Given ==
  ASSUME SenderTypes, JobsFit, BufferHolds, NEW t \in Threads, EmitThen(t),
         NEW c, c = ChannelOf(t), NEW p, p = Sent(t)
  PROVE  Gives(t, c, p)
<1>1. JobFits(t) /\ InFrames(t) /\ Busy(t) /\ job[t].step = "emit"
  BY DEF JobsFit, EmitThen, InFrames, Busy
<1>2. job[t].text \in 1 .. Len(texts) /\ LengthOf(t) \in Nat /\ c \in Channels
  BY <1>1, TextRead DEF JobFits, LengthOf, ChannelOf
<1> DEFINE f == Frame(t)
<1>3. /\ Made(f) /\ f.text = job[t].text
      /\ ~Long(t) => f.kind = "plain"
      /\ Long(t) => f.kind # "plain" /\ f.id = job[t].id
  BY <1>1, FrameFits
<1>4. \/ p = f
      \/ job[t].text \in crossed /\ p.text \in crossed /\ Made(p)
  BY <1>1, SentFits
<1>6. ASSUME p = f PROVE
       /\ p.text = job[t].text
       /\ ~Long(t) <=> p.kind = "plain"
       /\ p.kind # "plain" => Inside(t, c, p.id)
       /\ Long(t) => p.id = job[t].id
  BY <1>1, <1>3, <1>6 DEF Inside
<1>7. Made(p)
  BY <1>3, <1>4
<1> QED
  BY <1>1, <1>2, <1>4, <1>6, <1>7 DEF Gives

\* Where the frame of its own is in its stream.
LEMMA GivenAt ==
  ASSUME SenderTypes, JobsFit, NEW t \in Threads, NEW c, NEW p, Gives(t, c, p),
         p = Frame(t), Long(t)
  PROVE  /\ job[t].at = 0 <=> p.kind = "S"
         /\ p.kind = "C" => job[t].at \in 1 .. LengthOf(t) /\ p.seq = job[t].at - 1
         /\ p.kind = "E" <=> job[t].at = LengthOf(t) + 1
         /\ p.kind = "E" => p.seq = LengthOf(t)
<1>1. JobFits(t) /\ Busy(t) /\ InFrames(t) /\ LengthOf(t) \in Nat
  BY DEF JobsFit, Gives, Busy, InFrames
<1>2. /\ job[t].at = 0 => p.kind = "S"
      /\ job[t].at \in 1 .. LengthOf(t) => p.kind = "C" /\ p.seq = job[t].at - 1
      /\ job[t].at = LengthOf(t) + 1 => p.kind = "E" /\ p.seq = LengthOf(t)
  BY <1>1, FrameFits
<1>3. job[t].at \in Nat /\ job[t].at <= LengthOf(t) + 1
  BY <1>1 DEF JobFits, SenderTypes, Jobs
<1>4. \/ job[t].at = 0 \/ job[t].at \in 1 .. LengthOf(t) \/ job[t].at = LengthOf(t) + 1
  BY <1>1, <1>3
<1> QED
  BY <1>1, <1>2, <1>4

\* A packet that others overtake.
LEMMA LateAdded ==
  ASSUME LatePackets, SenderTypes, NetworkTypes, TextsKept, Grows,
         NEW t \in Threads, NEW c \in Channels, NEW p, Gives(t, c, p),
         {job[t].text, p.text} \subseteq halved',
         late' = [late EXCEPT ![c] = late[c] \cup {p}]
  PROVE  LatePackets' /\ late' \in [Channels -> SUBSET Packets]
<1>1. Made(p) /\ (p = Frame(t) \/ p.text \in crossed)
  BY DEF Gives
<1>2. ASSUME p = Frame(t) PROVE LateFits(c, p)
  BY <1>2 DEF Gives, ChannelOf, LengthOf, Long, LateFits
<1>3. \A d \in Channels : \A q \in late'[d] : q \in late[d] \/ (d = c /\ q = p)
  BY DEF NetworkTypes
<1>4. ASSUME NEW d \in Channels, NEW q \in late'[d]
      PROVE  /\ Made(q)' /\ q.text \in halved'
             /\ q.text \notin crossed' => LateFits(d, q)'
  <2>1. /\ Made(q) /\ q.text \in halved'
        /\ q.text \notin crossed => LateFits(d, q)
    BY <1>1, <1>2, <1>3 DEF LatePackets, Grows
  <2> QED
    BY <2>1, MadeKept DEF Grows, LateFits
<1>5. p \in Packets
  BY <1>1 DEF Made
<1> QED
  BY <1>4, <1>5 DEF LatePackets, NetworkTypes

-----------------------------------------------------------------------------
(* Ids.                                                                    *)

\* No thread enters a stream.
NoneEnters ==
  \A t \in Threads : \A c \in Channels : \A id \in 1 .. Ids :
    Inside(t, c, id)' => Inside(t, c, id) /\ job'[t].text = job[t].text

LEMMA OthersInside ==
  ASSUME NEW u, Same(u), NEW c, NEW id, Inside(u, c, id)'
  PROVE  Inside(u, c, id) /\ job'[u] = job[u]
BY DEF Same

LEMMA NoneEnteredBy ==
  ASSUME NEW t \in Threads, Progress(t),
         \A c \in Channels : \A id \in 1 .. Ids :
           Inside(t, c, id)' => Inside(t, c, id) /\ job'[t].text = job[t].text
  PROVE  NoneEnters
<1>1. ASSUME NEW u \in Threads \ {t}, NEW c, NEW id, Inside(u, c, id)'
      PROVE  Inside(u, c, id) /\ job'[u].text = job[u].text
  BY <1>1, OthersInside DEF Progress
<1> QED
  BY <1>1 DEF NoneEnters

LEMMA InsideFits ==
  ASSUME SenderTypes, JobsFit, NEW t \in Threads, NEW c, NEW id, Inside(t, c, id)
  PROVE  job[t].text \in 1 .. Len(texts) /\ job[t].text \in Nat /\ job[t].at \in Nat
         /\ c \in Channels /\ id \in 1 .. Ids
<1>1. job[t] \in Jobs /\ JobFits(t) /\ Busy(t) /\ Long(t) /\ InFrames(t)
  BY DEF SenderTypes, JobsFit, Inside, InFrames, Busy
<1>2. job[t].text \in 1 .. Len(texts) /\ ChannelOf(t) \in Channels /\ job[t].id >= 1
  BY <1>1, TextRead DEF JobFits, ChannelOf
<1>3. job[t].id \in 0 .. Ids /\ job[t].at \in Nat /\ job[t].text \in Nat
  BY <1>1 DEF Jobs
<1> QED
  BY <1>2, <1>3, BoundsAssumption DEF Inside

LEMMA ApartKept ==
  ASSUME IdsApart, Grows, NoneEnters, NetworkTypes, LatePackets,
         \A c \in Channels : late'[c] \subseteq late[c]
  PROVE  IdsApart'
<1>0. crossed \subseteq crossed'
  BY DEF Grows
<1>1. ASSUME NEW t \in Threads, NEW u \in Threads, NEW c \in Channels,
             NEW id \in 1 .. Ids,
             Inside(t, c, id)', Inside(u, c, id)', t # u
      PROVE  job'[t].text \in crossed'
  BY <1>1 DEF IdsApart, NoneEnters, Grows
<1>2. ASSUME NEW t \in Threads, NEW c \in Channels, NEW p \in late'[c],
             p.kind # "plain", Inside(t, c, p.id)'
      PROVE  p.text = job'[t].text \/ job'[t].text \in crossed'
  <2>1. p \in late[c] /\ c \in Channels
    BY DEF Channels
  <2>2. p.id \in 1 .. Ids
    BY <1>2, <2>1, BoundsAssumption DEF LatePackets, Made, Packets
  <2>3. Inside(t, c, p.id) /\ job'[t].text = job[t].text
    BY <1>2, <2>1, <2>2 DEF NoneEnters
  <2>4. p.text = job[t].text \/ job[t].text \in crossed
    BY <1>2, <2>1, <2>3 DEF IdsApart
  <2> QED
    BY <1>0, <2>1, <2>3, <2>4
<1>3. ASSUME NEW c \in Channels, NEW p \in late'[c], NEW q \in late'[c],
             p.kind # "plain", q.kind # "plain", p.id = q.id
      PROVE  p.text = q.text \/ p.text \in crossed' \/ q.text \in crossed'
  <2>1. p.text = q.text \/ p.text \in crossed \/ q.text \in crossed
    BY <1>3 DEF IdsApart
  <2> QED
    BY <1>0, <2>1
<1> QED
  BY <1>1, <1>2, <1>3 DEF IdsApart

\* A thread that draws an id of an open stream, or that late packets have,
\* is spoiled.
LEMMA ApartDraw ==
  ASSUME IdsApart, SenderTypes, JobsFit, NetworkTypes, LatePackets,
         NEW t \in Threads, Draw(t), NEW c, c = ChannelOf(t),
         NEW n, n = job[t].text, NEW id, id = Wrapped(nextId[c])
  PROVE  IdsApart'
<1>1. /\ Progress(t) /\ c \in Channels /\ id \in 1 .. Ids
      /\ n \in 1 .. Len(texts) /\ ~InFrames(t)
      /\ Is(job'[t], Making(c), n, id, 0)
      /\ ChannelOf(t)' = c /\ Long(t)'
      /\ Open(c, id) # {} \/ Overtaken(c, id) => n \in crossed'
      /\ Open(c, id) \subseteq crossed'
      /\ UNCHANGED <<late, texts>>
  BY DrawProgress
<1>2. job'[t].text = n /\ job'[t].id = id
  BY <1>1 DEF Is
<1>3. \A d, i : Inside(t, d, i)' => d = c /\ i = id
  BY <1>1, <1>2 DEF Inside
<1>4. Grows /\ \A u \in Threads \ {t} : Same(u)
  BY <1>1 DEF Progress
<1>5. \A u \in Threads \ {t} : Inside(u, c, id) => job[u].text \in Open(c, id)
  BY DEF Inside, InFrames, Open
<1>6. \A u \in Threads \ {t} : \A d, i : 
        Inside(u, d, i)' => Inside(u, d, i) /\ job'[u].text = job[u].text
  BY <1>4, OthersInside
<1>7. ASSUME NEW u \in Threads \ {t}, Inside(u, c, id)
      PROVE  job'[u].text \in crossed' /\ n \in crossed'
  <2>1. job[u].text \in Open(c, id) /\ job'[u] = job[u]
    BY <1>4, <1>5, <1>7 DEF Same
  <2> QED
    BY <1>1, <2>1
<1>8. ASSUME NEW p, c \in Channels, p \in late[c], p.id = id
      PROVE  n \in crossed'
  BY <1>1, <1>8 DEF Overtaken
<1>a. crossed \subseteq crossed'
  BY <1>4 DEF Grows
<1>9. ASSUME NEW v \in Threads, NEW u \in Threads, NEW d \in Channels,
             NEW i \in 1 .. Ids,
             Inside(v, d, i)', Inside(u, d, i)', v # u
      PROVE  job'[v].text \in crossed'
  <2>1. CASE v = t
    BY <1>2, <1>3, <1>6, <1>7, <1>9, <2>1
  <2>2. CASE u = t
    BY <1>3, <1>6, <1>7, <1>9, <2>2
  <2>3. CASE v # t /\ u # t
    BY <1>4, <1>6, <1>9, <2>3 DEF IdsApart, Grows
  <2> QED
    BY <2>1, <2>2, <2>3
<1>10. ASSUME NEW v \in Threads, NEW d \in Channels, NEW p \in late'[d],
              p.kind # "plain", Inside(v, d, p.id)'
       PROVE  p.text = job'[v].text \/ job'[v].text \in crossed'
  <2>1. p \in late[d] /\ d \in Channels
    BY <1>1 DEF Channels
  <2>2. CASE v = t
    <3>1. d = c /\ p.id = id
      BY <1>3, <1>10, <2>2
    <3> QED
      BY <1>2, <1>8, <2>1, <2>2, <3>1
  <2>3. CASE v # t
    <3>1. Inside(v, d, p.id) /\ job'[v].text = job[v].text
      BY <1>6, <1>10, <2>3
    <3> QED
      BY <1>a, <1>10, <2>1, <3>1 DEF IdsApart
  <2> QED
    BY <2>2, <2>3
<1>11. ASSUME NEW d \in Channels, NEW p \in late'[d], NEW q \in late'[d],
              p.kind # "plain", q.kind # "plain", p.id = q.id
       PROVE  p.text = q.text \/ p.text \in crossed' \/ q.text \in crossed'
  <2>1. p.text = q.text \/ p.text \in crossed \/ q.text \in crossed
    BY <1>1, <1>11 DEF IdsApart
  <2> QED
    BY <1>a, <2>1
<1> QED
  BY <1>9, <1>10, <1>11 DEF IdsApart

LEMMA ApartLate ==
  ASSUME IdsApart, Grows, NoneEnters, NetworkTypes, LatePackets,
         NEW t \in Threads, NEW c \in Channels, NEW p, Gives(t, c, p),
         late' = [late EXCEPT ![c] = late[c] \cup {p}], crossed' = crossed \cup Meets(t)
  PROVE  IdsApart'
<1>0. crossed \subseteq crossed'
  BY DEF Grows
<1>1. \A d \in Channels : \A q \in late'[d] : q \in late[d] \/ (d = c /\ q = p)
  BY DEF NetworkTypes
<1>2. /\ Made(p) /\ c = ChannelOf(t) /\ p = Sent(t)
      /\ \/ p = Frame(t) /\ p.text = job[t].text /\ (p.kind # "plain" => Inside(t, c, p.id))
         \/ p.text \in crossed /\ p # Frame(t)
      /\ p.kind # "plain" => p.id \in 1 .. Ids
  <2>1. Made(p)
    BY DEF Gives
  <2> QED
    BY <2>1, BoundsAssumption DEF Gives, Made, Packets
<1>3. ASSUME NEW v \in Threads, NEW u \in Threads, NEW d \in Channels,
             NEW i \in 1 .. Ids,
             Inside(v, d, i)', Inside(u, d, i)', v # u
      PROVE  job'[v].text \in crossed'
  BY <1>3 DEF IdsApart, NoneEnters, Grows
<1>4. ASSUME NEW q \in late[c], p.kind # "plain", q.kind # "plain", p.id = q.id
      PROVE  p.text = q.text \/ p.text \in crossed'
  <2>1. CASE p = Frame(t)
    BY <1>0, <1>2, <1>4, <2>1 DEF IdsApart
  <2>2. CASE p # Frame(t)
    BY <1>0, <1>2, <2>2
  <2> QED
    BY <2>1, <2>2
<1>5. ASSUME NEW v \in Threads, NEW d \in Channels, NEW q \in late'[d],
             q.kind # "plain", Inside(v, d, q.id)'
      PROVE  q.text = job'[v].text \/ job'[v].text \in crossed'
  <2>1. q.id \in 1 .. Ids /\ d \in Channels
    BY <1>1, <1>2, <1>5, BoundsAssumption DEF LatePackets, Made, Packets, Channels
  <2>2. Inside(v, d, q.id) /\ job'[v].text = job[v].text
    BY <1>5, <2>1 DEF NoneEnters
  <2>3. CASE q \in late[d]
    BY <1>0, <1>5, <2>1, <2>2, <2>3 DEF IdsApart
  <2>4. CASE d = c /\ q = p
    <3>1. CASE p = Frame(t)
      <4>1. v = t \/ job[v].text \in crossed
        BY <1>2, <1>5, <2>1, <2>2, <2>4, <3>1 DEF IdsApart
      <4> QED
        BY <1>0, <1>2, <2>2, <2>4, <3>1, <4>1
    <3>2. CASE p # Frame(t)
      <4>1. Meets(t) = Open(c, p.id)
        BY <1>2, <1>5, <2>4, <3>2 DEF Meets
      <4>2. job[v].text \in Open(c, p.id)
        BY <2>2, <2>4 DEF Open, Inside, InFrames
      <4> QED
        BY <2>2, <4>1, <4>2
    <3> QED
      BY <3>1, <3>2
  <2> QED
    BY <1>1, <2>3, <2>4
<1>6. ASSUME NEW d \in Channels, NEW r \in late'[d], NEW q \in late'[d],
             r.kind # "plain", q.kind # "plain", r.id = q.id
      PROVE  r.text = q.text \/ r.text \in crossed' \/ q.text \in crossed'
  <2>1. CASE r \in late[d] /\ q \in late[d]
    <3>1. r.text = q.text \/ r.text \in crossed \/ q.text \in crossed
      BY <1>6, <2>1 DEF IdsApart
    <3> QED
      BY <1>0, <3>1 DEF Channels
  <2>2. CASE d = c /\ r = p
    BY <1>1, <1>4, <1>6, <2>2
  <2>3. CASE d = c /\ q = p
    BY <1>1, <1>4, <1>6, <2>3
  <2> QED
    BY <1>1, <2>1, <2>2, <2>3
<1> QED
  BY <1>3, <1>5, <1>6 DEF IdsApart

-----------------------------------------------------------------------------
(* What the console holds of an open stream.                               *)

LEMMA SameClean ==
  ASSUME NEW c, NEW id, NEW n \in 1 .. Len(texts), TextsKept, Grows,
         UNCHANGED streams, Clean(c, id, n)
  PROVE  Clean(c, id, n)'
<1>1. Spoiled \subseteq Spoiled' /\ texts'[n] = texts[n]
  BY SpoiledGrows DEF TextsKept
<1> QED
  BY <1>1 DEF Clean

LEMMA AloneKept ==
  ASSUME Grows, NEW u, job'[u].text = job[u].text,
         job'[u].at = job[u].at \/ job[u].at # 0, Alone(u)'
  PROVE  Alone(u)
<1>1. Spoiled \subseteq Spoiled' /\ reused \subseteq reused'
  BY SpoiledGrows DEF Grows
<1> QED
  BY <1>1 DEF Alone

\* No sender is alone with its stream that was not before.
NoneAlone ==
  \A t \in Threads : \A c \in Channels : \A id \in 1 .. Ids :
    Inside(t, c, id)' /\ Alone(t)' => Alone(t)

LEMMA NoneAloneBy ==
  ASSUME NEW t \in Threads, Progress(t),
         \A c \in Channels : \A id \in 1 .. Ids :
           Inside(t, c, id)' /\ Alone(t)' => Alone(t)
  PROVE  NoneAlone
<1>1. ASSUME NEW u \in Threads \ {t}, Alone(u)' PROVE Alone(u)
  <2>1. job'[u] = job[u] /\ Grows
    BY DEF Progress, Same
  <2> QED
    BY <1>1, <2>1, AloneKept
<1> QED
  BY <1>1 DEF NoneAlone

LEMMA CleanStays ==
  ASSUME StreamsClean, NoneEnters, NoneAlone, SenderTypes, JobsFit, LatePackets,
         TextsKept, Grows, UNCHANGED streams, \A c \in Channels : late'[c] \subseteq late[c]
  PROVE  StreamsClean'
<1>1. ASSUME NEW t \in Threads, NEW c \in Channels, NEW id \in 1 .. Ids,
             Inside(t, c, id)', Alone(t)', NEW n, n = job'[t].text
      PROVE  Clean(c, id, n)'
  <2>1. Inside(t, c, id) /\ n = job[t].text /\ Alone(t)
    BY <1>1 DEF NoneEnters, NoneAlone
  <2>2. Clean(c, id, n) /\ n \in 1 .. Len(texts)
    BY <2>1, InsideFits DEF StreamsClean
  <2> QED
    BY <2>2, SameClean
<1>2. ASSUME NEW c \in Channels, NEW p \in late'[c], p.kind # "plain",
             p.text \notin Spoiled'
      PROVE  Clean(c, p.id, p.text)'
  <2>1. p \in late[c] /\ p.text \notin Spoiled
    BY <1>2, SpoiledGrows
  <2>2. Clean(c, p.id, p.text) /\ p.text \in 1 .. Len(texts)
    BY <1>2, <2>1 DEF StreamsClean, LatePackets, Made
  <2> QED
    BY <2>2, SameClean
<1>3. ASSUME NEW t \in Threads, NEW c \in Channels, NEW id \in 1 .. Ids,
             Inside(t, c, id)', Alone(t)'
      PROVE  Clean(c, id, job[t].text)'
  BY <1>1, <1>3 DEF Clean
<1> QED
  BY <1>2, <1>3 DEF StreamsClean

\* A thread begins a stream in a place where nothing is, or is not alone.
LEMMA CleanDraw ==
  ASSUME StreamsClean, SenderTypes, JobsFit, LatePackets,
         NEW t \in Threads, Draw(t), NEW c, c = ChannelOf(t),
         NEW n, n = job[t].text, NEW id, id = Wrapped(nextId[c])
  PROVE  StreamsClean'
<1>1. /\ Progress(t) /\ c \in Channels /\ id \in 1 .. Ids
      /\ n \in 1 .. Len(texts) /\ ~InFrames(t)
      /\ Is(job'[t], Making(c), n, id, 0)
      /\ ChannelOf(t)' = c /\ Long(t)'
      /\ reused' = IF streams[c][id] = None THEN reused ELSE reused \cup {n}
      /\ UNCHANGED <<buffer, late, streams, assembled, halved, texts>>
  BY DrawProgress
<1>2. job'[t].text = n /\ job'[t].id = id /\ job'[t].at = 0
  BY <1>1 DEF Is
<1>3. \A d, i : Inside(t, d, i)' => d = c /\ i = id
  BY <1>1, <1>2 DEF Inside
<1>4. Grows /\ TextsKept /\ \A u \in Threads \ {t} : Same(u)
  BY <1>1 DEF Progress
<1>5. Alone(t)' => streams'[c][id] = None
  <2>1. Alone(t)' => n \notin reused'
    BY <1>2 DEF Alone
  <2> QED
    BY <1>1, <2>1
<1>6. ASSUME NEW u \in Threads, NEW d \in Channels, NEW i \in 1 .. Ids,
             Inside(u, d, i)', Alone(u)', NEW m, m = job'[u].text
      PROVE  Clean(d, i, m)'
  <2>1. CASE u = t
    BY <1>3, <1>5, <1>6, <2>1 DEF Clean
  <2>2. CASE u # t
    <3>1. Inside(u, d, i) /\ job'[u] = job[u]
      BY <1>4, <1>6, <2>2, OthersInside
    <3>2. Alone(u) /\ m \in 1 .. Len(texts)
      BY <1>4, <1>6, <3>1, AloneKept, InsideFits
    <3>3. Clean(d, i, m)
      BY <1>6, <3>1, <3>2 DEF StreamsClean
    <3> QED
      BY <1>1, <1>4, <3>2, <3>3, SameClean
  <2> QED
    BY <2>1, <2>2
<1>7. ASSUME NEW d \in Channels, NEW p \in late'[d], p.kind # "plain",
             p.text \notin Spoiled'
      PROVE  Clean(d, p.id, p.text)'
  <2>1. p \in late[d] /\ p.text \notin Spoiled
    BY <1>1, <1>4, <1>7, SpoiledGrows
  <2>2. Clean(d, p.id, p.text) /\ p.text \in 1 .. Len(texts)
    BY <1>7, <2>1 DEF StreamsClean, LatePackets, Made
  <2> QED
    BY <1>1, <1>4, <2>2, SameClean
<1>8. ASSUME NEW u \in Threads, NEW d \in Channels, NEW i \in 1 .. Ids,
             Inside(u, d, i)', Alone(u)'
      PROVE  Clean(d, i, job[u].text)'
  BY <1>6, <1>8 DEF Clean
<1> QED
  BY <1>7, <1>8 DEF StreamsClean

\* A packet that comes is of the stream's own text, or one of them is spoiled.
LEMMA CleanComes ==
  ASSUME StreamsClean, NoneEnters, SenderTypes, NetworkTypes, JobsFit, LatePackets,
         Grows, UNCHANGED texts, \A d \in Channels : late'[d] \subseteq late[d],
         NEW c, NEW p, Comes(c, p), Made(p),
         \A t \in Threads : p.kind # "plain" /\ Inside(t, c, p.id) =>
           \/ p.text = job[t].text \/ p.text \in Spoiled'
           \/ job[t].text \in Spoiled',
         \A q \in late'[c] :
           p.kind # "plain" /\ q.kind # "plain" /\ q.id = p.id =>
             \/ p.text = q.text \/ p.text \in Spoiled' \/ q.text \in Spoiled',
         \A t \in Threads : \A d \in Channels : \A id \in 1 .. Ids :
           Inside(t, d, id)' /\ Alone(t)' =>
             Alone(t) \/ (p.kind = "S" /\ d = c /\ id = p.id)
  PROVE  StreamsClean'
<1>1. ASSUME NEW t \in Threads, NEW d \in Channels, NEW id \in 1 .. Ids,
             Inside(t, d, id)', Alone(t)', NEW n, n = job'[t].text
      PROVE  Clean(d, id, n)'
  <2>1. Inside(t, d, id) /\ n = job[t].text /\ n \notin Spoiled'
    BY <1>1 DEF NoneEnters, Alone
  <2>2. Clean(d, id, n) \/ (p.kind = "S" /\ d = c /\ id = p.id)
    BY <1>1, <2>1 DEF StreamsClean
  <2>3. p.kind = "C" /\ d = c /\ id = p.id => p.text \in Spoiled' \/ p.text = n
    BY <2>1
  <2> QED
    BY <2>2, <2>3, CleanKept
<1>2. ASSUME NEW d \in Channels, NEW q \in late'[d], q.kind # "plain",
             q.text \notin Spoiled'
      PROVE  Clean(d, q.id, q.text)'
  <2>1. q \in late[d] /\ q.text \notin Spoiled /\ d \in Channels /\ Made(q)
    BY <1>2, SpoiledGrows DEF LatePackets, Channels
  <2>2. q.id \in 1 .. Ids
    BY <1>2, <2>1, BoundsAssumption DEF Made, Packets
  <2>3. Clean(d, q.id, q.text)
    BY <1>2, <2>1 DEF StreamsClean
  <2>4. p.kind = "C" /\ d = c /\ q.id = p.id => p.text \in Spoiled' \/ p.text = q.text
    BY <1>2
  <2> QED
    BY <2>1, <2>2, <2>3, <2>4, CleanKept
<1>3. ASSUME NEW t \in Threads, NEW d \in Channels, NEW id \in 1 .. Ids,
             Inside(t, d, id)', Alone(t)'
      PROVE  Clean(d, id, job[t].text)'
  BY <1>1, <1>3 DEF Clean
<1> QED
  BY <1>2, <1>3 DEF StreamsClean

LEMMA EmitEnters ==
  ASSUME SenderTypes, JobsFit, NEW t \in Threads, EmitThen(t), Grows
  PROVE  /\ NoneEnters /\ ~WaitsInBuffer(t)'
         /\ \A c, id : Inside(t, c, id)' =>
              /\ Inside(t, c, id) /\ ~Finished(t) /\ Long(t)
              /\ job'[t].text = job[t].text /\ job'[t].at = job[t].at + 1
              /\ job[t].at \in Nat
<1>1. /\ Progress(t) /\ InFrames(t) /\ Advances(t)
      /\ UNCHANGED <<buffer, texts, reused>>
  BY EmitProgress
<1>2. job[t] \in Jobs
  BY DEF SenderTypes
<1>3. CASE Finished(t) /\ job'[t] = NoJob
  <2>1. job'[t].step = "idle"
    BY <1>3 DEF NoJob
  <2>2. ~WaitsInBuffer(t)' /\ \A c, id : ~Inside(t, c, id)'
    BY <2>1 DEF WaitsInBuffer, Inside, InFrames
  <2> QED
    BY <1>1, <2>2, NoneEnteredBy
<1>4. CASE ~Finished(t) /\ Long(t)
           /\ Is(job'[t], Making(ChannelOf(t)), job[t].text, job[t].id, job[t].at + 1)
  <2>1. /\ job'[t].text = job[t].text /\ job'[t].id = job[t].id
        /\ job'[t].at = job[t].at + 1 /\ job'[t].step = Making(ChannelOf(t))
    BY <1>4 DEF Is
  <2>2. ChannelOf(t)' = ChannelOf(t) /\ Long(t)' = Long(t)
    BY <1>1, <2>1 DEF ChannelOf, Long, LengthOf
  <2>3. \A c, id : Inside(t, c, id)' => Inside(t, c, id)
    BY <1>1, <1>4, <2>1, <2>2 DEF Inside
  <2>4. ~WaitsInBuffer(t)'
    BY <2>1, <2>2 DEF WaitsInBuffer, Making
  <2> QED
    BY <1>1, <1>2, <1>4, <2>1, <2>3, <2>4, NoneEnteredBy DEF Jobs
<1> QED
  BY <1>1, <1>3, <1>4 DEF Advances

\* A frame that does not come leaves nothing behind that is not known.
LEMMA LostAlone ==
  ASSUME SenderTypes, JobsFit, NEW t \in Threads, EmitThen(t), Grows,
         job[t].text \in halved'
  PROVE  NoneAlone
<1>1. Progress(t) /\ UNCHANGED reused
  BY EmitProgress
<1>2. ASSUME NEW c \in Channels, NEW id \in 1 .. Ids, Inside(t, c, id)', Alone(t)'
      PROVE  Alone(t)
  <2>1. job'[t].text = job[t].text
    BY <1>2, EmitEnters
  <2>2. job[t].text \notin Spoiled' /\ job[t].text \notin Spoiled
    BY <1>2, <2>1, SpoiledGrows DEF Alone
  <2>3. job[t].text \notin reused
    BY <1>1, <2>2 DEF Spoiled
  <2> QED
    BY <2>2, <2>3 DEF Alone
<1> QED
  BY <1>1, <1>2, NoneAloneBy

LEMMA CleanLate ==
  ASSUME StreamsClean, NoneEnters, NoneAlone, SenderTypes, NetworkTypes, JobsFit,
         LatePackets, Grows, UNCHANGED <<streams, texts>>,
         NEW t \in Threads, NEW c \in Channels, NEW p, Gives(t, c, p),
         job[t].text \in halved',
         late' = [late EXCEPT ![c] = late[c] \cup {p}]
  PROVE  StreamsClean'
<1>0. TextsKept
  BY TextsSame
<1>1. ASSUME NEW u \in Threads, NEW d \in Channels, NEW id \in 1 .. Ids,
             Inside(u, d, id)', Alone(u)', NEW n, n = job'[u].text
      PROVE  Clean(d, id, n)'
  <2>1. Inside(u, d, id) /\ n = job[u].text /\ Alone(u)
    BY <1>1 DEF NoneEnters, NoneAlone
  <2>2. Clean(d, id, n) /\ n \in 1 .. Len(texts)
    BY <2>1, InsideFits DEF StreamsClean
  <2> QED
    BY <1>0, <2>2, SameClean
<1>2. \A d \in Channels : \A q \in late'[d] : q \in late[d] \/ (d = c /\ q = p)
  BY DEF NetworkTypes
<1>3. ASSUME NEW d \in Channels, NEW q \in late'[d], q.kind # "plain",
             q.text \notin Spoiled'
      PROVE  Clean(d, q.id, q.text)'
  <2>0. q.text \notin Spoiled
    BY <1>3, SpoiledGrows
  <2>1. CASE q \in late[d]
    <3>1. Clean(d, q.id, q.text) /\ q.text \in 1 .. Len(texts)
      BY <1>3, <2>0, <2>1 DEF StreamsClean, LatePackets, Made
    <3> QED
      BY <1>0, <3>1, SameClean
  <2>2. CASE d = c /\ q = p
    <3>0. p.text \notin crossed
      BY <2>0, <2>2 DEF Spoiled
    <3>1. /\ Inside(t, c, p.id) /\ p.text = job[t].text
          /\ job[t].text \in 1 .. Len(texts)
      BY <1>3, <2>2, <3>0 DEF Gives
    <3>2. c \in Channels /\ p.id \in 1 .. Ids /\ Alone(t)
      <4>1. job[t].text \notin Spoiled /\ job[t].text \notin reused
        BY <1>3, <2>0, <2>2, <3>1 DEF Spoiled, Grows
      <4> QED
        BY <3>1, <4>1, InsideFits DEF Alone
    <3>3. Clean(c, p.id, p.text)
      BY <3>1, <3>2 DEF StreamsClean
    <3> QED
      BY <1>0, <2>2, <3>1, <3>3, SameClean
  <2> QED
    BY <1>2, <2>1, <2>2
<1>4. ASSUME NEW u \in Threads, NEW d \in Channels, NEW id \in 1 .. Ids,
             Inside(u, d, id)', Alone(u)'
      PROVE  Clean(d, id, job[u].text)'
  BY <1>1, <1>4 DEF Clean
<1> QED
  BY <1>3, <1>4 DEF StreamsClean

LEMMA CleanEmit ==
  ASSUME StreamsClean, SenderTypes, NetworkTypes, JobsFit, LatePackets, IdsApart,
         NEW t \in Threads, Emit(t), NEW c, NEW p, Gives(t, c, p), Comes(c, p), Grows
  PROVE  StreamsClean'
<1>1. EmitThen(t) /\ Progress(t) /\ UNCHANGED <<late, texts, reused>>
  BY EmitProgress DEF Emit
<1>2. NoneEnters
  BY <1>1, EmitEnters
<1>3. crossed \subseteq Spoiled' /\ Made(p) /\ c \in Channels
  BY DEF Spoiled, Grows, Gives
<1>4. \/ p = Frame(t) /\ p.text = job[t].text /\ (p.kind # "plain" => Inside(t, c, p.id))
      \/ job[t].text \in crossed /\ p.text \in crossed
  BY DEF Gives
<1>5. p.kind # "plain" => p.id \in 1 .. Ids
  BY ComesFits
<1>6. ASSUME NEW u \in Threads, p.kind # "plain", Inside(u, c, p.id)
      PROVE  \/ p.text = job[u].text \/ p.text \in Spoiled'
             \/ job[u].text \in Spoiled'
  <2>1. CASE p.text \in crossed
    BY <1>3, <2>1
  <2>2. CASE p.text = job[t].text /\ Inside(t, c, p.id) /\ u # t
    <3>1. job[u].text \in crossed
      BY <1>3, <1>5, <1>6, <2>2 DEF IdsApart
    <3> QED
      BY <1>3, <3>1
  <2> QED
    BY <1>4, <1>6, <2>1, <2>2
<1>7. ASSUME NEW q \in late'[c], p.kind # "plain", q.kind # "plain",
             q.id = p.id
      PROVE  p.text = q.text \/ p.text \in Spoiled' \/ q.text \in Spoiled'
  <2>1. CASE p.text \in crossed
    BY <1>3, <2>1
  <2>2. CASE p.text = job[t].text /\ Inside(t, c, p.id)
    <3>1. q.text = p.text \/ p.text \in crossed
      <4>1. q \in late[c] /\ Inside(t, c, q.id)
        BY <1>1, <1>7, <2>2
      <4> QED
        BY <1>3, <1>7, <2>2, <4>1 DEF IdsApart
    <3> QED
      BY <1>3, <3>1
  <2> QED
    BY <1>4, <1>7, <2>1, <2>2
<1>8. ASSUME NEW u \in Threads, NEW d \in Channels, NEW id \in 1 .. Ids,
             Inside(u, d, id)', Alone(u)'
      PROVE  Alone(u) \/ (p.kind = "S" /\ d = c /\ id = p.id)
  <2>1. CASE u # t
    <3>1. job'[u] = job[u]
      BY <1>1, <2>1 DEF Progress, Same
    <3> QED
      BY <1>8, <3>1, AloneKept
  <2>2. CASE u = t /\ job[t].at # 0
    <3>1. job'[t].text = job[t].text
      BY <1>1, <1>8, <2>2, EmitEnters
    <3> QED
      BY <1>8, <2>2, <3>1, AloneKept
  <2>3. CASE u = t /\ job[t].at = 0
    <3>1. Inside(t, d, id) /\ job'[t].text = job[t].text /\ Long(t)
      BY <1>1, <1>8, <2>3, EmitEnters
    <3>2. job[t].text \notin crossed
      BY <1>8, <2>3, <3>1 DEF Alone, Spoiled, Grows
    <3>3. p = Frame(t) /\ p.id = job[t].id /\ c = ChannelOf(t)
      BY <3>1, <3>2 DEF Gives
    <3>4. p.kind = "S"
      BY <2>3, <3>1, <3>3, GivenAt
    <3> QED
      BY <3>1, <3>3, <3>4 DEF Inside
  <2> QED
    BY <2>1, <2>2, <2>3
<1>9. \A d \in Channels : late'[d] \subseteq late[d]
  BY <1>1
<1> QED
  BY <1>1, <1>2, <1>3, <1>6, <1>7, <1>8, <1>9, CleanComes

LEMMA CleanArrive ==
  ASSUME StreamsClean, SenderTypes, NetworkTypes, JobsFit, LatePackets, IdsApart,
         NEW c \in Channels, NEW p \in late[c], Arrive(c, p), Comes(c, p), Grows,
         \A u \in Threads : Same(u)
  PROVE  StreamsClean'
<1>1. UNCHANGED <<job, texts>> /\ late' = [late EXCEPT ![c] = late[c] \ {p}]
  BY DEF Arrive
<1>2. NoneEnters
  BY <1>1, OthersInside DEF NoneEnters
<1>3. \A d \in Channels : late'[d] \subseteq late[d]
  BY <1>1 DEF NetworkTypes
<1>4. Made(p) /\ c \in Channels
  BY DEF LatePackets, Channels
<1>5. Spoiled \subseteq Spoiled'
  BY SpoiledGrows
<1>6. ASSUME NEW u \in Threads, p.kind # "plain", Inside(u, c, p.id)
      PROVE  p.text = job[u].text \/ p.text \in Spoiled' \/ job[u].text \in Spoiled'
  BY <1>5, <1>6 DEF IdsApart, Spoiled
<1>7. ASSUME NEW q \in late'[c], p.kind # "plain", q.kind # "plain", q.id = p.id
      PROVE  p.text = q.text \/ p.text \in Spoiled' \/ q.text \in Spoiled'
  <2>1. q \in late[c]
    BY <1>3
  <2> QED
    BY <1>5, <1>7, <2>1 DEF IdsApart, Spoiled
<1>8. ASSUME NEW u \in Threads, NEW d \in Channels, NEW id \in 1 .. Ids,
             Inside(u, d, id)', Alone(u)'
      PROVE  Alone(u)
  <2>1. job'[u] = job[u]
    BY <1>1
  <2> QED
    BY <1>8, <2>1, AloneKept
<1> QED
  BY <1>1, <1>2, <1>3, <1>4, <1>6, <1>7, <1>8, CleanComes

-----------------------------------------------------------------------------
(* What the console holds of a text that has met nothing.                  *)

LEMMA UnhurtBefore ==
  ASSUME Grows, NEW n, Unhurt(n)'
  PROVE  Unhurt(n)
BY DEF Grows, Unhurt

\* No sender that has met nothing gets further, and its stream is not touched.
StaysAt(t, c, id) ==
  /\ Inside(t, c, id) /\ job'[t].text = job[t].text /\ job'[t].at = job[t].at
  /\ streams'[c][id] = streams[c][id]
NoneFurther ==
  \A t \in Threads : \A c \in Channels : \A id \in 1 .. Ids :
    Inside(t, c, id)' /\ job'[t].at >= 1 /\ Unhurt(job[t].text)' => StaysAt(t, c, id)

LEMMA ExactStays ==
  ASSUME StreamsExact, Grows, NEW t \in Threads, NEW c \in Channels,
         NEW id \in 1 .. Ids,
         StaysAt(t, c, id), job'[t].at >= 1, Unhurt(job[t].text)'
  PROVE  streams'[c][id] = [k \in 1 .. job'[t].at - 1 |-> job'[t].text]
<1> DEFINE n == job[t].text
           m == job[t].at
<1>1. /\ Inside(t, c, id) /\ job'[t].text = n /\ job'[t].at = m
      /\ streams'[c][id] = streams[c][id]
  BY DEF StaysAt
<1>2. n \notin crossed \cup halved
  BY <1>1 DEF Unhurt, Grows
<1>3. Unhurt(job[t].text)
  BY <1>2 DEF Unhurt
<1>4. streams[c][id] = [k \in 1 .. m - 1 |-> n]
  BY <1>1, <1>3 DEF StreamsExact
<1> QED
  BY <1>1, <1>4

LEMMA ExactKept ==
  ASSUME StreamsExact, Grows, NoneFurther
  PROVE  StreamsExact'
<1> SUFFICES ASSUME NEW t \in Threads, NEW c \in Channels, NEW id \in 1 .. Ids,
                    Inside(t, c, id)', job'[t].at >= 1, Unhurt(job[t].text)'
             PROVE  streams'[c][id] = [k \in 1 .. job'[t].at - 1 |-> job'[t].text]
  BY DEF StreamsExact
<1>1. StaysAt(t, c, id)
  BY DEF NoneFurther
<1> QED
  BY <1>1, ExactStays

LEMMA NoneFurtherBy ==
  ASSUME NEW t \in Threads, Progress(t), UNCHANGED streams,
         \A c \in Channels : \A id \in 1 .. Ids :
           Inside(t, c, id)' /\ job'[t].at >= 1 /\ Unhurt(job[t].text)' =>
             StaysAt(t, c, id)
  PROVE  NoneFurther
<1>1. ASSUME NEW u \in Threads \ {t}, NEW c, NEW id, Inside(u, c, id)'
      PROVE  StaysAt(u, c, id)
  <2>1. Inside(u, c, id) /\ job'[u] = job[u]
    BY <1>1, OthersInside DEF Progress
  <2> QED
    BY <2>1 DEF StaysAt
<1> QED
  BY <1>1 DEF NoneFurther

LEMMA LostFurther ==
  ASSUME SenderTypes, JobsFit, NEW t \in Threads, EmitThen(t), Grows,
         UNCHANGED streams, job[t].text \in halved'
  PROVE  NoneFurther
<1>1. Progress(t)
  BY EmitProgress
<1>2. ASSUME NEW c \in Channels, NEW id \in 1 .. Ids, Inside(t, c, id)',
             Unhurt(job[t].text)'
      PROVE  FALSE
  <2>1. job'[t].text = job[t].text
    BY <1>2, EmitEnters
  <2> QED
    BY <1>2, <2>1 DEF Unhurt
<1> QED
  BY <1>1, <1>2, NoneFurtherBy

LEMMA ArriveFurther ==
  ASSUME NetworkTypes, LatePackets, IdsApart, NEW c \in Channels, NEW p \in late[c],
         Arrive(c, p), Comes(c, p), Grows, \A u \in Threads : Same(u)
  PROVE  NoneFurther
<1>1. UNCHANGED <<job, crossed, reused, halved>>
  BY DEF Arrive
<1>2. ASSUME NEW u \in Threads, NEW d \in Channels, NEW id \in 1 .. Ids,
             Inside(u, d, id)', Unhurt(job[u].text)'
      PROVE  StaysAt(u, d, id)
  <2>1. Inside(u, d, id)
    BY <1>2, OthersInside
  <2>2. job[u].text \notin crossed \cup halved
    BY <1>1, <1>2 DEF Unhurt
  <2>3. ~(p.kind # "plain" /\ d = c /\ id = p.id)
    <3>1. p.text \in halved
      BY DEF LatePackets
    <3>2. ASSUME p.kind # "plain", d = c, id = p.id
          PROVE  p.text = job[u].text \/ job[u].text \in crossed
      BY <2>1, <3>2 DEF IdsApart
    <3> QED
      BY <2>2, <3>1, <3>2
  <2>4. streams'[d][id] = streams[d][id]
    BY <2>3, OtherStreams
  <2> QED
    BY <1>1, <2>1, <2>4 DEF StaysAt
<1> QED
  BY <1>2 DEF NoneFurther

LEMMA StoredExact ==
  ASSUME NEW n \in Nat, NEW m \in Nat, NEW s, s = [k \in 1 .. m |-> n]
  PROVE  Stored(s, m, n) = [k \in 1 .. m + 1 |-> n]
<1>1. s \in Seq(Nat) /\ Len(s) = m
  OBVIOUS
<1>2. Stored(s, m, n) = [k \in 1 .. m + 1 |->
         IF k = m + 1 THEN n ELSE IF k <= m THEN s[k] ELSE 0]
  BY <1>1 DEF Stored
<1>3. \A k \in 1 .. m + 1 :
        (IF k = m + 1 THEN n ELSE IF k <= m THEN s[k] ELSE 0) = n
  OBVIOUS
<1> QED
  BY <1>2, <1>3

\* Each frame of its own adds its chunk, and nothing else touches the stream.
LEMMA ExactEmit ==
  ASSUME StreamsExact, SenderTypes, NetworkTypes, JobsFit, IdsApart,
         NEW t \in Threads, Emit(t), NEW c, NEW p, Gives(t, c, p), Comes(c, p), Grows
  PROVE  StreamsExact'
<1>1. EmitThen(t) /\ Progress(t) /\ UNCHANGED <<texts, reused, halved>>
      /\ crossed' = crossed \cup Meets(t)
  BY EmitProgress DEF Emit
<1>2. c \in Channels /\ c = ChannelOf(t) /\ p = Sent(t)
      /\ (p = Frame(t) \/ job[t].text \in crossed)
  BY DEF Gives
<1>3. ASSUME NEW u \in Threads \ {t}, NEW d \in Channels, NEW id \in 1 .. Ids,
             Inside(u, d, id)', Unhurt(job[u].text)'
      PROVE  StaysAt(u, d, id)
  <2>1. Inside(u, d, id) /\ job'[u] = job[u]
    BY <1>1, <1>3, OthersInside DEF Progress
  <2>2. job[u].text \notin crossed'
    BY <1>3, <2>1 DEF Unhurt
  <2>3. ~(p.kind # "plain" /\ d = c /\ id = p.id)
    <3> SUFFICES ASSUME p.kind # "plain", d = c, id = p.id PROVE FALSE
      OBVIOUS
    <3>1. CASE p = Frame(t)
      <4>1. Inside(t, d, id)
        BY <3>1 DEF Gives
      <4>2. job[u].text \in crossed
        BY <2>1, <4>1 DEF IdsApart
      <4> QED
        BY <2>2, <4>2 DEF Grows
    <3>2. CASE p # Frame(t)
      <4>1. Meets(t) = Open(c, id)
        BY <1>2, <3>2 DEF Meets
      <4>2. job[u].text \in Open(c, id)
        BY <2>1 DEF Open, Inside, InFrames
      <4> QED
        BY <1>1, <2>2, <4>1, <4>2
    <3> QED
      BY <3>1, <3>2
  <2>4. streams'[d][id] = streams[d][id]
    BY <2>3, OtherStreams
  <2> QED
    BY <2>1, <2>4 DEF StaysAt
<1>4. ASSUME NEW d \in Channels, NEW id \in 1 .. Ids,
             Inside(t, d, id)', Unhurt(job[t].text)',
             NEW n, n = job[t].text, NEW m, m = job[t].at
      PROVE  /\ streams'[d][id] = [k \in 1 .. m |-> n]
             /\ job'[t].text = n /\ job'[t].at - 1 = m
  <2>1. /\ Inside(t, d, id) /\ ~Finished(t) /\ Long(t) /\ m \in Nat
        /\ job'[t].text = n /\ job'[t].at = m + 1
    BY <1>1, <1>4, EmitEnters
  <2>2. n \notin crossed' \cup halved'
    BY <1>4, <2>1 DEF Unhurt
  <2>3. p = Frame(t) /\ d = c /\ id = p.id /\ p.kind # "plain" /\ p.text = n
    <3>1. p = Frame(t)
      BY <1>2, <1>4, <2>2 DEF Grows
    <3> QED
      BY <1>2, <1>4, <2>1, <3>1 DEF Gives, Inside
  <2>4. CASE m = 0
    <3>1. p.kind = "S"
      BY <1>4, <2>1, <2>3, <2>4, GivenAt
    <3>2. streams'[d][id] = <<>>
      BY <2>3, <3>1, ThatStream
    <3>3. <<>> = [k \in 1 .. 0 |-> n]
      OBVIOUS
    <3> QED
      BY <2>1, <2>4, <3>2, <3>3
  <2>5. CASE m # 0
    <3>1. p.kind # "S" /\ p.kind # "E"
      BY <1>4, <2>1, <2>3, <2>5, GivenAt DEF Finished
    <3>2. p.kind = "C" /\ p.seq = m - 1
      BY <1>4, <2>1, <2>3, <3>1, GivenAt, ComesFits DEF Kinds
    <3>3. Unhurt(job[t].text)
      BY <1>4, <2>2 DEF Unhurt, Grows
    <3>4. streams[d][id] = [k \in 1 .. m - 1 |-> n]
      BY <1>4, <2>1, <2>5, <3>3 DEF StreamsExact
    <3>5. n \in Nat /\ m - 1 \in Nat
      BY <1>4, <2>1, <2>5, InsideFits
    <3>6. streams[d][id] \in Seq(Nat)
      BY <3>4, <3>5
    <3>7. Received(c, p.id) = streams[d][id]
      BY <2>3, <3>6, NoneAssumption DEF Received
    <3>8. streams'[d][id] = Stored(streams[d][id], m - 1, n)
      BY <2>3, <3>2, <3>7, ThatStream
    <3>9. Stored(streams[d][id], m - 1, n) = [k \in 1 .. (m - 1) + 1 |-> n]
      BY <3>4, <3>5, StoredExact
    <3> QED
      BY <2>1, <3>5, <3>8, <3>9
  <2> QED
    BY <2>1, <2>4, <2>5
<1>5. ASSUME NEW u \in Threads, NEW d \in Channels, NEW id \in 1 .. Ids,
             Inside(u, d, id)', job'[u].at >= 1, Unhurt(job[u].text)'
      PROVE  streams'[d][id] = [k \in 1 .. job'[u].at - 1 |-> job'[u].text]
  <2>1. CASE u # t
    <3>1. StaysAt(u, d, id)
      BY <1>3, <1>5, <2>1
    <3> QED
      BY <1>5, <3>1, ExactStays
  <2>2. CASE u = t
    <3> DEFINE n == job[t].text
               m == job[t].at
    <3>1. streams'[d][id] = [k \in 1 .. m |-> n] /\ job'[t].text = n /\ job'[t].at - 1 = m
      BY <1>4, <1>5, <2>2
    <3> QED
      BY <2>2, <3>1
  <2> QED
    BY <2>1, <2>2
<1> QED
  BY <1>5 DEF StreamsExact

-----------------------------------------------------------------------------
(* What the console puts together.                                         *)

\* A clean stream with all of its chunks is its text.
LEMMA JoinedClean ==
  ASSUME NEW s \in Seq(Nat), NEW n \in Nat \ {0}, NEW m \in Nat, Complete(s, m),
         \A k \in DOMAIN s : s[k] = 0 \/ (s[k] = n /\ k <= m)
  PROVE  Joined(s) = [k \in 1 .. m |-> n]
<1>1. Len(s) \in Nat /\ DOMAIN s = 1 .. Len(s)
  OBVIOUS
<1>2. \A k \in 1 .. m : k <= Len(s) /\ s[k] # 0
  BY DEF Complete
<1> DEFINE there == {k \in DOMAIN s : s[k] # 0}
<1>3. there = 1 .. m
  <2>1. ASSUME NEW k \in there PROVE k \in 1 .. m
    BY <1>1
  <2>2. ASSUME NEW k \in 1 .. m PROVE k \in there
    BY <1>1, <1>2
  <2> QED
    BY <2>1, <2>2
<1>4. \A k \in 1 .. m : s[k] = n
  BY <1>3
<1> QED
  BY <1>3, <1>4 DEF Joined

LEMMA WholeKept ==
  ASSUME WholeOrNothing, AssembledFits, TextsKept, Grows,
         NEW c \in Channels, NEW d \in assembled[c]
  PROVE  /\ d.by \in 1 .. Len(texts')
         /\ \/ texts'[d.by].chan = c /\ d.chunks = Whole(d.by)'
            \/ d.by \in Spoiled'
            \/ \E k \in DOMAIN d.chunks : d.chunks[k] \in Spoiled'
<1>1. /\ d.by \in 1 .. Len(texts') /\ texts'[d.by] = texts[d.by]
      /\ Spoiled \subseteq Spoiled'
  BY SpoiledGrows DEF AssembledFits, TextsKept
<1>2. Whole(d.by)' = Whole(d.by)
  BY <1>1 DEF Whole
<1>3. \/ texts[d.by].chan = c /\ d.chunks = Whole(d.by)
      \/ d.by \in Spoiled
      \/ \E k \in DOMAIN d.chunks : d.chunks[k] \in Spoiled
  BY DEF WholeOrNothing
<1> QED
  BY <1>1, <1>2, <1>3

LEMMA WholeStays ==
  ASSUME WholeOrNothing, AssembledFits, TextsKept, Grows, UNCHANGED assembled
  PROVE  WholeOrNothing' /\ AssembledFits'
BY WholeKept DEF WholeOrNothing, AssembledFits

\* What a packet makes the console put together.
LEMMA WholeComes ==
  ASSUME WholeOrNothing, AssembledFits, SenderTypes, NetworkTypes, Grows,
         UNCHANGED texts, NEW c, NEW p, Comes(c, p), Made(p),
         \/ p.text \in Spoiled'
         \/ /\ texts[p.text].chan = c
            /\ p.kind = "plain" => texts[p.text].length = 0
            /\ p.kind = "E" => Clean(c, p.id, p.text)
  PROVE  WholeOrNothing' /\ AssembledFits'
<1>1. TextsKept /\ c \in Channels /\ DOMAIN assembled = Channels
  BY TextsSame DEF Comes, NetworkTypes
<1>2. p.text \in 1 .. Len(texts) /\ p.text \in Nat \ {0} /\ Len(texts) \in Nat
      /\ texts[p.text].length \in Nat
  BY <1>1, TextRead DEF Made, TextsKept
<1>3. ASSUME NEW e \in Channels, NEW d \in assembled'[e], d \notin assembled[e]
      PROVE  /\ e = c /\ d.by = p.text
             /\ \/ p.kind = "plain" /\ d.chunks = <<p.text>>
                \/ /\ p.kind = "E" /\ d.chunks = Joined(streams[c][p.id])
                   /\ streams[c][p.id] # None /\ Complete(streams[c][p.id], p.seq)
  <2>1. \/ UNCHANGED assembled
        \/ Assemble(c, <<p.text>>, p) /\ p.kind = "plain"
        \/ Assemble(c, Joined(streams[c][p.id]), p) /\ p.kind = "E"
           /\ streams[c][p.id] # None /\ Complete(streams[c][p.id], p.seq)
    BY DEF Comes, Handle
  <2>2. ASSUME NEW chunks, Assemble(c, chunks, p)
        PROVE  e = c /\ d = [chunks |-> chunks, by |-> p.text]
    BY <1>1, <1>3, <2>2 DEF Assemble
  <2> QED
    BY <1>3, <2>1, <2>2
<1>4. ASSUME NEW d, d.by = p.text, p.text \notin Spoiled',
             \/ p.kind = "plain" /\ d.chunks = <<p.text>>
             \/ /\ p.kind = "E" /\ d.chunks = Joined(streams[c][p.id])
                /\ streams[c][p.id] # None /\ Complete(streams[c][p.id], p.seq)
      PROVE  \/ texts[d.by].chan = c /\ d.chunks = Whole(d.by)
             \/ \E k \in DOMAIN d.chunks : d.chunks[k] \in Spoiled'
  <2>1. CASE p.kind = "plain"
    <3>1. Whole(p.text) = [k \in 1 .. 1 |-> p.text]
      BY <1>4, <2>1 DEF Whole
    <3>2. <<p.text>> = [k \in 1 .. 1 |-> p.text]
      OBVIOUS
    <3> QED
      BY <1>4, <2>1, <3>1, <3>2
  <2>2. CASE p.kind = "E"
    <3> DEFINE s == streams[c][p.id]
               m == texts[p.text].length
    <3>1. p.id \in 1 .. Ids /\ p.seq = m /\ m > 0 /\ m \in Nat
      BY <1>2, <1>4, <2>2, ComesFits DEF Made, Spoiled, Grows
    <3>2. s # None /\ s \in Seq(Nat) \cup {None}
      BY <1>1, <1>4, <2>2, <3>1 DEF NetworkTypes
    <3>3. s \in Seq(Nat) /\ Complete(s, m) /\ d.chunks = Joined(s)
      BY <1>4, <2>2, <3>1, <3>2
    <3>4. Clean(c, p.id, p.text) /\ texts[p.text].chan = c
      BY <1>4, <2>2
    <3>5. \A k \in DOMAIN s : \/ s[k] = 0 \/ s[k] \in Spoiled
                              \/ s[k] = p.text /\ k <= m
      BY <3>2, <3>4 DEF Clean
    <3>6. CASE \E k \in DOMAIN s : s[k] # 0 /\ s[k] \in Spoiled
      <4>1. PICK k \in DOMAIN s : s[k] # 0 /\ s[k] \in Spoiled
        BY <3>6
      <4>2. k \in DOMAIN Joined(s) /\ Joined(s)[k] = s[k]
        BY <4>1 DEF Joined
      <4>3. s[k] \in Spoiled'
        BY <4>1, SpoiledGrows
      <4> QED
        BY <3>3, <4>2, <4>3
    <3>7. CASE \A k \in DOMAIN s : s[k] = 0 \/ (s[k] = p.text /\ k <= m)
      <4>1. Joined(s) = [k \in 1 .. m |-> p.text]
        BY <1>2, <3>1, <3>3, <3>7, JoinedClean
      <4>2. Whole(p.text) = [k \in 1 .. m |-> p.text]
        BY <3>1 DEF Whole
      <4> QED
        BY <1>4, <3>3, <3>4, <4>1, <4>2
    <3> QED
      BY <3>5, <3>6, <3>7
  <2> QED
    BY <1>4, <2>1, <2>2
<1>5. ASSUME NEW e \in Channels, NEW d \in assembled'[e]
      PROVE  /\ d.by \in 1 .. Len(texts')
             /\ \/ texts'[d.by].chan = e /\ d.chunks = Whole(d.by)'
                \/ d.by \in Spoiled'
                \/ \E k \in DOMAIN d.chunks : d.chunks[k] \in Spoiled'
  <2>1. CASE d \in assembled[e]
    BY <1>1, <2>1, WholeKept
  <2>2. CASE d \notin assembled[e]
    <3>1. /\ e = c /\ d.by = p.text
          /\ \/ p.kind = "plain" /\ d.chunks = <<p.text>>
             \/ /\ p.kind = "E" /\ d.chunks = Joined(streams[c][p.id])
                /\ streams[c][p.id] # None /\ Complete(streams[c][p.id], p.seq)
      BY <1>3, <2>2
    <3>2. Whole(d.by)' = Whole(d.by)
      BY DEF Whole
    <3>3. \/ texts[d.by].chan = c /\ d.chunks = Whole(d.by)
          \/ d.by \in Spoiled'
          \/ \E k \in DOMAIN d.chunks : d.chunks[k] \in Spoiled'
      BY <1>4, <3>1
    <3> QED
      BY <1>2, <3>1, <3>2, <3>3
  <2> QED
    BY <2>1, <2>2
<1> QED
  BY <1>5 DEF WholeOrNothing, AssembledFits

-----------------------------------------------------------------------------
(* What was sent.                                                          *)

\* Text n has met a fault or another thread, or is assembled.
Settled(n) ==
  LET c == texts[n].chan
  IN  \/ n \in crossed \cup halved
      \/ [chunks |-> Whole(n), by |-> n] \in assembled[c]
Sending(n) == \E t \in Threads : Busy(t) /\ job[t].text = n

LEMMA SettledKept ==
  ASSUME NEW n \in 1 .. Len(texts), Settled(n), TextsKept, Grows, SenderTypes,
         \A c \in Channels : assembled[c] \subseteq assembled'[c]
  PROVE  Settled(n)'
<1>1. texts'[n] = texts[n] /\ texts[n].chan \in Channels
  BY TextRead DEF TextsKept
<1>2. Whole(n)' = Whole(n)
  BY <1>1 DEF Whole
<1> QED
  BY <1>1, <1>2 DEF Settled, Grows

\* The one thread that a step moves goes on with its text or settles it.
LEMMA SentKept ==
  ASSUME SentIsAssembled, SenderTypes, NEW t \in Threads, Progress(t), UNCHANGED texts,
         \A c \in Channels : assembled[c] \subseteq assembled'[c],
         NEW n, n = job[t].text,
         (Busy(t)' /\ job'[t].text = n) \/ Settled(n)'
  PROVE  SentIsAssembled'
<1>1. TextsKept /\ Grows
  BY DEF Progress
<1>2. ASSUME NEW m \in 1 .. Len(texts') PROVE Settled(m)' \/ Sending(m)'
  <2>1. m \in 1 .. Len(texts) /\ (Settled(m) \/ Sending(m))
    BY DEF SentIsAssembled, Settled, Sending, Busy
  <2>2. CASE Settled(m)
    BY <1>1, <2>1, <2>2, SettledKept
  <2>3. CASE Sending(m)
    <3>1. PICK u \in Threads : Busy(u) /\ job[u].text = m
      BY <2>3 DEF Sending
    <3>2. CASE u = t
      BY <3>1, <3>2 DEF Sending
    <3>3. CASE u # t
      <4>1. Busy(u)' /\ job'[u].text = m
        BY <3>1, <3>3 DEF Progress, Same
      <4> QED
        BY <4>1 DEF Sending
    <3> QED
      BY <3>2, <3>3
  <2> QED
    BY <2>1, <2>2, <2>3
<1> QED
  BY <1>2 DEF SentIsAssembled, Settled, Sending, Busy

LEMMA SentBegins ==
  ASSUME SentIsAssembled, SenderTypes, JobsFit, NEW t \in Threads, NEW c \in Channels,
         NEW l \in Lengths, NEW f \in BOOLEAN, Begin(t, c, l, f)
  PROVE  SentIsAssembled'
<1>1. /\ Progress(t) /\ ~Busy(t)
      /\ Is(job'[t], IF l = 0 THEN "emit" ELSE "bump", Len(texts) + 1, 0, 0)
      /\ Len(texts') = Len(texts) + 1
  BY BeginProgress
<1>2. TextsKept /\ Grows /\ UNCHANGED assembled
  BY <1>1 DEF Progress, Begin, network
<1>3. Busy(t)' /\ job'[t].text = Len(texts) + 1
  BY <1>1 DEF Is, Busy
<1>4. ASSUME NEW m \in 1 .. Len(texts') PROVE Settled(m)' \/ Sending(m)'
  <2>1. CASE m = Len(texts) + 1
    BY <1>3, <2>1 DEF Sending
  <2>2. CASE m \in 1 .. Len(texts)
    <3>1. Settled(m) \/ Sending(m)
      BY <2>2 DEF SentIsAssembled, Settled, Sending, Busy
    <3>2. CASE Settled(m)
      BY <1>2, <2>2, <3>2, SettledKept
    <3>3. CASE Sending(m)
      <4>1. PICK u \in Threads : Busy(u) /\ job[u].text = m
        BY <3>3 DEF Sending
      <4>2. Busy(u)' /\ job'[u].text = m
        BY <1>1, <4>1 DEF Progress, Same
      <4> QED
        BY <4>2 DEF Sending
    <3> QED
      BY <3>1, <3>2, <3>3
  <2>3. Len(texts) \in Nat
    BY <1>2 DEF TextsKept
  <2> QED
    BY <1>1, <2>1, <2>2, <2>3
<1> QED
  BY <1>4 DEF SentIsAssembled, Settled, Sending, Busy

LEMMA AssembledGrows ==
  ASSUME NetworkTypes, NEW c, NEW p, Comes(c, p)
  PROVE  \A d \in Channels : assembled[d] \subseteq assembled'[d]
<1>1. \/ UNCHANGED assembled
      \/ \E chunks : Assemble(c, chunks, p)
  BY DEF Comes, Handle
<1> QED
  BY <1>1 DEF NetworkTypes, Assemble

\* The last frame of a text that has met nothing has it assembled.
LEMMA EmitSettles ==
  ASSUME StreamsExact, SenderTypes, NetworkTypes, JobsFit,
         NEW t \in Threads, Emit(t), NEW c, NEW p, Gives(t, c, p), Comes(c, p), Grows,
         Finished(t), NEW n, n = job[t].text
  PROVE  Settled(n)'
<1>1. UNCHANGED texts /\ c = ChannelOf(t) /\ n \in 1 .. Len(texts) /\ c \in Channels
      /\ LengthOf(t) \in Nat /\ DOMAIN assembled = Channels
  BY DEF Emit, EmitThen, Gives, NetworkTypes
<1>2. texts[n].chan = c /\ texts[n].length = LengthOf(t)
  BY <1>1 DEF ChannelOf, LengthOf
<1>3. Whole(n)' = Whole(n) /\ texts'[n].chan = c
  BY <1>1, <1>2 DEF Whole
<1> SUFFICES ASSUME n \notin crossed' \cup halved'
             PROVE  [chunks |-> Whole(n), by |-> n] \in assembled'[c]
  BY <1>3 DEF Settled
<1>4. p = Frame(t) /\ p.text = n /\ Unhurt(n)
  BY DEF Gives, Grows, Unhurt
<1>5. ASSUME NEW chunks, chunks = Whole(n), Assemble(c, chunks, p)
      PROVE  [chunks |-> Whole(n), by |-> n] \in assembled'[c]
  BY <1>1, <1>4, <1>5 DEF Assemble
<1>6. CASE ~Long(t)
  <2>1. p.kind = "plain"
    BY <1>4, <1>6 DEF Gives
  <2>2. Assemble(c, <<n>>, p)
    BY <1>4, <2>1 DEF Comes, Handle
  <2>3. LengthOf(t) = 0
    BY <1>1, <1>6 DEF Long
  <2>4. Whole(n) = [k \in 1 .. 1 |-> n]
    BY <1>2, <2>3 DEF Whole
  <2>5. <<n>> = [k \in 1 .. 1 |-> n]
    OBVIOUS
  <2> QED
    BY <1>5, <2>2, <2>4, <2>5
<1>7. CASE Long(t)
  <2> DEFINE m == LengthOf(t)
  <2>1. m \in Nat /\ m > 0 /\ job[t].at = m + 1
    BY <1>1, <1>7 DEF Long, Finished
  <2>2. p.kind = "E" /\ p.seq = m
    BY <1>4, <1>7, <2>1, GivenAt
  <2>3. Inside(t, c, p.id) /\ p.id \in 1 .. Ids
    BY <1>4, <2>2, ComesFits DEF Gives
  <2> DEFINE s == streams[c][p.id]
  <2>4. s = [k \in 1 .. m |-> n]
    <3>1. s = [k \in 1 .. job[t].at - 1 |-> job[t].text]
      BY <1>1, <1>4, <2>1, <2>3 DEF StreamsExact
    <3>2. job[t].at - 1 = m
      BY <2>1
    <3> QED
      BY <3>1, <3>2
  <2>5. n \in Nat \ {0}
    BY <1>1, TextsSame DEF TextsKept
  <2>6. s \in Seq(Nat) /\ Len(s) = m
    BY <2>1, <2>4, <2>5
  <2>7. s # None /\ Complete(s, m)
    BY <2>1, <2>4, <2>5, <2>6, NoneAssumption DEF Complete
  <2>8. Assemble(c, Joined(s), p)
    BY <2>2, <2>7 DEF Comes, Handle
  <2>9. Joined(s) = [k \in 1 .. m |-> n]
    BY <2>1, <2>4, <2>5, <2>6, <2>7, JoinedClean
  <2>10. Whole(n) = [k \in 1 .. m |-> n]
    BY <1>2, <2>1 DEF Whole
  <2> QED
    BY <1>5, <2>8, <2>9, <2>10
<1> QED
  BY <1>6, <1>7

-----------------------------------------------------------------------------
(* The invariant, step by step.                                            *)

LEMMA InitInv ==
  ASSUME Init
  PROVE  StreamInv
<1>1. /\ nextId = [c \in Channels |-> 0] /\ buffer = None
      /\ job = [t \in Threads |-> NoJob] /\ late = [c \in Channels |-> {}]
      /\ streams = [c \in Channels |-> [id \in 1 .. Ids |-> None]]
      /\ texts = <<>> /\ assembled = [c \in Channels |-> {}]
  BY DEF Init, StreamInit
<1>2. \A t \in Threads : ~Busy(t) /\ ~InFrames(t) /\ ~WaitsInBuffer(t)
                         /\ ~Reads(t)
  BY <1>1 DEF NoJob, Busy, InFrames, WaitsInBuffer, Reads
<1>3. NetworkTypes
  <2>1. None \in Seq(Nat) \cup {None}
    OBVIOUS
  <2> QED
    BY <1>1, <2>1 DEF NetworkTypes
<1>4. SenderTypes
  <2>1. NoJob \in Jobs
    BY BoundsAssumption DEF NoJob, Jobs
  <2>2. texts \in Seq(Texts)
    BY <1>1
  <2> QED
    BY <1>1, <2>1, <2>2 DEF SenderTypes
<1>5. JobsFit
  BY <1>2 DEF JobsFit, JobFits
<1>6. LatePackets
  BY <1>1 DEF LatePackets
<1>7. BufferHolds /\ WordsHold
  BY <1>2 DEF BufferHolds, WordsHold
<1>8. \A t \in Threads : \A c, id : ~Inside(t, c, id)
  BY <1>2 DEF Inside
<1>9. IdsApart
  BY <1>1, <1>8 DEF IdsApart
<1>10. StreamsClean
  BY <1>1, <1>8 DEF StreamsClean
<1>11. StreamsExact
  BY <1>8 DEF StreamsExact
<1>12. AssembledFits /\ WholeOrNothing
  BY <1>1 DEF AssembledFits, WholeOrNothing
<1>13. SentIsAssembled
  BY <1>1 DEF SentIsAssembled
<1> QED
  BY <1>3, <1>4, <1>5, <1>6, <1>7, <1>9, <1>10, <1>11, <1>12, <1>13 DEF StreamInv

\* A step after which the console has what it had.
LEMMA QuietStep ==
  ASSUME StreamInv, TextsKept, Grows, SenderTypes', JobsFit', BufferHolds',
         WordsHold', NoneEnters, NoneAlone, NoneFurther, SentIsAssembled',
         UNCHANGED <<late, streams, assembled>>
  PROVE  StreamInv'
<1>1. /\ NetworkTypes /\ SenderTypes /\ JobsFit /\ LatePackets /\ IdsApart
      /\ StreamsClean /\ StreamsExact /\ AssembledFits /\ WholeOrNothing
  BY DEF StreamInv
<1>2. \A c \in Channels : late'[c] \subseteq late[c]
  OBVIOUS
<1>3. NetworkTypes'
  BY <1>1 DEF NetworkTypes
<1>4. LatePackets'
  BY <1>1, <1>2, LateKept
<1>5. IdsApart'
  BY <1>1, <1>2, ApartKept
<1>6. StreamsClean'
  BY <1>1, <1>2, CleanStays
<1>7. StreamsExact'
  BY <1>1, ExactKept
<1>8. AssembledFits' /\ WholeOrNothing'
  BY <1>1, WholeStays
<1> QED
  BY <1>3, <1>4, <1>5, <1>6, <1>7, <1>8 DEF StreamInv

LEMMA IdleStep ==
  ASSUME StreamInv, UNCHANGED sending
  PROVE  StreamInv'
<1>1. UNCHANGED <<nextId, buffer, job, late, streams, assembled, halved, texts,
                  crossed, reused>>
  BY DEF sending, network
<1>2. /\ SenderTypes /\ JobsFit /\ BufferHolds /\ WordsHold /\ SentIsAssembled
  BY DEF StreamInv
<1>3. TextsKept /\ Grows
  BY <1>1, <1>2, TextsSame DEF Grows
<1>4. ASSUME NEW t \in Threads PROVE Same(t)
  <2>1. Busy(t) => job[t].text \in 1 .. Len(texts)
    BY <1>2 DEF JobsFit, JobFits
  <2> QED
    BY <1>1, <1>3, <2>1, Unmoved
<1>5. NoneEnters /\ NoneAlone
  BY <1>1, <1>3, <1>4, OthersInside, AloneKept DEF NoneEnters, NoneAlone
<1>6. NoneFurther
  BY <1>1, <1>4, OthersInside DEF NoneFurther, StaysAt
<1>7. SenderTypes'
  BY <1>1, <1>2 DEF SenderTypes
<1>8. JobsFit'
  BY <1>1, <1>2 DEF JobsFit, JobFits, Busy, InFrames, Long, ChannelOf, LengthOf
<1>9. BufferHolds'
  BY <1>1, <1>2, <1>3, <1>4, BufferKept
<1>10. SentIsAssembled'
  BY <1>1, <1>2 DEF SentIsAssembled, Whole
<1>11. WordsHold'
  BY <1>1, <1>2, <1>3, <1>4, WordsKept DEF Same
<1> QED
  BY <1>1, <1>3, <1>5, <1>6, <1>7, <1>8, <1>9, <1>10, <1>11, QuietStep

LEMMA NoFrames ==
  ASSUME NEW t \in Threads, Progress(t), UNCHANGED streams,
         \A c \in Channels : \A id \in 1 .. Ids : ~Inside(t, c, id)'
  PROVE  NoneEnters /\ NoneAlone /\ NoneFurther
BY NoneEnteredBy, NoneAloneBy, NoneFurtherBy

LEMMA BeginStep ==
  ASSUME StreamInv, NEW t \in Threads, NEW c \in Channels, NEW l \in Lengths,
         NEW f \in BOOLEAN, Begin(t, c, l, f)
  PROVE  StreamInv'
<1>1. SenderTypes /\ JobsFit /\ BufferHolds /\ WordsHold /\ SentIsAssembled
  BY DEF StreamInv
<1> DEFINE n == Len(texts) + 1
<1>2. /\ Progress(t) /\ Is(job'[t], IF l = 0 THEN "emit" ELSE "bump", n, 0, 0)
      /\ texts'[n] = [chan |-> c, length |-> l, formatted |-> f] /\ Len(texts') = n
  BY <1>1, BeginProgress
<1>3. TextsKept /\ Grows /\ SenderTypes' /\ JobsFit' /\ \A u \in Threads \ {t} : Same(u)
  BY <1>2 DEF Progress
<1>4. UNCHANGED <<late, streams, assembled>>
  BY DEF Begin, network
<1>5. ChannelOf(t)' = c /\ LengthOf(t)' = l /\ job'[t].text = n
      /\ job'[t].step = IF l = 0 THEN "emit" ELSE "bump"
  <2>1. job'[t].text = n /\ job'[t].step = IF l = 0 THEN "emit" ELSE "bump"
    BY <1>2 DEF Is
  <2>2. ChannelOf(t)' = texts'[n].chan /\ LengthOf(t)' = texts'[n].length
    BY <2>1 DEF ChannelOf, LengthOf
  <2>3. texts'[n] = [chan |-> c, length |-> l, formatted |-> f]
    BY <1>2
  <2> QED
    BY <2>1, <2>2, <2>3
<1>6. l \in Nat /\ n \in Nat /\ n \in 1 .. n
  BY <1>1, <1>3, ChunksAssumption DEF Lengths, TextsKept
<1>7. \A d, id : ~Inside(t, d, id)'
  BY <1>5, <1>6 DEF Inside, InFrames, Long
<1>8. NoneEnters /\ NoneAlone /\ NoneFurther
  BY <1>2, <1>4, <1>7, NoFrames
<1>9. BufferHolds'
  <2>1. CASE f
    <3>1. buffer' = Plain(n) /\ Cross(n, Waiting(t) \cup Reading(t))
      BY <2>1 DEF Begin
    <3>2. ASSUME NEW p, p = Plain(n)
          PROVE  Made(p)' /\ p.text = n /\ p.kind = "plain"
      <4>1. p = [kind |-> "plain", id |-> 0, seq |-> 0, text |-> n]
        BY <3>2 DEF Plain, Packet
      <4> QED
        BY <1>2, <1>6, <4>1, BoundsAssumption DEF Made, Packets, Kinds
    <3>3. WaitsInBuffer(t)' => Frame(t)' = Plain(n)
      BY <1>5 DEF WaitsInBuffer, Frame
    <3>4. Waiting(t) \subseteq Waiting(t) \cup Reading(t)
      OBVIOUS
    <3> QED
      BY <1>3, <3>1, <3>2, <3>3, <3>4, BufferWritten
  <2>2. CASE ~f
    <3>1. UNCHANGED buffer
      BY <2>2 DEF Begin
    <3>2. ~WaitsInBuffer(t)'
      BY <1>2, <1>5, <1>6, <2>2 DEF WaitsInBuffer
    <3> QED
      BY <1>1, <1>3, <3>1, <3>2, BufferKept
  <2> QED
    BY <2>1, <2>2
<1>11. WordsHold'
  <2> SUFFICES ASSUME NEW u \in Threads, Reads(u)', NEW m \in job'[u].text .. Len(texts'),
                      texts'[m].formatted
               PROVE  m = job'[u].text \/ (job'[u].text \in crossed' /\ m \in crossed')
    BY DEF WordsHold
  <2>1. CASE u = t
    BY <1>2, <1>5, <1>6, <2>1
  <2>2. CASE u # t
    <3>1. Reads(u) /\ job'[u] = job[u] /\ job[u].text \in 1 .. Len(texts)
      BY <1>1, <1>3, <2>2 DEF Same, Reads, JobsFit, JobFits, Busy
    <3>2. CASE m = n
      <4>1. f
        BY <1>2, <3>2
      <4>2. Cross(n, Waiting(t) \cup Reading(t)) /\ job[u].text \in Reading(t)
        BY <2>2, <3>1, <4>1 DEF Begin, Reading
      <4> QED
        BY <3>1, <3>2, <4>2, CrossGrows
    <3>3. CASE m # n
      <4>1. m \in job[u].text .. Len(texts) /\ m \in 1 .. Len(texts)
        BY <1>2, <1>3, <3>1, <3>3 DEF TextsKept
      <4>2. texts[m].formatted
        BY <1>3, <4>1 DEF TextsKept
      <4> QED
        BY <1>1, <1>3, <3>1, <4>1, <4>2 DEF WordsHold, Grows
    <3> QED
      BY <3>2, <3>3
  <2> QED
    BY <2>1, <2>2
<1>10. SentIsAssembled'
  BY <1>1, SentBegins
<1> QED
  BY <1>3, <1>4, <1>8, <1>9, <1>10, <1>11, QuietStep

LEMMA BumpStep ==
  ASSUME StreamInv, NEW t \in Threads, Bump(t)
  PROVE  StreamInv'
<1>1. SenderTypes /\ JobsFit /\ BufferHolds /\ WordsHold /\ SentIsAssembled
  BY DEF StreamInv
<1>2. Progress(t) /\ job'[t].step = "draw"
  BY <1>1, BumpProgress
<1>3. TextsKept /\ Grows /\ SenderTypes' /\ JobsFit' /\ \A u \in Threads \ {t} : Same(u)
  BY <1>2 DEF Progress
<1>4. UNCHANGED <<buffer, late, streams, assembled, texts>>
  BY DEF Bump, network
<1>5. ~WaitsInBuffer(t)' /\ Busy(t)' /\ \A c, id : ~Inside(t, c, id)'
  BY <1>2 DEF WaitsInBuffer, Busy, Inside, InFrames
<1>6. NoneEnters /\ NoneAlone /\ NoneFurther
  BY <1>2, <1>4, <1>5, NoFrames
<1>7. BufferHolds'
  BY <1>1, <1>3, <1>4, <1>5, BufferKept
<1>8. job'[t].text = job[t].text
  BY <1>1 DEF Bump, SenderTypes, Jobs
<1>9. SentIsAssembled'
  BY <1>1, <1>2, <1>4, <1>5, <1>8, SentKept
<1>10. WordsHold'
  <2>1. job'[t].at = job[t].at /\ job[t].step = "bump"
    BY <1>1 DEF Bump, SenderTypes, Jobs
  <2>2. Reads(t)' => Reads(t)
    BY <1>4, <1>8, <2>1 DEF Reads, LengthOf
  <2> QED
    BY <1>1, <1>2, <1>4, <1>8, <2>2, WordsKeptBy
<1> QED
  BY <1>3, <1>4, <1>6, <1>7, <1>9, <1>10, QuietStep

LEMMA DrawStep ==
  ASSUME StreamInv, NEW t \in Threads, Draw(t)
  PROVE  StreamInv'
<1>1. /\ NetworkTypes /\ SenderTypes /\ JobsFit /\ LatePackets /\ BufferHolds
      /\ WordsHold /\ IdsApart /\ StreamsClean /\ StreamsExact
      /\ AssembledFits /\ WholeOrNothing /\ SentIsAssembled
  BY DEF StreamInv
<1> SUFFICES ASSUME NEW c, c = ChannelOf(t), NEW n, n = job[t].text,
                    NEW id, id = Wrapped(nextId[c])
             PROVE  StreamInv'
  OBVIOUS
<1>2. /\ Progress(t) /\ Is(job'[t], Making(c), n, id, 0) /\ ChannelOf(t)' = c
      /\ UNCHANGED <<buffer, late, streams, assembled, halved, texts>>
  BY <1>1, DrawProgress
<1>3. TextsKept /\ Grows /\ SenderTypes' /\ JobsFit' /\ \A u \in Threads \ {t} : Same(u)
  BY <1>2 DEF Progress
<1>4. job'[t].step = Making(c) /\ job'[t].text = n /\ job'[t].at = 0
  BY <1>2 DEF Is
<1>5. ~WaitsInBuffer(t)' /\ Busy(t)'
  BY <1>2, <1>4 DEF WaitsInBuffer, Busy, Making
<1>6. NetworkTypes'
  BY <1>1, <1>2 DEF NetworkTypes
<1>7. LatePackets'
  BY <1>1, <1>2, <1>3, LateKept
<1>8. BufferHolds'
  BY <1>1, <1>2, <1>3, <1>5, BufferKept
<1>9. IdsApart'
  BY <1>1, ApartDraw
<1>10. StreamsClean'
  BY <1>1, CleanDraw
<1>11. StreamsExact'
  <2>1. NoneFurther
    BY <1>2, <1>4, NoneFurtherBy
  <2> QED
    BY <1>1, <1>3, <2>1, ExactKept
<1>12. AssembledFits' /\ WholeOrNothing'
  BY <1>1, <1>2, <1>3, WholeStays
<1>13. SentIsAssembled'
  BY <1>1, <1>2, <1>4, <1>5, SentKept
<1>14. WordsHold'
  <2>1. job[t].step = "draw" /\ job[t].at = 0
    BY <1>1 DEF Draw, JobsFit, JobFits, Busy
  <2>2. Reads(t)' => Reads(t)
    BY <1>2, <1>4, <2>1 DEF Reads, LengthOf
  <2> QED
    BY <1>1, <1>2, <1>4, <2>2, WordsKeptBy
<1> QED
  BY <1>3, <1>6, <1>7, <1>8, <1>9, <1>10, <1>11, <1>12, <1>13, <1>14 DEF StreamInv

LEMMA FrameReads ==
  ASSUME SenderTypes, JobsFit, NEW t \in Threads, InFrames(t), Frame(t).kind = "C",
         texts[job[t].text].formatted
  PROVE  Reads(t)
<1>1. JobFits(t) /\ Busy(t)
  BY DEF JobsFit, Busy, InFrames
<1>2. LengthOf(t) \in Nat /\ job[t].at \in Nat
  BY <1>1, TextRead DEF JobFits, LengthOf, SenderTypes, Jobs
<1>3. LengthOf(t) # 0 /\ job[t].at <= LengthOf(t)
  BY DEF Frame, Plain, Packet
<1> QED
  BY <1>1, <1>2, <1>3 DEF Reads, Busy

LEMMA FormatStep ==
  ASSUME StreamInv, NEW t \in Threads, Format(t)
  PROVE  StreamInv'
<1>1. SenderTypes /\ JobsFit /\ BufferHolds /\ WordsHold /\ SentIsAssembled
  BY DEF StreamInv
<1> SUFFICES ASSUME NEW p, p = Frame(t) PROVE StreamInv'
  OBVIOUS
<1>2. /\ Progress(t) /\ InFrames(t) /\ Made(p) /\ p.text = job[t].text
      /\ Frame(t)' = p /\ Cross(job[t].text, Waiting(t))
      /\ \E n \in Words(t) : buffer' = [p EXCEPT !.text = n]
      /\ Is(job'[t], "emit", job[t].text, job[t].id, job[t].at)
      /\ ChannelOf(t)' = ChannelOf(t) /\ LengthOf(t)' = LengthOf(t)
      /\ UNCHANGED <<late, streams, assembled, halved, reused, texts>>
  BY <1>1, FormatProgress
<1>3. TextsKept /\ Grows /\ SenderTypes' /\ JobsFit' /\ \A u \in Threads \ {t} : Same(u)
  BY <1>2 DEF Progress
<1>4. /\ job'[t].step = "emit" /\ job'[t].text = job[t].text
      /\ job'[t].id = job[t].id /\ job'[t].at = job[t].at
  BY <1>2 DEF Is
<1>5. \A c, id : Inside(t, c, id)' => Inside(t, c, id)
  BY <1>2, <1>4 DEF Inside, Long
<1>6. NoneEnters
  BY <1>2, <1>4, <1>5, NoneEnteredBy
<1>7. NoneAlone
  BY <1>2, <1>3, <1>4, AloneKept, NoneAloneBy
<1>8. NoneFurther
  <2>1. \A c \in Channels : \A id \in 1 .. Ids : Inside(t, c, id)' => StaysAt(t, c, id)
    BY <1>2, <1>4, <1>5 DEF StaysAt
  <2> QED
    BY <1>2, <2>1, NoneFurtherBy
<1>9. BufferHolds'
  <2>1. PICK n \in Words(t) : buffer' = [p EXCEPT !.text = n]
    BY <1>2
  <2>2. job[t].text \in 1 .. Len(texts) /\ Len(texts) \in Nat /\ p \in Packets
    BY <1>2, <1>3 DEF Made, TextsKept
  <2>3. CASE n = job[t].text
    <3>1. buffer' = p
      BY <1>2, <2>1, <2>2, <2>3 DEF Packets
    <3>2. Made(p)'
      BY <1>2, <1>3, MadeKept
    <3> QED
      BY <1>2, <1>3, <3>1, <3>2, BufferWritten
  <2>4. CASE n # job[t].text
    <3>1. /\ p.kind = "C" /\ texts[job[t].text].formatted
          /\ n \in job[t].text .. Len(texts) /\ texts[n].formatted
      BY <1>2, <2>1, <2>4 DEF Words
    <3>2. Reads(t)
      BY <1>1, <1>2, <3>1, FrameReads
    <3>3. job[t].text \in crossed' /\ n \in crossed'
      BY <1>1, <1>3, <2>4, <3>1, <3>2 DEF WordsHold, Grows
    <3>4. n \in 1 .. Len(texts') /\ n \in Nat
      BY <1>2, <2>2, <3>1
    <3>5. ASSUME NEW q, q = [p EXCEPT !.text = n]
          PROVE  Made(q)' /\ q.text = n
      <4>1. q \in Packets /\ q.text = n /\ q.kind = p.kind /\ q.id = p.id
        BY <2>2, <3>4, <3>5 DEF Packets
      <4> QED
        BY <1>2, <3>3, <3>4, <4>1 DEF Made
    <3> QED
      BY <1>2, <1>3, <1>4, <2>1, <3>3, <3>5, BufferWritten
  <2> QED
    BY <2>3, <2>4
<1>10. SentIsAssembled'
  BY <1>1, <1>2, <1>4, SentKept DEF Busy
<1>11. WordsHold'
  <2>1. job[t].step = "format"
    BY DEF Format
  <2>2. Reads(t)' => Reads(t)
    BY <1>2, <1>4, <2>1 DEF Reads
  <2> QED
    BY <1>1, <1>2, <1>4, <2>2, WordsKeptBy
<1> QED
  BY <1>2, <1>3, <1>6, <1>7, <1>8, <1>9, <1>10, <1>11, QuietStep

\* A frame that is given to the queue leaves fewer words to be copied.
LEMMA EmitWords ==
  ASSUME SenderTypes, JobsFit, WordsHold, NEW t \in Threads, EmitThen(t), Grows
  PROVE  WordsHold'
<1>1. Progress(t) /\ Advances(t) /\ UNCHANGED texts
  BY EmitProgress
<1>2. Reads(t)' => Reads(t) /\ job'[t].text = job[t].text
  <2>1. CASE Finished(t) /\ job'[t] = NoJob
    <3>1. job'[t].step = "idle"
      BY <2>1 DEF NoJob
    <3> QED
      BY <3>1 DEF Reads
  <2>2. CASE Is(job'[t], Making(ChannelOf(t)), job[t].text, job[t].id, job[t].at + 1)
    <3>1. job'[t].text = job[t].text /\ job'[t].at = job[t].at + 1
      BY <2>2 DEF Is
    <3>2. LengthOf(t)' = LengthOf(t) /\ texts'[job'[t].text] = texts[job[t].text]
      BY <1>1, <3>1 DEF LengthOf
    <3>3. job[t].step # "idle" /\ job[t].at \in Nat
      BY DEF EmitThen, SenderTypes, Jobs
    <3>4. LengthOf(t) \in Nat
      BY <3>3, TextRead DEF JobsFit, JobFits, Busy, LengthOf
    <3> QED
      BY <3>1, <3>2, <3>3, <3>4 DEF Reads
  <2> QED
    BY <1>1, <2>1, <2>2 DEF Advances
<1> QED
  BY <1>1, <1>2, WordsKeptBy

LEMMA EmitStep ==
  ASSUME StreamInv, NEW t \in Threads, Emit(t)
  PROVE  StreamInv'
<1>1. /\ NetworkTypes /\ SenderTypes /\ JobsFit /\ LatePackets /\ BufferHolds
      /\ WordsHold /\ IdsApart /\ StreamsClean /\ StreamsExact
      /\ AssembledFits /\ WholeOrNothing /\ SentIsAssembled
  BY DEF StreamInv
<1> SUFFICES ASSUME NEW c, c = ChannelOf(t), NEW p, p = Sent(t)
             PROVE  StreamInv'
  OBVIOUS
<1>2. /\ EmitThen(t) /\ Handle(c, p) /\ UNCHANGED <<late, halved, texts,
                                                    reused, buffer>>
      /\ Grows
  BY DEF Emit, EmitThen, Grows
<1>3. Gives(t, c, p)
  BY <1>1, <1>2, Given
<1>4. Comes(c, p)
  BY <1>2, <1>3 DEF Gives, Comes, Made
<1>5. Progress(t) /\ Advances(t)
  BY <1>1, <1>2, EmitProgress
<1>6. TextsKept /\ SenderTypes' /\ JobsFit' /\ \A u \in Threads \ {t} : Same(u)
  BY <1>5 DEF Progress
<1>7. NoneEnters /\ ~WaitsInBuffer(t)'
  BY <1>1, <1>2, EmitEnters
<1>8. NetworkTypes'
  BY <1>1, <1>2, <1>4, ComesTyped DEF NetworkTypes
<1>9. LatePackets'
  BY <1>1, <1>2, <1>6, LateKept
<1>10. BufferHolds'
  BY <1>1, <1>2, <1>6, <1>7, BufferKept
<1>11. IdsApart'
  BY <1>1, <1>2, <1>7, ApartKept
<1>12. StreamsClean'
  BY <1>1, <1>2, <1>3, <1>4, CleanEmit
<1>13. StreamsExact'
  BY <1>1, <1>2, <1>3, <1>4, ExactEmit
<1>14. \/ p.text \in Spoiled'
       \/ /\ texts[p.text].chan = c
          /\ p.kind = "plain" => texts[p.text].length = 0
          /\ p.kind = "E" => Clean(c, p.id, p.text)
  <2> SUFFICES ASSUME p.text \notin Spoiled'
               PROVE  /\ texts[p.text].chan = c
                      /\ p.kind = "plain" => texts[p.text].length = 0
                      /\ p.kind = "E" => Clean(c, p.id, p.text)
    OBVIOUS
  <2>1. p.text \notin Spoiled /\ p.text \notin crossed
    BY <1>2, SpoiledGrows DEF Spoiled
  <2>2. /\ p = Frame(t) /\ p.text = job[t].text
        /\ ~Long(t) <=> p.kind = "plain"
        /\ p.kind # "plain" => Inside(t, c, p.id)
        /\ LengthOf(t) \in Nat
    BY <1>3, <2>1 DEF Gives
  <2>3. texts[p.text].chan = c /\ (p.kind = "plain" => texts[p.text].length = 0)
    BY <2>2 DEF ChannelOf, LengthOf, Long
  <2>4. ASSUME p.kind = "E" PROVE Clean(c, p.id, p.text)
    <3>1. Long(t) /\ Inside(t, c, p.id) /\ job[t].at = LengthOf(t) + 1
      BY <1>1, <1>3, <2>2, <2>4, GivenAt
    <3>2. Alone(t)
      BY <2>1, <2>2, <3>1 DEF Alone
    <3>3. c \in Channels /\ p.id \in 1 .. Ids
      BY <1>1, <3>1, InsideFits
    <3> QED
      BY <1>1, <2>2, <3>1, <3>2, <3>3 DEF StreamsClean
  <2> QED
    BY <2>3, <2>4
<1>15. AssembledFits' /\ WholeOrNothing'
  <2>1. Made(p)
    BY <1>3 DEF Gives
  <2> QED
    BY <1>1, <1>2, <1>4, <1>14, <2>1, WholeComes
<1>16. SentIsAssembled'
  <2>1. \A d \in Channels : assembled[d] \subseteq assembled'[d]
    BY <1>1, <1>4, AssembledGrows
  <2> SUFFICES ASSUME NEW n, n = job[t].text PROVE SentIsAssembled'
    OBVIOUS
  <2>2. CASE Finished(t)
    <3>1. Settled(n)'
      BY <1>1, <1>2, <1>3, <1>4, <2>2, EmitSettles
    <3> QED
      BY <1>1, <1>2, <1>5, <2>1, <3>1, SentKept
  <2>3. CASE ~Finished(t)
    <3>1. Is(job'[t], Making(ChannelOf(t)), job[t].text, job[t].id, job[t].at + 1)
      BY <1>5, <2>3 DEF Advances
    <3>2. Busy(t)' /\ job'[t].text = n
      BY <3>1 DEF Is, Busy, Making
    <3> QED
      BY <1>1, <1>2, <1>5, <2>1, <3>2, SentKept
  <2> QED
    BY <2>2, <2>3
<1>17. WordsHold'
  BY <1>1, <1>2, EmitWords
<1> QED
  BY <1>6, <1>8, <1>9, <1>10, <1>11, <1>12, <1>13, <1>15, <1>16, <1>17 DEF StreamInv

\* A text that has met a fault is settled.
LEMMA HalvedSettles ==
  ASSUME NEW n, n \in halved'
  PROVE  Settled(n)'
BY DEF Settled

LEMMA LostStep ==
  ASSUME StreamInv, NEW t \in Threads, EmitLost(t)
  PROVE  StreamInv'
<1>1. SenderTypes /\ JobsFit /\ BufferHolds /\ WordsHold /\ SentIsAssembled
  BY DEF StreamInv
<1>2. /\ EmitThen(t) /\ job[t].text \in halved'
      /\ UNCHANGED <<late, streams, assembled, buffer, texts>> /\ Grows
  BY DEF EmitLost, EmitThen, Halve, Grows
<1>3. Progress(t)
  BY <1>1, <1>2, EmitProgress
<1>4. TextsKept /\ SenderTypes' /\ JobsFit' /\ \A u \in Threads \ {t} : Same(u)
  BY <1>3 DEF Progress
<1>5. NoneEnters /\ ~WaitsInBuffer(t)'
  BY <1>1, <1>2, EmitEnters
<1>6. NoneAlone /\ NoneFurther
  BY <1>1, <1>2, LostAlone, LostFurther
<1>7. BufferHolds'
  BY <1>1, <1>2, <1>4, <1>5, BufferKept
<1>8. SentIsAssembled'
  BY <1>1, <1>2, <1>3, HalvedSettles, SentKept
<1>9. WordsHold'
  BY <1>1, <1>2, EmitWords
<1> QED
  BY <1>2, <1>4, <1>5, <1>6, <1>7, <1>8, <1>9, QuietStep

LEMMA RefusedStep ==
  ASSUME StreamInv, NEW t \in Threads, EmitRefused(t)
  PROVE  StreamInv'
<1>1. SenderTypes /\ JobsFit /\ BufferHolds /\ WordsHold /\ SentIsAssembled
  BY DEF StreamInv
<1>2. /\ Progress(t) /\ job'[t] = NoJob /\ job[t].text \in halved'
      /\ UNCHANGED <<buffer, texts, crossed, reused, late, streams, assembled>>
  BY <1>1, RefusedProgress
<1>3. TextsKept /\ Grows /\ SenderTypes' /\ JobsFit' /\ \A u \in Threads \ {t} : Same(u)
  BY <1>2 DEF Progress
<1>4. job'[t].step = "idle"
  BY <1>2 DEF NoJob
<1>5. ~WaitsInBuffer(t)' /\ \A c, id : ~Inside(t, c, id)'
  BY <1>4 DEF WaitsInBuffer, Inside, InFrames
<1>6. NoneEnters /\ NoneAlone /\ NoneFurther
  BY <1>2, <1>5, NoFrames
<1>7. BufferHolds'
  BY <1>1, <1>2, <1>3, <1>5, BufferKept
<1>8. SentIsAssembled'
  BY <1>1, <1>2, HalvedSettles, SentKept
<1>9. WordsHold'
  BY <1>1, <1>2, <1>4, WordsKeptBy DEF Reads
<1> QED
  BY <1>2, <1>3, <1>6, <1>7, <1>8, <1>9, QuietStep

LEMMA LateStep ==
  ASSUME StreamInv, NEW t \in Threads, EmitLate(t)
  PROVE  StreamInv'
<1>1. /\ NetworkTypes /\ SenderTypes /\ JobsFit /\ LatePackets /\ BufferHolds
      /\ WordsHold /\ IdsApart /\ StreamsClean /\ StreamsExact
      /\ AssembledFits /\ WholeOrNothing /\ SentIsAssembled
  BY DEF StreamInv
<1> SUFFICES ASSUME NEW c, c = ChannelOf(t), NEW p, p = Sent(t)
             PROVE  StreamInv'
  OBVIOUS
<1>2. /\ EmitThen(t) /\ {job[t].text, p.text} \subseteq halved' /\ Grows
      /\ job[t].text \in halved' /\ crossed' = crossed \cup Meets(t)
      /\ late' = [late EXCEPT ![c] = late[c] \cup {p}]
      /\ UNCHANGED <<streams, assembled, buffer, texts>>
  BY DEF EmitLate, EmitThen, Halve, Grows
<1>3. Progress(t) /\ Gives(t, c, p) /\ c \in Channels
  BY <1>1, <1>2, EmitProgress, Given DEF Gives
<1>4. TextsKept /\ SenderTypes' /\ JobsFit' /\ \A u \in Threads \ {t} : Same(u)
  BY <1>3 DEF Progress
<1>5. NoneEnters /\ ~WaitsInBuffer(t)'
  BY <1>1, <1>2, EmitEnters
<1>6. NoneAlone /\ NoneFurther
  BY <1>1, <1>2, LostAlone, LostFurther
<1>7. LatePackets' /\ late' \in [Channels -> SUBSET Packets]
  BY <1>1, <1>2, <1>3, <1>4, LateAdded
<1>8. NetworkTypes'
  BY <1>1, <1>2, <1>7 DEF NetworkTypes
<1>9. BufferHolds'
  BY <1>1, <1>2, <1>4, <1>5, BufferKept
<1>10. IdsApart'
  BY <1>1, <1>2, <1>3, <1>5, ApartLate
<1>11. StreamsClean'
  BY <1>1, <1>2, <1>3, <1>5, <1>6, CleanLate
<1>12. StreamsExact'
  BY <1>1, <1>2, <1>6, ExactKept
<1>13. AssembledFits' /\ WholeOrNothing'
  BY <1>1, <1>2, <1>4, WholeStays
<1>14. SentIsAssembled'
  BY <1>1, <1>2, <1>3, HalvedSettles, SentKept
<1>15. WordsHold'
  BY <1>1, <1>2, EmitWords
<1> QED
  BY <1>4, <1>7, <1>8, <1>9, <1>10, <1>11, <1>12, <1>13, <1>14, <1>15 DEF StreamInv

LEMMA ArriveStep ==
  ASSUME StreamInv, NEW c \in Channels, NEW p \in late[c], Arrive(c, p)
  PROVE  StreamInv'
<1>1. /\ NetworkTypes /\ SenderTypes /\ JobsFit /\ LatePackets /\ BufferHolds
      /\ WordsHold /\ IdsApart /\ StreamsClean /\ StreamsExact
      /\ AssembledFits /\ WholeOrNothing /\ SentIsAssembled
  BY DEF StreamInv
<1>2. /\ Handle(c, p) /\ late' = [late EXCEPT ![c] = late[c] \ {p}]
      /\ UNCHANGED <<nextId, buffer, job, texts, crossed, reused, halved>>
  BY DEF Arrive
<1>3. Made(p) /\ (p.text \notin crossed => LateFits(c, p))
  BY <1>1 DEF LatePackets
<1>4. Comes(c, p)
  BY <1>2, <1>3 DEF Comes, Made
<1>5. TextsKept /\ Grows
  BY <1>1, <1>2, TextsSame DEF Grows
<1>6. ASSUME NEW t \in Threads PROVE Same(t)
  <2>1. Busy(t) => job[t].text \in 1 .. Len(texts)
    BY <1>1 DEF JobsFit, JobFits
  <2> QED
    BY <1>2, <1>5, <2>1, Unmoved
<1>7. \A d \in Channels : late'[d] \subseteq late[d]
  BY <1>1, <1>2 DEF NetworkTypes
<1>8. NoneEnters
  BY <1>2, <1>6, OthersInside DEF NoneEnters
<1>9. NoneFurther
  BY <1>1, <1>4, <1>5, <1>6, ArriveFurther
<1>10. SenderTypes'
  BY <1>1, <1>2 DEF SenderTypes
<1>11. JobsFit'
  BY <1>1, <1>2 DEF JobsFit, JobFits, Busy, InFrames, Long, ChannelOf, LengthOf
<1>12. NetworkTypes'
  <2>1. late' \in [Channels -> SUBSET Packets]
    BY <1>1, <1>2 DEF NetworkTypes
  <2> QED
    BY <1>1, <1>4, <2>1, ComesTyped DEF NetworkTypes
<1>13. LatePackets'
  BY <1>1, <1>5, <1>7, LateKept
<1>14. BufferHolds'
  BY <1>1, <1>2, <1>5, <1>6, BufferKept
<1>15. IdsApart'
  BY <1>1, <1>5, <1>7, <1>8, ApartKept
<1>16. StreamsClean'
  BY <1>1, <1>4, <1>5, <1>6, CleanArrive
<1>17. StreamsExact'
  BY <1>1, <1>5, <1>9, ExactKept
<1>18. AssembledFits' /\ WholeOrNothing'
  <2>1. p.text \in Spoiled' \/ (LateFits(c, p) /\ (p.kind = "E" => Clean(c, p.id, p.text)))
    <3>1. CASE p.text \in Spoiled
      BY <1>5, <3>1, SpoiledGrows
    <3>2. CASE p.text \notin Spoiled
      BY <1>1, <1>3, <3>2 DEF StreamsClean, Spoiled
    <3> QED
      BY <3>1, <3>2
  <2> QED
    BY <1>1, <1>2, <1>3, <1>4, <1>5, <2>1, WholeComes DEF LateFits
<1>19. SentIsAssembled'
  <2>1. \A d \in Channels : assembled[d] \subseteq assembled'[d]
    BY <1>1, <1>4, AssembledGrows
  <2>2. ASSUME NEW n \in 1 .. Len(texts), Settled(n) PROVE Settled(n)'
    BY <1>1, <1>5, <2>1, <2>2, SettledKept
  <2>3. ASSUME NEW n, Sending(n) PROVE Sending(n)'
    BY <1>2, <2>3 DEF Sending, Busy
  <2>4. \A n \in 1 .. Len(texts') : Settled(n)' \/ Sending(n)'
    <3>1. \A n \in 1 .. Len(texts) : Settled(n) \/ Sending(n)
      BY <1>1 DEF SentIsAssembled, Settled, Sending, Busy
    <3> QED
      BY <1>2, <2>2, <2>3, <3>1
  <2> QED
    BY <2>4 DEF SentIsAssembled, Settled, Sending, Busy
<1>20. WordsHold'
  BY <1>1, <1>2, <1>5, <1>6, WordsKept DEF Same
<1> QED
  BY <1>10, <1>11, <1>12, <1>13, <1>14, <1>15, <1>16, <1>17, <1>18, <1>19, <1>20
     DEF StreamInv

-----------------------------------------------------------------------------
(* The theorems.                                                           *)

\* The service and the other threads reach Stream by its own steps only.
LEMMA NextForm ==
  ASSUME [Next]_vars
  PROVE  \/ UNCHANGED sending
         \/ \E t \in Threads : \E c \in Channels : \E l \in Lengths :
           \E f \in BOOLEAN : Begin(t, c, l, f)
         \/ \E t \in Threads : Sends(t)
         \/ \E c \in Channels : \E p \in late[c] : Arrive(c, p)
<1> DEFINE Begins == \E t \in Threads : \E c \in Channels : \E l \in Lengths :
                       \E f \in BOOLEAN : Begin(t, c, l, f)
<1>1. /\ {Server, WorkQueue} \subseteq Threads /\ {Answers, Responses} \subseteq Channels
      /\ Answers \in Channels
      /\ Ble \subseteq Channels /\ 0 \in Lengths /\ Chunks \subseteq Lengths
  BY ServerAssumption, ChannelsAssumption DEF Channels, Lengths
<1>2. UNCHANGED vars => UNCHANGED sending
  BY DEF vars, streamVars
<1>3. Close \/ OpenSocket \/ OpenFails \/ Keep \/ PollTimesOut \/ Answered \/ Ask =>
        UNCHANGED sending
  BY DEF Close, OpenSocket, OpenFails, Keep, PollTimesOut, Answered, Ask, streamVars
<1>4. ASSUME NEW p, SetPort(p) PROVE UNCHANGED sending
  BY <1>4 DEF SetPort
<1>5. ASSUME NEW c \in Channels, NEW l \in Lengths, NEW next, Take(c, l, next)
      PROVE  Begins
  BY <1>1, <1>5 DEF Take
<1>6. TakeShort => Begins
  BY <1>1, <1>5 DEF TakeShort
<1>7. ASSUME NEW p, TakePort(p) PROVE Begins
  BY <1>1, <1>5, <1>7 DEF TakePort
<1>8. ASSUME NEW l \in Chunks, TakeFullScan(l) PROVE Begins
  BY <1>1, <1>5, <1>8 DEF TakeFullScan
<1>9. ASSUME NEW c \in Ble, NEW l \in Lengths, TakeTx(c, l) PROVE Begins
  BY <1>1, <1>5, <1>9 DEF TakeTx
<1>10. Carried => Begins
  BY <1>1 DEF Carried
<1>11. /\ \A t \in Threads : \A l \in Lengths : Respond(t, l) => Begins
       /\ \A l \in Chunks : RespondScan(l) => Begins
       /\ \A t \in Threads : \A c \in Ble : \A l \in Lengths : Transmit(t, c, l) => Begins
  BY <1>1 DEF Respond, RespondScan, Transmit
<1> HIDE DEF Begins
<1>12. Serves => UNCHANGED sending \/ Begins \/ \E t \in Threads : Sends(t)
  BY <1>1, <1>3, <1>6, <1>7, <1>8, <1>9, <1>10 DEF Serves
<1>13. \/ UNCHANGED sending \/ Begins
       \/ \E t \in Threads : Sends(t)
       \/ \E c \in Channels : \E p \in late[c] : Arrive(c, p)
  BY <1>2, <1>3, <1>4, <1>11, <1>12 DEF Next
<1> QED
  BY <1>13 DEF Begins

LEMMA NextInv ==
  ASSUME StreamInv, [Next]_vars
  PROVE  StreamInv'
<1>1. CASE UNCHANGED sending
  BY <1>1, IdleStep
<1>2. ASSUME NEW t \in Threads, NEW c \in Channels, NEW l \in Lengths, NEW f \in BOOLEAN, Begin(t, c, l, f)
      PROVE  StreamInv'
  BY <1>2, BeginStep
<1>3. ASSUME NEW t \in Threads, Sends(t)
      PROVE  StreamInv'
  BY <1>3, BumpStep, DrawStep, FormatStep, EmitStep, LostStep, LateStep, RefusedStep
     DEF Sends
<1>4. ASSUME NEW c \in Channels, NEW p \in late[c], Arrive(c, p)
      PROVE  StreamInv'
  BY <1>4, ArriveStep
<1> QED
  BY <1>1, <1>2, <1>3, <1>4, NextForm

LEMMA StreamsKeepInv == Spec => []StreamInv
<1>1. Init => StreamInv
  BY InitInv
<1>2. StreamInv /\ [Next]_vars => StreamInv'
  BY NextInv
<1> QED
  BY <1>1, <1>2, PTL DEF Spec

\* What the console puts together is one text of its channel, whole, however
\* frames are refused, lost or overtaken on any channel, unless two threads met
\* in the frame buffer, in the format buffer or in an id, or an id came round
\* with something of its last use left or on its way (wt_stream.c:71,
\* wt_ble.c:624, 648, index.html:866).
THEOREM StreamsStayWhole == Spec => []WholeOrNothing
<1>1. StreamInv => WholeOrNothing
  BY DEF StreamInv
<1> QED
  BY <1>1, StreamsKeepInv, PTL

\* A text that met no refusal, loss or other thread, and no packet of which was
\* overtaken, is put together: no id that wt_stream_begin refuses is drawn, and
\* nothing an earlier stream left behind makes the console drop it
\* (wt_stream.c:10, 145, index.html:889).
THEOREM SentGetsAssembled == Spec => []SentIsAssembled
<1>1. StreamInv => SentIsAssembled
  BY DEF StreamInv
<1> QED
  BY <1>1, StreamsKeepInv, PTL
=============================================================================
