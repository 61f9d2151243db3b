--------------------------- MODULE VcdThreadProofs ---------------------------
(***************************************************************************)
(* The waveform file loses nothing silently, for any channel capacity, any *)
(* number of chunks, flushes and failing writes, with a writer thread that *)
(* may die, and the threaded writer implements DumpStream.                 *)
(***************************************************************************)
EXTENDS VcdThread, TLAPS

Waiting == producer \in {"dumpflush", "finalize"}
Ending  == producer \in {"drop", "join", "done"}

\* A flush is the last message of a client that waits for it; an answer, a dead
\* thread and a client that is closing all mean an empty channel.
Protocol ==
    /\ \A i \in DOMAIN channel : channel[i] = Flush => i = Len(channel) /\ Waiting
    /\ ack # "none" => channel = <<>> /\ Waiting
    /\ thread = "dead" => channel = <<>>
    /\ Ending => channel = <<>>
    /\ warned => Ending

\* Chunks travel in order: those in the file, then those in the channel.
Ordered ==
    /\ \A i \in DOMAIN channel : channel[i] <= sent
    /\ \A i, j \in DOMAIN channel :
          i < j /\ channel[i] # Flush /\ channel[j] # Flush => channel[i] < channel[j]
    /\ \A i \in DOMAIN file : Number(file[i]) \in 1 .. sent
    /\ \A i \in DOMAIN file, j \in DOMAIN channel :
          channel[j] # Flush => Number(file[i]) < channel[j]
    /\ \A i, j \in DOMAIN file : i < j => Number(file[i]) < Number(file[j])

Prefix == /\ \A i \in 1 .. Len(file) - 1 : file[i] = i
          /\ file # <<>> => Number(file[Len(file)]) = Len(file)

\* Nothing is lost yet: the file is whole and the rest is in the channel.
Intact == /\ Whole(file)
          /\ \A c \in Len(file) + 1 .. sent : \E i \in DOMAIN channel : channel[i] = c

Complete == Whole(file) /\ Len(file) = sent

VInv == /\ TypeOK
        /\ Protocol
        /\ Ordered
        /\ ~dropped => Prefix
        /\ ~dropped /\ ~first_err /\ ack # "err" /\ ~warned /\ thread # "dead" => Intact
        /\ (ack = "ok" \/ Ending) /\ ~warned /\ ~dropped => Complete

-----------------------------------------------------------------------------
\* The invariant holds before the first chunk.
LEMMA VInvInit == Init => VInv
<1> SUFFICES ASSUME Init PROVE VInv
  OBVIOUS
<1>1. /\ channel = <<>> /\ file = <<>> /\ Len(channel) = 0 /\ Len(file) = 0
      /\ DOMAIN channel = {} /\ DOMAIN file = {} /\ 0 <= Cap /\ sent = 0
  BY VcdThreadAssumption DEF Init
<1>2. TypeOK
  <2>1. /\ 0 \in 0 .. MaxChunks /\ 0 \in 0 .. MaxFlushes /\ 0 \in 0 .. MaxFails
        /\ Len(channel) <= Cap
    BY <1>1, VcdThreadAssumption
  <2>2. channel \in Seq(Chunks \cup {Flush}) /\ file \in Seq((0 - MaxChunks) .. MaxChunks)
    BY <1>1
  <2> QED BY <2>1, <2>2 DEF Init, TypeOK
<1>3. Protocol /\ Ordered /\ Prefix /\ Intact /\ Complete
  BY <1>1 DEF Init, Protocol, Ordered, Prefix, Intact, Complete, Whole, Ending, Waiting
<1> QED BY <1>2, <1>3 DEF VInv

\* What the two ends of a queue do to it, element by element.
LEMMA Appended ==
    ASSUME NEW S, NEW q \in Seq(S), NEW e \in S
    PROVE  /\ Append(q, e) \in Seq(S) /\ Len(Append(q, e)) = Len(q) + 1
           /\ Append(q, e)[Len(q) + 1] = e
           /\ \A i \in 1 .. Len(q) : Append(q, e)[i] = q[i]
           /\ DOMAIN Append(q, e) = 1 .. Len(q) + 1 /\ DOMAIN q = 1 .. Len(q)
           /\ Len(q) \in Nat
OBVIOUS

\* Likewise for the head of a queue taken from it.
LEMMA Taken ==
    ASSUME NEW S, NEW q \in Seq(S), q # <<>>
    PROVE  /\ Tail(q) \in Seq(S) /\ Len(Tail(q)) = Len(q) - 1 /\ Head(q) = q[1]
           /\ \A i \in 1 .. Len(q) - 1 : Tail(q)[i] = q[i + 1]
           /\ DOMAIN Tail(q) = 1 .. Len(q) - 1 /\ DOMAIN q = 1 .. Len(q)
           /\ Len(q) \in Nat /\ Len(q) >= 1
OBVIOUS

\* An intact file is continued by the next chunk received.
LEMMA NextChunk ==
    ASSUME VInv, NEW c \in Chunks, Receives(c)
    PROVE  /\ c \in 1 .. sent
           /\ \A i \in DOMAIN file : Number(file[i]) < c
           /\ ~dropped /\ ~first_err => Intact /\ c = Len(file) + 1
<1>1. /\ channel \in Seq(Chunks \cup {Flush}) /\ file \in Seq((0 - MaxChunks) .. MaxChunks)
      /\ sent \in Nat /\ MaxChunks \in Nat /\ c \in Int /\ c >= 1 /\ c # Flush
  BY VcdThreadAssumption DEF VInv, TypeOK, Chunks, Flush
<1>2. channel # <<>> /\ channel[1] = c /\ 1 \in DOMAIN channel /\ DOMAIN channel = 1 .. Len(channel)
  BY <1>1, Taken DEF Receives
<1>3. c <= sent /\ \A i \in DOMAIN file : Number(file[i]) < c
  BY <1>1, <1>2 DEF VInv, Ordered
<1>4. ASSUME ~dropped, ~first_err PROVE Intact /\ c = Len(file) + 1
  <2>1. Intact
    BY <1>2, <1>4 DEF VInv, Protocol, Receives
  <2>2. Len(file) \in Nat /\ DOMAIN file = 1 .. Len(file)
    BY <1>1
  <2>3. Len(file) < c
    <3>1. CASE Len(file) = 0
      BY <1>1, <3>1
    <3>2. CASE Len(file) # 0
      <4>1. Len(file) \in DOMAIN file /\ file[Len(file)] = Len(file)
        BY <2>1, <2>2, <3>2 DEF Intact, Whole
      <4>2. Number(file[Len(file)]) = Len(file)
        <5>1. Len(file) >= 0 /\ Len(file) \in Int
          BY <2>2
        <5> QED BY <4>1, <5>1 DEF Number
      <4> QED BY <1>3, <4>1, <4>2
    <3> QED BY <3>1, <3>2
  <2>4. Len(file) + 1 \in Len(file) + 1 .. sent
    BY <1>1, <1>3, <2>2, <2>3
  <2>5. PICK i \in DOMAIN channel : channel[i] = Len(file) + 1
    BY <2>1, <2>4 DEF Intact
  <2>6. i = 1 \/ c < Len(file) + 1
    BY <1>1, <1>2, <2>2, <2>5 DEF VInv, Ordered, Flush
  <2> QED BY <1>1, <1>2, <2>1, <2>2, <2>3, <2>5, <2>6
<1> QED BY <1>1, <1>3, <1>4
-----------------------------------------------------------------------------
\* Handing a chunk over preserves the invariant.
LEMMA WriteStep == VInv /\ Write => VInv'
<1> SUFFICES ASSUME VInv, Write PROVE VInv'
  OBVIOUS
<1>1. /\ sent' = sent + 1 /\ producer = "run" /\ sent < MaxChunks
      /\ UNCHANGED <<producer, ack, first_err, file, thread, warned, flushes, fails, dropped>>
      /\ channel \in Seq(Chunks \cup {Flush}) /\ sent \in Nat /\ MaxChunks \in Nat
      /\ file \in Seq((0 - MaxChunks) .. MaxChunks) /\ Cap \in Nat /\ Len(channel) <= Cap
  BY VcdThreadAssumption DEF Write, VInv, TypeOK
<1>2. ~Waiting /\ ~Ending /\ ack = "none"
  BY <1>1 DEF Waiting, Ending, VInv, Protocol
<1>3. sent + 1 \in Chunks /\ sent + 1 \in 0 .. MaxChunks /\ sent + 1 # Flush
  BY <1>1 DEF Chunks, Flush
<1>4. \A i \in DOMAIN file : Number(file[i]) \in 1 .. sent
  BY DEF VInv, Ordered
<1>5. CASE Gone
  <2>1. channel' = channel /\ channel = <<>> /\ DOMAIN channel = {}
    BY <1>5 DEF Write, VInv, Protocol, Gone
  <2>2. TypeOK'
    BY <1>1, <1>3, <2>1 DEF VInv, TypeOK
  <2>3. Ordered'
    BY <1>1, <1>4, <2>1 DEF VInv, Ordered
  <2>4. Protocol'
    BY <1>1, <2>1 DEF VInv, Protocol, Waiting, Ending
  <2> QED BY <1>1, <1>2, <1>5, <2>2, <2>3, <2>4 DEF VInv, Prefix, Ending, Gone
<1>6. CASE ~Gone
  <2>1. channel' = Append(channel, sent + 1) /\ Len(channel) < Cap
    BY <1>6 DEF Write, Room
  <2>2. /\ channel' \in Seq(Chunks \cup {Flush}) /\ Len(channel') = Len(channel) + 1
        /\ channel'[Len(channel) + 1] = sent + 1
        /\ \A i \in 1 .. Len(channel) : channel'[i] = channel[i]
        /\ DOMAIN channel' = 1 .. Len(channel) + 1 /\ DOMAIN channel = 1 .. Len(channel)
        /\ Len(channel) \in Nat
    <3>1. sent + 1 \in Chunks \cup {Flush}
      BY <1>3
    <3> QED BY <1>1, <2>1, <3>1, Appended
  <2>3. \A i \in 1 .. Len(channel) : channel[i] # Flush /\ channel[i] <= sent /\ channel[i] \in Int
    <3>1. \A i \in 1 .. Len(channel) : channel[i] \in Chunks \cup {Flush}
      BY <1>1
    <3> QED BY <1>2, <2>2, <3>1 DEF VInv, Protocol, Ordered, Chunks, Flush
  <2>4. TypeOK'
    BY <1>1, <1>3, <2>1, <2>2 DEF VInv, TypeOK
  <2>5. Protocol'
    <3>1. \A i \in DOMAIN channel' : channel'[i] # Flush
      BY <1>3, <2>2, <2>3
    <3>2. thread # "dead"
      BY <1>6 DEF Gone
    <3> QED BY <1>1, <1>2, <3>1, <3>2 DEF VInv, Protocol, Waiting, Ending
  <2>6. Ordered'
    <3>1. \A i \in DOMAIN channel' : channel'[i] <= sent'
      BY <1>1, <2>2, <2>3
    <3>2. \A i, j \in DOMAIN channel' : i < j => channel'[i] < channel'[j]
      <4> SUFFICES ASSUME NEW i \in DOMAIN channel', NEW j \in DOMAIN channel', i < j
                   PROVE  channel'[i] < channel'[j]
        OBVIOUS
      <4>1. i \in 1 .. Len(channel) /\ channel'[i] = channel[i]
        BY <2>2
      <4>2. CASE j \in 1 .. Len(channel)
        BY <2>2, <2>3, <4>1, <4>2 DEF VInv, Ordered
      <4>3. CASE j = Len(channel) + 1
        BY <1>1, <2>2, <2>3, <4>1, <4>3
      <4> QED BY <2>2, <4>2, <4>3
    <3>3. \A i \in DOMAIN file : Number(file[i]) \in 1 .. sent'
      BY <1>1, <1>4
    <3>4. \A i \in DOMAIN file, j \in DOMAIN channel' : Number(file[i]) < channel'[j]
      <4> SUFFICES ASSUME NEW i \in DOMAIN file, NEW j \in DOMAIN channel'
                   PROVE  Number(file[i]) < channel'[j]
        OBVIOUS
      <4>1. CASE j \in 1 .. Len(channel)
        BY <2>2, <2>3, <4>1 DEF VInv, Ordered
      <4>2. CASE j = Len(channel) + 1
        BY <1>1, <1>4, <2>2, <4>2
      <4> QED BY <2>2, <4>1, <4>2
    <3> QED BY <1>1, <3>1, <3>2, <3>3, <3>4 DEF VInv, Ordered
  <2>7. Intact => Intact'
    <3> SUFFICES ASSUME Intact, NEW c \in Len(file) + 1 .. sent + 1
                 PROVE  \E i \in DOMAIN channel' : channel'[i] = c
      BY <1>1 DEF Intact, Whole
    <3>1. CASE c = sent + 1
      BY <2>2, <3>1
    <3>2. CASE c # sent + 1
      <4>1. Len(file) \in Nat /\ c \in Len(file) + 1 .. sent
        BY <1>1, <3>2
      <4>2. PICK i \in DOMAIN channel : channel[i] = c
        BY <4>1 DEF Intact
      <4> QED BY <2>2, <4>2
    <3> QED BY <3>1, <3>2
  <2> QED BY <1>1, <1>2, <2>4, <2>5, <2>6, <2>7 DEF VInv, Prefix, Ending
<1> QED BY <1>5, <1>6

\* A flush sent preserves the invariant.
LEMMA FlushStep ==
    ASSUME VInv, NEW caller \in {"dumpflush", "finalize"}, SendFlush(caller),
           UNCHANGED dropped, flushes' \in 0 .. MaxFlushes
    PROVE  VInv'
<1>1. /\ producer = "run" /\ producer' = caller
      /\ UNCHANGED <<sent, ack, first_err, file, thread, warned, fails, dropped>>
      /\ channel \in Seq(Chunks \cup {Flush}) /\ sent \in Nat
      /\ Cap \in Nat /\ Len(channel) <= Cap
  BY VcdThreadAssumption DEF SendFlush, VInv, TypeOK
<1>2. ~Waiting /\ ~Ending /\ ack = "none" /\ Waiting' /\ ~Ending' /\ ~warned
  BY <1>1 DEF Waiting, Ending, VInv, Protocol
<1>3. CASE Gone
  <2>1. channel' = channel /\ channel = <<>> /\ DOMAIN channel = {}
    BY <1>3 DEF SendFlush, VInv, Protocol, Gone
  <2>2. TypeOK'
    BY <1>1, <2>1 DEF VInv, TypeOK
  <2>3. Ordered' /\ Protocol'
    BY <1>1, <1>2, <2>1 DEF VInv, Ordered, Protocol
  <2> QED BY <1>1, <1>2, <1>3, <2>2, <2>3 DEF VInv, Prefix, Gone
<1>4. CASE ~Gone
  <2>1. channel' = Append(channel, Flush) /\ Len(channel) < Cap
    BY <1>4 DEF SendFlush, Room
  <2>2. /\ channel' \in Seq(Chunks \cup {Flush}) /\ Len(channel') = Len(channel) + 1
        /\ channel'[Len(channel) + 1] = Flush
        /\ \A i \in 1 .. Len(channel) : channel'[i] = channel[i]
        /\ DOMAIN channel' = 1 .. Len(channel) + 1 /\ DOMAIN channel = 1 .. Len(channel)
        /\ Len(channel) \in Nat
    BY <1>1, <2>1, Appended
  <2>3. TypeOK'
    BY <1>1, <2>1, <2>2 DEF VInv, TypeOK
  <2>4. Protocol'
    <3>1. \A i \in 1 .. Len(channel) : channel[i] # Flush
      BY <1>2, <2>2 DEF VInv, Protocol
    <3>2. \A i \in DOMAIN channel' : channel'[i] = Flush => i = Len(channel') /\ Waiting'
      BY <1>2, <2>2, <3>1
    <3>3. thread # "dead"
      BY <1>4 DEF Gone
    <3> QED BY <1>1, <1>2, <3>2, <3>3 DEF VInv, Protocol
  <2>5. Ordered'
    <3>1. \A i \in DOMAIN channel' : channel'[i] # Flush =>
              i \in DOMAIN channel /\ channel'[i] = channel[i]
      BY <2>2
    <3>2. \A i \in DOMAIN channel' : channel'[i] <= sent'
      BY <1>1, <2>2, <3>1 DEF VInv, Ordered, Flush
    <3> QED BY <1>1, <3>1, <3>2 DEF VInv, Ordered
  <2>6. Intact => Intact'
    BY <1>1, <2>2 DEF Intact, Whole
  <2> QED BY <1>1, <1>2, <2>3, <2>4, <2>5, <2>6 DEF VInv, Prefix
<1> QED BY <1>3, <1>4

\* A message taken from the channel leaves an ordered channel, and the protocol.
LEMMA Received ==
    ASSUME VInv, NEW m \in Chunks \cup {Flush}, Receives(m)
    PROVE  /\ thread = "live" /\ channel # <<>> /\ ack = "none" /\ ~Ending /\ ~warned
           /\ channel' \in Seq(Chunks \cup {Flush}) /\ Len(channel') <= Cap
           /\ \A i \in DOMAIN channel' : /\ i + 1 \in DOMAIN channel
                                         /\ channel'[i] = channel[i + 1]
                                         /\ channel[i + 1] \in Chunks \cup {Flush}
           /\ channel[1] = m /\ 1 \in DOMAIN channel
           /\ DOMAIN channel \subseteq Nat
           /\ \A i \in DOMAIN channel : i # 1 => i - 1 \in DOMAIN channel' /\ i - 1 >= 1
           /\ Len(channel') = Len(channel) - 1 /\ Len(channel) \in Nat
<1>1. /\ channel \in Seq(Chunks \cup {Flush}) /\ channel # <<>> /\ channel' = Tail(channel)
      /\ Head(channel) = m /\ thread = "live" /\ Len(channel) <= Cap /\ Cap \in Nat
  BY VcdThreadAssumption DEF VInv, TypeOK, Receives
<1>2. /\ Tail(channel) \in Seq(Chunks \cup {Flush})
      /\ Len(Tail(channel)) = Len(channel) - 1 /\ Head(channel) = channel[1]
      /\ \A i \in 1 .. Len(channel) - 1 : Tail(channel)[i] = channel[i + 1]
      /\ DOMAIN Tail(channel) = 1 .. Len(channel) - 1 /\ DOMAIN channel = 1 .. Len(channel)
      /\ Len(channel) \in Nat /\ Len(channel) >= 1
  BY <1>1, Taken
<1>3. \A i \in DOMAIN channel : channel[i] \in Chunks \cup {Flush}
  BY <1>1
<1>4. ack = "none" /\ ~Ending /\ ~warned
  BY <1>1 DEF VInv, Protocol
<1> QED BY <1>1, <1>2, <1>3, <1>4

\* Writing a chunk, whole, torn or not at all, preserves the invariant.
LEMMA BytesStep == ASSUME VInv, NEW c \in Chunks, ThreadBytes(c) PROVE VInv'
<1>1. /\ Receives(c) /\ UNCHANGED <<sent, producer, ack, thread, warned, flushes, dropped>>
      /\ sent \in Nat /\ MaxChunks \in Nat /\ MaxFails \in Nat /\ c \in Int /\ c >= 1
      /\ c # Flush /\ c \in Chunks \cup {Flush} /\ c <= MaxChunks
      /\ file \in Seq((0 - MaxChunks) .. MaxChunks) /\ first_err \in BOOLEAN
  BY VcdThreadAssumption DEF ThreadBytes, VInv, TypeOK, Chunks, Flush
<1>2. /\ thread = "live" /\ channel # <<>> /\ ack = "none" /\ ~Ending /\ ~warned
      /\ channel' \in Seq(Chunks \cup {Flush}) /\ Len(channel') <= Cap
      /\ \A i \in DOMAIN channel' : /\ i + 1 \in DOMAIN channel
                                    /\ channel'[i] = channel[i + 1]
                                    /\ channel[i + 1] \in Chunks \cup {Flush}
      /\ channel[1] = c /\ 1 \in DOMAIN channel
      /\ DOMAIN channel \subseteq Nat
      /\ \A i \in DOMAIN channel : i # 1 => i - 1 \in DOMAIN channel' /\ i - 1 >= 1
      /\ Len(channel') = Len(channel) - 1 /\ Len(channel) \in Nat
  BY <1>1, Received
<1>3. /\ c \in 1 .. sent
      /\ \A i \in DOMAIN file : Number(file[i]) < c
      /\ ~dropped /\ ~first_err => Intact /\ c = Len(file) + 1
  BY <1>1, NextChunk
<1>4. DOMAIN channel' \subseteq Int /\ DOMAIN channel \subseteq Int
  BY <1>2
<1>5. Protocol'
  <2>1. \A i \in DOMAIN channel' : channel'[i] = Flush => i = Len(channel') /\ Waiting
    BY <1>2, <1>4 DEF VInv, Protocol
  <2> QED BY <1>1, <1>2, <2>1 DEF VInv, Protocol, Waiting, Ending
<1>6. /\ \A i \in DOMAIN channel' : channel'[i] <= sent
      /\ \A i, j \in DOMAIN channel' :
            i < j /\ channel'[i] # Flush /\ channel'[j] # Flush => channel'[i] < channel'[j]
      /\ \A j \in DOMAIN channel' : channel'[j] # Flush => c < channel'[j]
  <2>1. \A i \in DOMAIN channel' : channel'[i] <= sent
    BY <1>2 DEF VInv, Ordered
  <2>2. \A i, j \in DOMAIN channel' :
            i < j /\ channel'[i] # Flush /\ channel'[j] # Flush => channel'[i] < channel'[j]
    BY <1>2, <1>4 DEF VInv, Ordered
  <2>3. ASSUME NEW j \in DOMAIN channel', channel'[j] # Flush PROVE c < channel'[j]
    <3>1. /\ j + 1 \in DOMAIN channel /\ channel'[j] = channel[j + 1]
          /\ j + 1 - 1 >= 1 \/ j + 1 = 1
      BY <1>2, <1>4
    <3>2. j \in DOMAIN channel' /\ j \in Int /\ DOMAIN channel' = 1 .. Len(channel')
      BY <1>2, <1>4
    <3> QED BY <1>1, <1>2, <2>3, <3>1, <3>2 DEF VInv, Ordered
  <2> QED BY <2>1, <2>2, <2>3
<1>7. \A i \in DOMAIN file : Number(file[i]) \in 1 .. sent
  BY DEF VInv, Ordered
<1>8. \A i, j \in DOMAIN file : i < j => Number(file[i]) < Number(file[j])
  BY DEF VInv, Ordered
<1>9. ASSUME file' = file PROVE Ordered' /\ (Prefix => Prefix')
  <2>1. \A i \in DOMAIN file, j \in DOMAIN channel' :
           channel'[j] # Flush => Number(file[i]) < channel'[j]
    BY <1>2 DEF VInv, Ordered
  <2> QED BY <1>1, <1>6, <1>7, <1>8, <1>9, <2>1 DEF Ordered, Prefix
<1>10. ASSUME NEW e \in {c, 0 - c}, file' = Append(file, e)
       PROVE  /\ Ordered' /\ (~dropped /\ ~first_err => Prefix')
              /\ file' \in Seq((0 - MaxChunks) .. MaxChunks)
  <2>1. e \in (0 - MaxChunks) .. MaxChunks /\ Number(e) = c
    BY <1>1 DEF Number
  <2>2. /\ file' \in Seq((0 - MaxChunks) .. MaxChunks) /\ Len(file') = Len(file) + 1
        /\ file'[Len(file) + 1] = e
        /\ \A i \in 1 .. Len(file) : file'[i] = file[i]
        /\ DOMAIN file' = 1 .. Len(file) + 1 /\ DOMAIN file = 1 .. Len(file)
        /\ Len(file) \in Nat
    BY <1>1, <1>10, <2>1, Appended
  <2>3. \A i \in DOMAIN file' : \/ i = Len(file) + 1 /\ Number(file'[i]) = c
                                \/ i \in DOMAIN file /\ file'[i] = file[i]
    BY <2>1, <2>2
  <2>4. \A i \in DOMAIN file' : Number(file'[i]) \in 1 .. sent
    BY <1>3, <1>7, <2>3
  <2>5. \A i \in DOMAIN file', j \in DOMAIN channel' :
           channel'[j] # Flush => Number(file'[i]) < channel'[j]
    <3> SUFFICES ASSUME NEW i \in DOMAIN file', NEW j \in DOMAIN channel', channel'[j] # Flush
                 PROVE  Number(file'[i]) < channel'[j]
      OBVIOUS
    <3>1. CASE Number(file'[i]) = c
      BY <1>6, <3>1
    <3>2. CASE i \in DOMAIN file /\ file'[i] = file[i]
      BY <1>2, <3>2 DEF VInv, Ordered
    <3> QED BY <2>3, <3>1, <3>2
  <2>6. \A i, j \in DOMAIN file' : i < j => Number(file'[i]) < Number(file'[j])
    <3> SUFFICES ASSUME NEW i \in DOMAIN file', NEW j \in DOMAIN file', i < j
                 PROVE  Number(file'[i]) < Number(file'[j])
      OBVIOUS
    <3>1. i \in DOMAIN file /\ file'[i] = file[i]
      BY <2>2
    <3>2. CASE j \in DOMAIN file /\ file'[j] = file[j]
      BY <1>8, <3>1, <3>2
    <3>3. CASE Number(file'[j]) = c
      BY <1>3, <3>1, <3>3
    <3> QED BY <2>3, <3>2, <3>3
  <2>7. ASSUME ~dropped, ~first_err PROVE Prefix'
    <3>1. Whole(file) /\ c = Len(file) + 1
      BY <1>3, <2>7 DEF Intact
    <3>2. \A i \in 1 .. Len(file') - 1 : file'[i] = i
      BY <2>2, <3>1 DEF Whole
    <3>3. Number(file'[Len(file')]) = Len(file')
      BY <2>1, <2>2, <3>1
    <3> QED BY <3>2, <3>3 DEF Prefix
  <2> QED BY <1>1, <1>6, <2>2, <2>4, <2>5, <2>6, <2>7 DEF Ordered
<1>11. CASE Skips /\ UNCHANGED <<first_err, file, fails>>
  <2>1. TypeOK'
    BY <1>1, <1>2, <1>11 DEF VInv, TypeOK
  <2> QED BY <1>1, <1>2, <1>5, <1>9, <1>11, <2>1 DEF VInv, Skips, Ending
<1>12. CASE ~Skips /\ file' = Append(file, c) /\ UNCHANGED <<first_err, fails>>
  <2>1. /\ Ordered' /\ (~dropped /\ ~first_err => Prefix')
        /\ file' \in Seq((0 - MaxChunks) .. MaxChunks)
    BY <1>10, <1>12
  <2>2. TypeOK'
    BY <1>1, <1>2, <1>12, <2>1 DEF VInv, TypeOK
  <2>3. ASSUME ~dropped PROVE Intact'
    <3>1. Intact /\ c = Len(file) + 1
      BY <1>3, <1>12, <2>3 DEF Skips
    <3>2. /\ Len(file') = Len(file) + 1 /\ file'[Len(file) + 1] = c
          /\ \A i \in 1 .. Len(file) : file'[i] = file[i]
          /\ Len(file) \in Nat
      <4>1. c \in (0 - MaxChunks) .. MaxChunks
        BY <1>1
      <4> QED BY <1>1, <1>12, <4>1, Appended
    <3>3. Whole(file')
      BY <3>1, <3>2 DEF Intact, Whole
    <3>4. ASSUME NEW d \in Len(file') + 1 .. sent
          PROVE  \E i \in DOMAIN channel' : channel'[i] = d
      <4>1. d \in Len(file) + 1 .. sent /\ d # c
        BY <1>1, <3>1, <3>2
      <4>2. PICK i \in DOMAIN channel : channel[i] = d
        BY <3>1, <4>1 DEF Intact
      <4>3. i # 1 /\ i - 1 \in DOMAIN channel' /\ i - 1 + 1 = i
        BY <1>2, <1>4, <4>1, <4>2
      <4> QED BY <1>2, <4>2, <4>3
    <3> QED BY <1>1, <3>3, <3>4 DEF Intact
  <2> QED BY <1>1, <1>2, <1>5, <1>12, <2>1, <2>2, <2>3 DEF VInv, Skips, Ending
<1>13. CASE /\ ~Skips /\ fails < MaxFails /\ fails' = fails + 1 /\ first_err' = TRUE
            /\ file' \in {file, Append(file, 0 - c)}
  <2>1. /\ Ordered' /\ (~dropped => Prefix')
        /\ file' \in Seq((0 - MaxChunks) .. MaxChunks)
    BY <1>1, <1>9, <1>10, <1>13 DEF VInv, Skips
  <2>2. fails' \in 0 .. MaxFails
    BY <1>1, <1>13 DEF VInv, TypeOK
  <2>3. TypeOK'
    BY <1>1, <1>2, <1>13, <2>1, <2>2 DEF VInv, TypeOK
  <2> QED BY <1>1, <1>2, <1>5, <1>13, <2>1, <2>3 DEF VInv, Ending
<1> QED BY <1>11, <1>12, <1>13 DEF ThreadBytes

\* Answering a flush preserves the invariant: everything before it is written.
LEMMA AnswerStep == VInv /\ ThreadFlush => VInv'
<1> SUFFICES ASSUME VInv, ThreadFlush PROVE VInv'
  OBVIOUS
<1>1. /\ Receives(Flush) /\ ack' = Answer /\ first_err' = FALSE
      /\ UNCHANGED <<sent, producer, file, thread, warned, flushes, fails, dropped>>
      /\ Flush \in Chunks \cup {Flush} /\ sent \in Nat
      /\ file \in Seq((0 - MaxChunks) .. MaxChunks)
  BY DEF ThreadFlush, VInv, TypeOK
<1>2. /\ thread = "live" /\ channel # <<>> /\ ack = "none" /\ ~Ending /\ ~warned
      /\ channel' \in Seq(Chunks \cup {Flush}) /\ Len(channel') <= Cap
      /\ channel[1] = Flush /\ 1 \in DOMAIN channel
      /\ Len(channel') = Len(channel) - 1
  BY <1>1, Received
<1>3. Len(channel) = 1 /\ Waiting
  BY <1>2 DEF VInv, Protocol
<1>4. channel' = <<>> /\ DOMAIN channel' = {} /\ DOMAIN channel = {1}
  <2>1. Len(channel') = 0
    BY <1>2, <1>3
  <2>2. channel \in Seq(Chunks \cup {Flush})
    BY DEF VInv, TypeOK
  <2> QED BY <1>2, <1>3, <2>1, <2>2
<1>5. ack' \in {"ok", "err"} /\ (ack' = "ok" <=> ~first_err) /\ first_err \in BOOLEAN
  BY <1>1 DEF Answer, VInv, TypeOK
<1>6. TypeOK'
  BY <1>1, <1>2, <1>5 DEF VInv, TypeOK
<1>7. Protocol' /\ Ordered'
  BY <1>1, <1>2, <1>3, <1>4 DEF VInv, Protocol, Ordered, Waiting, Ending
<1>8. ASSUME ~dropped, ~first_err PROVE Intact' /\ Complete'
  <2>1. Intact
    BY <1>2, <1>8 DEF VInv
  <2>2. \A d \in Len(file) + 1 .. sent : d = Flush
    BY <1>2, <1>4, <2>1 DEF Intact
  <2>3. Len(file) \in Nat /\ DOMAIN file = 1 .. Len(file)
    BY <1>1
  <2>4. Len(file) >= sent
    <3>1. ASSUME Len(file) < sent PROVE FALSE
      <4>1. sent \in Len(file) + 1 .. sent /\ sent # 0
        BY <1>1, <2>3, <3>1
      <4> QED BY <2>2, <4>1 DEF Flush
    <3> QED BY <1>1, <2>3, <3>1
  <2>5. Len(file) <= sent
    <3>1. CASE Len(file) = 0
      BY <1>1, <3>1
    <3>2. CASE Len(file) # 0
      <4>1. Len(file) \in DOMAIN file /\ file[Len(file)] = Len(file)
        BY <2>1, <2>3, <3>2 DEF Intact, Whole
      <4>2. Number(file[Len(file)]) = Len(file)
        <5>1. Len(file) >= 0 /\ Len(file) \in Int
          BY <2>3
        <5> QED BY <4>1, <5>1 DEF Number
      <4>3. Number(file[Len(file)]) \in 1 .. sent
        BY <4>1 DEF VInv, Ordered
      <4> QED BY <1>1, <2>3, <4>2, <4>3
    <3> QED BY <3>1, <3>2
  <2>6. Len(file) = sent
    <3>1. sent \in Int /\ Len(file) \in Int
      BY <1>1, <2>3
    <3> QED BY <2>4, <2>5, <3>1
  <2>7. \A d \in Len(file) + 1 .. sent : FALSE
    BY <2>3, <2>6
  <2> QED BY <1>1, <2>1, <2>6, <2>7 DEF Intact, Complete, Whole
<1> QED BY <1>1, <1>2, <1>5, <1>6, <1>7, <1>8 DEF VInv, Prefix, Ending

\* A flush that returns preserves the invariant: a failure is dropped by the task
\* or turned into the warning.
LEMMA ReturnStep == VInv /\ FlushReturns => VInv'
<1> SUFFICES ASSUME VInv, FlushReturns PROVE VInv'
  OBVIOUS
<1>1. /\ UNCHANGED <<sent, channel, first_err, file, thread, flushes, fails>>
      /\ ack' = "none" /\ channel = <<>> /\ Waiting
      /\ producer' = IF producer = "finalize" THEN "drop" ELSE "run"
      /\ warned' = (warned \/ (producer = "finalize" /\ ack # "ok"))
      /\ dropped' = (dropped \/ (producer = "dumpflush" /\ ack # "ok"))
      /\ ack \in {"none", "ok", "err"}
  BY DEF FlushReturns, VInv, Protocol, Gone, TypeOK, Waiting
<1>2. warned' \in BOOLEAN /\ dropped' \in BOOLEAN /\ producer' \in {"drop", "run"}
  BY <1>1 DEF VInv, TypeOK
<1>3. TypeOK'
  BY <1>1, <1>2 DEF VInv, TypeOK
<1>4. ~warned
  BY <1>1 DEF VInv, Protocol, Waiting, Ending
<1>5. Protocol' /\ Ordered'
  <2>1. warned' => Ending'
    BY <1>1, <1>4 DEF Ending
  <2>2. channel' = <<>> /\ DOMAIN channel' = {} /\ DOMAIN channel = {}
    BY <1>1
  <2>3. Protocol'
    BY <1>1, <2>1, <2>2 DEF Protocol
  <2>4. Ordered'
    BY <1>1, <2>2 DEF VInv, Ordered
  <2> QED BY <2>3, <2>4
<1>6. ~dropped' /\ ~warned' => ack = "ok" /\ ~dropped
  BY <1>1 DEF Waiting
<1>7. Intact' <=> Intact
  BY <1>1 DEF Intact, Whole
<1>8. Complete' <=> Complete
  BY <1>1 DEF Complete, Whole
<1>9. Prefix' <=> Prefix
  BY <1>1 DEF Prefix
<1> QED BY <1>1, <1>3, <1>4, <1>5, <1>6, <1>7, <1>8, <1>9 DEF VInv

\* Closing the channel, the end of the thread, its death: the invariant is kept.
LEMMA EndSteps ==
    ASSUME VInv, DropWriter \/ Joined \/ ThreadExit \/ ThreadDies PROVE VInv'
<1>1. /\ UNCHANGED <<sent, ack, first_err, file, warned, flushes, fails, dropped>>
      /\ channel' \in {channel, <<>>}
      /\ Prefix' <=> Prefix
      /\ Complete' <=> Complete
  BY DEF DropWriter, Joined, ThreadExit, ThreadDies, Prefix, Complete, Whole
<1>2. Ordered'
  BY <1>1 DEF VInv, Ordered
<1>3. CASE DropWriter \/ Joined
  <2>1. /\ producer \in {"drop", "join"} /\ producer' \in {"join", "done"}
        /\ channel' = channel /\ thread' = thread
    BY <1>3 DEF DropWriter, Joined
  <2>2. Ending /\ Ending' /\ ~Waiting /\ ~Waiting'
    BY <2>1 DEF Ending, Waiting
  <2>3. TypeOK' /\ Protocol'
    BY <1>1, <2>1, <2>2 DEF VInv, TypeOK, Protocol
  <2>4. Intact' <=> Intact
    BY <1>1, <2>1 DEF Intact, Whole
  <2> QED BY <1>1, <1>2, <2>1, <2>2, <2>3, <2>4 DEF VInv
<1>4. CASE ThreadExit
  <2>1. thread = "live" /\ thread' = "exited" /\ channel' = channel /\ producer' = producer
    BY <1>4 DEF ThreadExit
  <2>2. TypeOK' /\ Protocol'
    BY <1>1, <2>1 DEF VInv, TypeOK, Protocol, Waiting, Ending
  <2>3. Intact' <=> Intact
    BY <1>1, <2>1 DEF Intact, Whole
  <2> QED BY <1>1, <1>2, <2>1, <2>2, <2>3 DEF VInv, Ending
<1>5. CASE ThreadDies
  <2>1. thread' = "dead" /\ channel' = <<>> /\ producer' = producer
    BY <1>5 DEF ThreadDies
  <2>2. <<>> \in Seq(Chunks \cup {Flush}) /\ Len(<<>>) <= Cap /\ DOMAIN <<>> = {}
    BY VcdThreadAssumption
  <2>3. TypeOK' /\ Protocol'
    BY <1>1, <2>1, <2>2 DEF VInv, TypeOK, Protocol, Waiting, Ending
  <2> QED BY <1>1, <1>2, <2>1, <2>3 DEF VInv, Ending
<1> QED BY <1>3, <1>4, <1>5

\* Every step of either thread preserves the invariant.
LEMMA VInvStep == VInv /\ [Next]_vars => VInv'
<1> SUFFICES ASSUME VInv, [Next]_vars PROVE VInv'
  OBVIOUS
<1>1. CASE UNCHANGED vars
  <2>1. TypeOK' /\ Protocol' /\ Ordered'
    BY <1>1 DEF vars, VInv, TypeOK, Protocol, Ordered, Waiting, Ending
  <2> QED BY <1>1, <2>1 DEF vars, VInv, Prefix, Intact, Complete, Whole, Ending
<1>2. CASE DumpFlush
  <2>1. flushes' \in 0 .. MaxFlushes
    BY <1>2, VcdThreadAssumption DEF DumpFlush, VInv, TypeOK
  <2> QED BY <1>2, <2>1, FlushStep DEF DumpFlush
<1>3. CASE Finalize
  <2>1. flushes' \in 0 .. MaxFlushes
    BY <1>3 DEF Finalize, VInv, TypeOK
  <2> QED BY <1>3, <2>1, FlushStep DEF Finalize
<1>4. CASE \E c \in Chunks : ThreadBytes(c)
  BY <1>4, BytesStep
<1>5. CASE Write \/ ThreadFlush \/ FlushReturns
  BY <1>5, WriteStep, AnswerStep, ReturnStep
<1>6. CASE DropWriter \/ Joined \/ ThreadExit \/ ThreadDies
  BY <1>6, EndSteps
<1> QED BY <1>1, <1>2, <1>3, <1>4, <1>5, <1>6 DEF Next, Simulation, Writer, Finished

-----------------------------------------------------------------------------
\* The invariant holds of every reachable state.
LEMMA Invariance == Spec => []VInv
<1> QED BY VInvInit, VInvStep, PTL DEF Spec

\* The types: the channel never holds more than its capacity.
THEOREM ChannelIsBounded == Spec => []TypeOK
<1>1. VInv => TypeOK
  BY DEF VInv
<1> QED BY <1>1, Invariance, PTL

\* A hole or a torn chunk in the middle of the file means a dropped error.
THEOREM GapsAreDropped == Spec => []GapOnlyAfterDroppedError
<1>1. VInv => GapOnlyAfterDroppedError
  <2> SUFFICES ASSUME VInv PROVE GapOnlyAfterDroppedError
    OBVIOUS
  <2>1. DOMAIN file = 1 .. Len(file)
    BY DEF VInv, TypeOK
  <2> QED BY <2>1 DEF VInv, Ordered, Prefix, GapOnlyAfterDroppedError
<1> QED BY <1>1, Invariance, PTL

\* No loss is silent: it was warned about, or handed to a `$dumpflush`.
THEOREM NoSilentLoss == Spec => []LossIsReported
<1>1. VInv => LossIsReported
  BY DEF VInv, Ending, Complete, Loss, LossIsReported
<1> QED BY <1>1, Invariance, PTL

-----------------------------------------------------------------------------
\* Every step of the threads is a step of the stream, or none.
LEMMA StreamStep ==
    ASSUME VInv, [Next]_vars
    PROVE  [Stream!Next]_<<sent, file, dropped,
              IF producer # "done" THEN "open" ELSE IF warned THEN "warned" ELSE "clean">>
<1> DEFINE ending == IF producer # "done" THEN "open"
                     ELSE IF warned THEN "warned" ELSE "clean"
<1> SUFFICES [Stream!Next]_<<sent, file, dropped, ending>>
  OBVIOUS
<1>1. CASE Write
  <2>1. /\ producer = "run" /\ producer' = "run" /\ sent < MaxChunks /\ sent' = sent + 1
        /\ UNCHANGED <<file, dropped>>
    BY <1>1 DEF Write
  <2> QED BY <2>1 DEF Stream!Next, Stream!Produce
<1>2. CASE FlushReturns
  <2>1. /\ Waiting /\ producer' \in {"run", "drop"} /\ UNCHANGED <<sent, file>>
        /\ dropped' = (dropped \/ (producer = "dumpflush" /\ ack # "ok"))
        /\ dropped \in BOOLEAN
    BY <1>2 DEF FlushReturns, Waiting, VInv, TypeOK
  <2>2. ending = "open" /\ ending' = "open"
    BY <2>1 DEF Waiting
  <2>3. dropped' = TRUE \/ dropped' = dropped
    BY <2>1
  <2> QED BY <2>1, <2>2, <2>3 DEF Stream!Next, Stream!Tell
<1>3. CASE Joined
  <2>1. /\ producer = "join" /\ producer' = "done"
        /\ UNCHANGED <<sent, file, dropped, warned>>
    BY <1>3 DEF Joined
  <2>2. ~warned /\ ~dropped => Complete
    BY <2>1 DEF VInv, Ending
  <2>3. ending = "open" /\ ending' = IF warned THEN "warned" ELSE "clean"
    BY <2>1
  <2> QED BY <2>1, <2>2, <2>3
          DEF Stream!Next, Stream!Close, Stream!Whole, Complete, Whole
<1>4. ASSUME NEW c \in Chunks, ThreadBytes(c)
      PROVE  [Stream!Next]_<<sent, file, dropped, ending>>
  <2>1. /\ UNCHANGED <<sent, producer, warned, dropped>> /\ Receives(c)
        /\ \/ file' = file
           \/ ~first_err /\ file' \in {Append(file, c), Append(file, 0 - c)}
    BY <1>4 DEF ThreadBytes, Skips
  <2>2. CASE file' = file
    BY <2>1, <2>2
  <2>3. CASE ~first_err /\ file' \in {Append(file, c), Append(file, 0 - c)}
    <3>1. /\ c \in 1 .. sent /\ \A i \in DOMAIN file : Number(file[i]) < c
          /\ ~dropped => Intact /\ c = Len(file) + 1
      BY <2>1, <2>3, NextChunk
    <3>2. file \in Seq((0 - MaxChunks) .. MaxChunks) /\ sent \in Nat
      BY DEF VInv, TypeOK
    <3>3. Stream!Last(file) \in Int /\ Stream!Last(file) < c
      <4>1. CASE file = <<>>
        BY <3>1, <4>1 DEF Stream!Last
      <4>2. CASE file # <<>>
        <5>1. Len(file) \in DOMAIN file /\ Number(file[Len(file)]) < c
          BY <3>1, <3>2, <4>2
        <5>2. Number(file[Len(file)]) \in 1 .. sent
          BY <5>1 DEF VInv, Ordered
        <5>3. Stream!Last(file) = Number(file[Len(file)])
          BY <4>2 DEF Stream!Last, Stream!Number, Number
        <5> QED BY <5>1, <5>2, <5>3
      <4> QED BY <4>1, <4>2
    <3>4. c \in Stream!Last(file) + 1 .. sent
      BY <3>1, <3>2, <3>3
    <3>5. dropped \/ (Stream!Whole(file) /\ c = Len(file) + 1)
      BY <3>1 DEF Intact, Whole, Stream!Whole
    <3>6. Stream!Extend
      BY <2>1, <2>3, <3>4, <3>5 DEF Stream!Extend
    <3> QED BY <3>6 DEF Stream!Next
  <2> QED BY <2>1, <2>2, <2>3
<1>5. CASE DumpFlush \/ Finalize
  <2>1. /\ producer = "run" /\ producer' \in {"dumpflush", "finalize"}
        /\ UNCHANGED <<sent, file, dropped>>
    BY <1>5 DEF DumpFlush, Finalize, SendFlush
  <2> QED BY <2>1
<1>6. CASE DropWriter
  BY <1>6 DEF DropWriter
<1>7. CASE ThreadFlush \/ ThreadExit \/ ThreadDies \/ UNCHANGED vars
  BY <1>7 DEF ThreadFlush, ThreadExit, ThreadDies, vars
<1> QED BY <1>1, <1>2, <1>3, <1>4, <1>5, <1>6, <1>7 DEF Next, Simulation, Writer, Finished

\* The threaded writer implements the stream of one thread.
THEOREM ThreadImplementsStream == Spec => KeepsStream
<1>1. Init => Stream!Init
  BY DEF Init, Stream!Init
<1> QED BY <1>1, Invariance, StreamStep, PTL DEF Spec, KeepsStream, Stream!Spec
=============================================================================
