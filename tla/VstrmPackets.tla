---------------------------- MODULE VstrmPackets ----------------------------
(***************************************************************************)
(* How an encoded frame becomes vstrm packets: GenerateVstrmPackets and    *)
(* AsChunkArray of video-streamer.cpp, and the extended header of          *)
(* vstrm-packet.cpp.  A chunk is abstracted to its size.                   *)
(***************************************************************************)
EXTENDS Integers, Sequences, FiniteSets, SequencesExt, Functions

CONSTANTS
    NumChunks,     \* kH264ChunksPerFrame (5)
    MaxPayload,    \* kMaxVstrmPayloadSize (1694)
    VstrmIds         \* sequence ids of vstrm packets have 10 bits (1024)

ASSUME PacketSizesAssumption ==
    /\ NumChunks \in Nat \ {0}
    /\ MaxPayload \in Nat \ {0}
    /\ VstrmIds \in Nat \ {0}

\* AsChunkArray: chunks beyond the expected number are dropped, missing ones
\* are empty.
AsChunkArray(sizes) ==
    [i \in 1 .. NumChunks |-> IF i <= Len(sizes) THEN sizes[i] ELSE 0]

\* The do-while loop sends one packet even for an empty chunk.
PacketsWhile(size) == (size + MaxPayload - 1) \div MaxPayload    \* a while loop
PacketsOf(size) == IF size = 0 THEN 1 ELSE (size + MaxPayload - 1) \div MaxPayload

-----------------------------------------------------------------------------
\* The extended header: eight bytes of options, some with an argument.  A new
\* packet forces decoding and has 6 rows of macroblocks a chunk.
OptIdr   == 128
OptRate  == 130
OptForce == 131
OptRows  == 133
ExtSize == 8
kUnknown == -1                                   \* VideoFrameRate::kUnknown

ResetPacket == <<OptForce, OptRows, 6, 0, 0, 0, 0, 0>>

\* Options are looked for up to the first zero; a new one is put there.
SetExtOption(ext, opt, arg) ==
    LET End  == Min({i \in 1 .. ExtSize : ext[i] = 0} \cup {ExtSize + 1})
        Same == {i \in 1 .. End - 1 : ext[i] = opt}
        at   == IF Same = {} THEN End ELSE Min(Same)
    IN  SubSeq(ext, 1, at - 1) \o <<opt>> \o arg \o SubSeq(ext, at + 1 + Len(arg), ExtSize)

\* An option of n bytes is taken out and the rest moved up, all eight bytes
\* being looked at.  At the very end it is left alone.
ClearExtOption(ext, opt, n) ==
    LET Same == {i \in 1 .. ExtSize : ext[i] = opt}
        at   == Min(Same)
    IN  IF Same = {} \/ at + n > ExtSize THEN ext
        ELSE SubSeq(ext, 1, at - 1) \o SubSeq(ext, at + n, ExtSize)
                                    \o SubSeq(<<0, 0>>, 1, n)

SetIdrFlag(ext, flag) ==
    IF flag THEN SetExtOption(ext, OptIdr, <<>>) ELSE ClearExtOption(ext, OptIdr, 1)

SetFrameRate(ext, rate) ==
    IF rate = kUnknown THEN ClearExtOption(ext, OptRate, 2)
    ELSE SetExtOption(ext, OptRate, <<rate>>)

\* What GenerateVstrmPackets does to the header, in its order.
VideoFrameRate == {kUnknown, 0, 1, 2, 3}
ExtHeadersRateFirst ==
    [h \in BOOLEAN \X VideoFrameRate |->
        SetIdrFlag(SetFrameRate(ResetPacket, h[2]), h[1])]
ExtHeaders ==
    [h \in BOOLEAN \X VideoFrameRate |->
        SetFrameRate(SetIdrFlag(ResetPacket, h[1]), h[2])]

-----------------------------------------------------------------------------
\* The packets of chunk i of a frame, without their sequence ids.
ChunkPackets(sizes, i, ts, idr, init, rate) ==
    LET n == PacketsOf(sizes[i])
    IN  [k \in 1 .. n |->
           [size       |-> IF k < n THEN MaxPayload ELSE sizes[i] - (n - 1) * MaxPayload,
            timestamp  |-> ts,
            init       |-> init,
            frameBegin |-> i = 1 /\ k = 1,
            chunkEnd   |-> k = n,
            frameEnd   |-> i = NumChunks /\ k = n,
            ext        |-> ExtHeaders[<<idr, rate>>]]]

\* (*vstrm_seqid)++, reset to 0 at 1024.
SeqIdAfterLate(s) == IF s >= VstrmIds THEN 0 ELSE s + 1            \* tested too late
SeqIdAfter(s) == IF s + 1 >= VstrmIds THEN 0 ELSE s + 1

\* The ids of n packets, the first of which gets s; one more for what follows.
SeqIdsFrom(s, n) ==
    LET id[k \in 1 .. n + 1] == IF k = 1 THEN s ELSE SeqIdAfter(id[k - 1])
    IN  id

\* The packets of a frame, and the sequence id of the next one.
GenerateVstrmPackets(sizes, ts, idr, init, seqid, rate) ==
    LET pkts == FlattenSeq([i \in 1 .. NumChunks |->
                              ChunkPackets(sizes, i, ts, idr, init, rate)])
        ids  == SeqIdsFrom(seqid, Len(pkts))
    IN  [packets |-> [k \in 1 .. Len(pkts) |-> [seqid |-> ids[k], pkt |-> pkts[k]]],
         seqid   |-> ids[Len(pkts) + 1]]

-----------------------------------------------------------------------------
\* What the GamePad needs to put a frame together again (sc-vstrm.rst): the
\* begin and end flags are on the first and the last packet and nowhere else,
\* every chunk ends exactly once, the payloads add up to the frame.
Reassembles(packets, total) ==
    LET n == Len(packets)
        p(k) == packets[k].pkt
    IN  /\ n > 0
        /\ \A k \in 1 .. n : /\ p(k).frameBegin <=> k = 1
                             /\ p(k).frameEnd <=> k = n
                             /\ p(k).size <= MaxPayload
        /\ p(n).chunkEnd
        /\ Cardinality({k \in 1 .. n : p(k).chunkEnd}) = NumChunks
        /\ SumFunction([k \in 1 .. n |-> p(k).size]) = total

\* How the GamePad reads the options (sc-vstrm.rst): one after the other, each
\* with its argument, until a zero byte or the end.
HasArg(opt) == opt \in {129, OptRate, OptRows}

Decoded(ext) ==
    LET start[i \in 1 .. ExtSize] ==
            /\ ext[i] # 0
            /\ \/ i = 1
               \/ i > 1 /\ start[i - 1] /\ ~HasArg(ext[i - 1])
               \/ i > 2 /\ start[i - 2] /\ HasArg(ext[i - 2])
    IN  {<<ext[i], IF HasArg(ext[i]) THEN ext[i + 1] ELSE 0>> :
            i \in {i \in 1 .. ExtSize : start[i]}}
=============================================================================
