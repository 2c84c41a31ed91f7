---------------------------- MODULE AudioStreamer ---------------------------
(***************************************************************************)
(* AudioStreamer (audio-streamer.cpp): the application appends samples to  *)
(* a queue, and a timer takes one packet's worth out of it every 8 ms, or  *)
(* sends silence when it runs low.                                         *)
(*                                                                         *)
(* A sample is the number under which it was pushed: left and right        *)
(* samples alternate, so that odd ones belong to the left channel.         *)
(***************************************************************************)
EXTENDS Integers, Sequences

CONSTANTS
    Count,        \* samples in a packet, kSamplesPerPacket * 2 (768)
    Limit,        \* the queue takes no more from here on (48000 * 32)
    PushSizes,    \* how many samples a call of PushSamples may bring
    SeqIdMod,     \* sequence ids have 10 bits (& 0x3FF)
    MaxSamples    \* bound: samples the application ever has

ASSUME AudioAssumption ==
    /\ Count \in Nat \ {0} /\ Limit \in Nat \ {0} /\ SeqIdMod \in Nat \ {0}
    /\ PushSizes \subseteq Nat /\ MaxSamples \in Nat

VARIABLES
    samples_,    \* the queue
    seqid,       \* of the next packet
    packet,      \* the samples of the last packet, <<>> for silence
    played,      \* history: the newest sample that was sent
    made         \* history: samples the application has produced

audioVars == <<samples_, seqid, packet, played, made>>

AudioInit ==
    /\ samples_ = <<>>
    /\ seqid = 0
    /\ packet = <<>>
    /\ played = 0
    /\ made = 0

\* The queue after n more samples: all of them, or none when it is full.
EnqueueClipped(queue, first, n) ==
    LET room == IF Len(queue) + n <= Limit THEN n ELSE Limit - Len(queue)
    IN  queue \o [k \in 1 .. room |-> first + k - 1]
EnqueueUnlimited(queue, first, n) == queue \o [k \in 1 .. n |-> first + k - 1]
Enqueue(queue, first, n) ==
    IF Len(queue) < Limit THEN queue \o [k \in 1 .. n |-> first + k - 1] ELSE queue

PushSamples(n) ==
    /\ made + n <= MaxSamples
    /\ samples_' = Enqueue(samples_, made + 1, n)
    /\ made' = made + n
    /\ UNCHANGED <<seqid, packet, played>>

-----------------------------------------------------------------------------
\* PopSamples: a packet is only taken while another one stays behind.
RunsLow == Len(samples_) < Count * 2

TakenFrom == SubSeq(samples_, 1, Count)
LeftOverAll == samples_
LeftOver == SubSeq(samples_, Count + 1, Len(samples_))

SendSilence ==
    /\ RunsLow
    /\ packet' = <<>>
    /\ seqid' = (seqid + 1) % SeqIdMod
    /\ UNCHANGED <<samples_, played, made>>

SendSamples ==
    /\ ~RunsLow
    /\ packet' = TakenFrom
    /\ samples_' = LeftOver
    /\ played' = packet'[Count]
    /\ seqid' = (seqid + 1) % SeqIdMod
    /\ UNCHANGED made

Timer == SendSilence \/ SendSamples

AudioNext == Timer \/ \E n \in PushSizes : PushSamples(n)

AudioSpec == AudioInit /\ [][AudioNext]_audioVars

-----------------------------------------------------------------------------
\* Types; the queue passes its limit by less than one push.
AudioTypeOK ==
    /\ samples_ \in Seq(1 .. MaxSamples)
    /\ seqid \in 0 .. SeqIdMod - 1
    /\ packet = <<>> \/ Len(packet) = Count
    /\ played \in 0 .. MaxSamples /\ made \in 0 .. MaxSamples
    /\ \A n \in PushSizes : (\A m \in PushSizes : m <= n) => Len(samples_) < Limit + n

\* What is sent and what waits is in the order in which it was pushed, nothing
\* twice, whatever was dropped in between.
InOrder ==
    /\ \A i \in 1 .. Len(samples_) - 1 : samples_[i] < samples_[i + 1]
    /\ samples_ # <<>> => played < samples_[1]

\* Overflowing pushes do not swap the channels: every packet starts with a left
\* sample and the two samples of a pair stay together.
ChannelsKept ==
    \A i \in 1 .. Len(packet) :
        /\ packet[i] % 2 = i % 2
        /\ i % 2 = 0 => packet[i] = packet[i - 1] + 1
=============================================================================
