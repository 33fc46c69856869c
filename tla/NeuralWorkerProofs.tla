-------------------------- MODULE NeuralWorkerProofs --------------------------
(* Proofs about NeuralWorker, for every size of chunk, queue, pool and     *)
(* model.                                                                  *)
EXTENDS NeuralWorker, Integers, SequenceTheorems, WellFoundedInduction, TLAPS

-----------------------------------------------------------------------------
(* Arithmetic of chunks and of the ring of the dry signal.                 *)

(* A number is some chunks and a part of one.                              *)
LEMMA Quotient ==
  ASSUME NEW c \in Nat \ {0}, NEW x \in Nat
  PROVE  /\ x \div c \in Nat
         /\ (x \div c) * c <= x /\ x < (x \div c + 1) * c
         /\ \E q \in Nat, r \in 0 .. c - 1 : x = c * q + r
<1>1. x \div c \in Nat /\ (x \div c) * c <= x /\ x < (x \div c + 1) * c
  OBVIOUS
<1>2. PICK q \in Nat : q * c <= x /\ x < (q + 1) * c
  BY <1>1
<1>3. x - q * c \in 0 .. c - 1 /\ x = c * q + (x - q * c)
  BY <1>2
<1> QED BY <1>1, <1>3

LEMMA ChunksIn ==
  ASSUME NEW c \in Nat \ {0}, NEW x \in Nat, NEW p \in Nat, x <= (p + 1) * c
  PROVE  x \div c <= p + 1
  OBVIOUS

LEMMA Remainder ==
  ASSUME NEW c \in Nat \ {0}, NEW q \in Nat, NEW r \in 0 .. c - 1
  PROVE  (c * q + r) % c = r
  OBVIOUS

(* The place in its chunk of a frame, and of the next one.                 *)
LEMMA NextRemainder ==
  ASSUME NEW c \in Nat \ {0}, NEW x \in Nat
  PROVE  /\ x % c \in 0 .. c - 1 /\ x % c <= x
         /\ (x + 1) % c = IF (x % c) + 1 = c THEN 0 ELSE (x % c) + 1
<1>1. PICK q \in Nat, r \in 0 .. c - 1 : x = c * q + r
  BY Quotient
<1>2. x % c = r
  BY <1>1, Remainder
<1>3. CASE r + 1 = c
  <2>1. x + 1 = c * (q + 1) + 0 /\ 0 \in 0 .. c - 1 /\ q + 1 \in Nat
    BY <1>1, <1>3
  <2>2. (c * (q + 1) + 0) % c = 0
    BY <2>1, Remainder
  <2>3. (x + 1) % c = 0
    BY <2>1, <2>2
  <2> QED BY <1>1, <1>2, <1>3, <2>3
<1>4. CASE r + 1 # c
  <2>1. x + 1 = c * q + (r + 1) /\ r + 1 \in 0 .. c - 1
    BY <1>1, <1>4
  <2>2. (x + 1) % c = r + 1
    BY <2>1, Remainder
  <2> QED BY <1>1, <1>2, <1>4, <2>2
<1> QED BY <1>3, <1>4

(* Going round the ring at most once.                                      *)
LEMMA Round ==
  ASSUME NEW c \in Nat \ {0}, NEW x \in 0 .. c - 1, NEW d \in 0 .. c - 1
  PROVE  (x + d) % c = IF x + d < c THEN x + d ELSE x + d - c
<1>1. CASE x + d < c
  BY <1>1
<1>2. CASE x + d >= c
  <2>1. x + d - c \in 0 .. c - 1
    BY <1>2
  <2>2. \A y \in 0 .. c - 1 : (y + c) % c = y
    OBVIOUS
  <2> QED BY <1>2, <2>1, <2>2
<1> QED BY <1>1, <1>2

LEMMA Latency == LatencyFrames \in Nat \ {0} /\ ChunkFrames <= LatencyFrames
<1>1. \A q \in Nat \ {0}, c \in Nat \ {0} : q * c \in Nat \ {0} /\ c <= q * c
  OBVIOUS
<1> QED BY <1>1, GeometryAssumption DEF LatencyFrames

(* Every set of numbers that is not empty has a least one.                 *)
LEMMA Least ==
  ASSUME NEW T \in SUBSET Nat, T # {}
  PROVE  \E n \in T : \A m \in T : n <= m
<1>1. PICK n \in T : \A m \in T : ~(<<m, n>> \in OpToRel(<, Nat))
  BY NatLessThanWellFounded, WFMin
<1>2. \A m \in T : ~ (m < n)
  BY <1>1 DEF OpToRel
<1> QED BY <1>2

-----------------------------------------------------------------------------
(* The operators of the model.                                             *)

(* What is dropped as late is a first part of the results that wait, and   *)
(* what follows it is not late.                                            *)
LEMMA LateDrops ==
  ASSUME ready \in Seq(Result), NEW due \in Nat
  PROVE  /\ Late(due) \in 0 .. Len(ready)
         /\ Late(due) < Len(ready) => ready[Late(due) + 1].block.start >= due
<1> DEFINE T == {k \in 0 .. Len(ready) : k < Len(ready) => ready[k + 1].block.start >= due}
           Fit(k) == /\ \A i \in 1 .. k : ready[i].block.start < due
                     /\ k < Len(ready) => ready[k + 1].block.start >= due
<1>1. Len(ready) \in Nat /\ \A i \in 1 .. Len(ready) : ready[i].block.start \in Nat
  <2>1. Len(ready) \in Nat /\ \A i \in 1 .. Len(ready) : ready[i] \in Result
    BY LenProperties, ElementOfSeq
  <2> QED BY <2>1 DEF Result, Block
<1>2. T \in SUBSET Nat /\ Len(ready) \in T
  BY <1>1
<1>3. PICK k \in T : \A m \in T : k <= m
  BY <1>2, Least
<1>4. ASSUME NEW i \in 1 .. k PROVE ready[i].block.start < due
  <2>1. i - 1 \in 0 .. Len(ready) /\ i - 1 \notin T /\ i \in 1 .. Len(ready)
    <3>1. k \in 0 .. Len(ready) /\ k \in Nat
      BY <1>1
    <3>2. i - 1 < k /\ i - 1 \in Nat
      BY <3>1
    <3>3. i - 1 \notin T
      <4> HIDE DEF T
      <4> QED BY <1>3, <3>1, <3>2
    <3> QED BY <1>1, <3>1, <3>2, <3>3
  <2>2. ~(ready[(i - 1) + 1].block.start >= due)
    BY <2>1
  <2> QED BY <1>1, <2>1, <2>2
<1>5. k \in 0 .. Len(ready) /\ Fit(k)
  BY <1>3, <1>4
<1>6. Late(due) = CHOOSE m \in 0 .. Len(ready) : Fit(m)
  BY DEF Late
<1> HIDE DEF T, Fit
<1>7. Late(due) \in 0 .. Len(ready) /\ Fit(Late(due))
  BY <1>5, <1>6
<1> QED BY <1>7 DEF Fit

(* The samples a chunk of the model gives back are a block's.              *)
LEMMA BlockSamples ==
  ASSUME NEW x \in Samples
  PROVE  x \in Seq(Sample) /\ Len(x) = ChunkFrames
<1>1. x \in [1 .. ChunkFrames -> Sample] /\ ChunkFrames \in Nat
  BY GeometryAssumption DEF Samples
<1>2. x \in Seq(Sample)
  BY <1>1, SeqDef
<1> QED BY <1>1, <1>2

(* What is left of a sequence.                                             *)
LEMMA Suffix ==
  ASSUME NEW S, NEW s \in Seq(S), NEW m \in 0 .. Len(s)
  PROVE  /\ SubSeq(s, m + 1, Len(s)) \in Seq(S)
         /\ Len(SubSeq(s, m + 1, Len(s))) = Len(s) - m
         /\ \A i \in 1 .. Len(s) - m : SubSeq(s, m + 1, Len(s))[i] = s[m + i]
<1>1. Len(s) \in Nat /\ \A i \in m + 1 .. Len(s) : s[i] \in S
  BY LenProperties, ElementOfSeq
<1>2. m + 1 \in Int /\ Len(s) \in Int
  BY <1>1
<1>3. /\ SubSeq(s, m + 1, Len(s)) \in Seq(S)
      /\ Len(SubSeq(s, m + 1, Len(s))) = IF m + 1 <= Len(s) THEN Len(s) - (m + 1) + 1 ELSE 0
      /\ \A i \in 1 .. Len(s) - (m + 1) + 1 : SubSeq(s, m + 1, Len(s))[i] = s[(m + 1) + i - 1]
  BY <1>1, <1>2, SubSeqProperties
<1>5. Len(SubSeq(s, m + 1, Len(s))) = Len(s) - m
  BY <1>1, <1>3
<1>6. ASSUME NEW i \in 1 .. Len(s) - m PROVE SubSeq(s, m + 1, Len(s))[i] = s[m + i]
  <2>1. i \in 1 .. Len(s) - (m + 1) + 1 /\ (m + 1) + i - 1 = m + i
    BY <1>1
  <2>2. SubSeq(s, m + 1, Len(s))[i] = s[(m + 1) + i - 1]
    BY <1>3, <2>1
  <2> QED BY <2>1, <2>2
<1> QED BY <1>3, <1>5, <1>6

(* The first n results have the samples at their own place.                *)
Gives(results, blocks, samples, n) ==
  \A i \in 1 .. n :
    /\ results[i].block.gen = blocks[i].gen
    /\ results[i].block.start = blocks[i].start
    /\ \A j \in 1 .. ChunkFrames :
         results[i].block.samples[j] = samples[(i - 1) * ChunkFrames + j]

(* The blocks that are completed get the samples at their own place.       *)
LEMMA FinishedBlocks ==
  ASSUME NEW blocks \in Seq(Block), NEW samples \in Seq(Sample),
         NEW n \in 0 .. Len(blocks), n = Len(samples) \div ChunkFrames,
         n * ChunkFrames <= Len(samples), NEW bad
  PROVE  /\ Finished(blocks, samples, bad) \in Seq(Result)
         /\ Len(Finished(blocks, samples, bad)) = n
         /\ Gives(Finished(blocks, samples, bad), blocks, samples, n)
<1> DEFINE Own(i) == [j \in 1 .. ChunkFrames |-> samples[(i - 1) * ChunkFrames + j]]
           F(i) == [block |-> [blocks[i] EXCEPT !.samples = Own(i)], valid |-> i \notin bad]
<1>0. n \in Nat /\ ChunkFrames \in Nat \ {0} /\ Len(samples) \in Nat /\ Len(blocks) \in Nat
  BY GeometryAssumption, LenProperties
<1>1. ASSUME NEW i \in 1 .. n PROVE blocks[i] \in Block /\ Own(i) \in Samples
  <2>1. ASSUME NEW j \in 1 .. ChunkFrames PROVE samples[(i - 1) * ChunkFrames + j] \in Sample
    <3>1. (i - 1) * ChunkFrames + j \in 1 .. n * ChunkFrames
      BY <1>0
    <3>2. (i - 1) * ChunkFrames + j \in 1 .. Len(samples)
      BY <1>0, <3>1
    <3> QED BY <3>2, ElementOfSeq
  <2>2. i \in 1 .. Len(blocks)
    BY <1>0
  <2> QED BY <2>1, <2>2, ElementOfSeq DEF Samples
<1> HIDE DEF Own
<1>2. ASSUME NEW i \in 1 .. n
      PROVE  /\ F(i) \in Result
             /\ F(i).block.gen = blocks[i].gen /\ F(i).block.start = blocks[i].start
             /\ F(i).block.samples = Own(i)
  BY <1>1 DEF Result, Block
<1>3. Finished(blocks, samples, bad) = [i \in 1 .. n |-> F(i)]
  BY DEF Finished, Own
<1> HIDE DEF F
<1>4. [i \in 1 .. n |-> F(i)] \in [1 .. n -> Result]
  BY <1>2
<1>5. [i \in 1 .. n |-> F(i)] \in Seq(Result) /\ Len([i \in 1 .. n |-> F(i)]) = n
  BY <1>0, <1>4, SeqDef
<1>6. \A i \in 1 .. n : [m \in 1 .. n |-> F(m)][i] = F(i)
  OBVIOUS
<1>7. \A i \in 1 .. n : \A j \in 1 .. ChunkFrames :
         Own(i)[j] = samples[(i - 1) * ChunkFrames + j]
  BY DEF Own
<1>8. ASSUME NEW i \in 1 .. n
      PROVE  /\ Finished(blocks, samples, bad)[i].block.gen = blocks[i].gen
             /\ Finished(blocks, samples, bad)[i].block.start = blocks[i].start
             /\ \A j \in 1 .. ChunkFrames :
                  Finished(blocks, samples, bad)[i].block.samples[j]
                    = samples[(i - 1) * ChunkFrames + j]
  <2>1. Finished(blocks, samples, bad)[i] = F(i)
    BY <1>3, <1>6
  <2> QED BY <1>2, <1>7, <2>1
<1>9. Gives(Finished(blocks, samples, bad), blocks, samples, n)
  BY <1>8 DEF Gives
<1> QED BY <1>3, <1>5, <1>9

-----------------------------------------------------------------------------
(* What the backend does with a block.                                     *)

(* Samples that were captured one after the other.                         *)
Consecutive(s, first) == \A i \in 1 .. Len(s) : s[i] = first + i

LEMMA ConsecutiveSuffix ==
  ASSUME NEW s \in Seq(Sample), NEW first \in Int, Consecutive(s, first), NEW m \in 0 .. Len(s)
  PROVE  Consecutive(SubSeq(s, m + 1, Len(s)), first + m)
<1>0. Len(s) \in Nat
  BY LenProperties
<1>1. /\ Len(SubSeq(s, m + 1, Len(s))) = Len(s) - m
      /\ \A i \in 1 .. Len(s) - m : SubSeq(s, m + 1, Len(s))[i] = s[m + i]
  BY Suffix
<1>2. \A i \in 1 .. Len(s) - m : m + i \in 1 .. Len(s) /\ first + (m + i) = (first + m) + i
  BY <1>0
<1> QED BY <1>1, <1>2 DEF Consecutive

LEMMA ConsecutivePrefix ==
  ASSUME NEW s \in Seq(Sample), NEW first \in Int, Consecutive(s, first), NEW k \in 0 .. Len(s)
  PROVE  /\ SubSeq(s, 1, k) \in Seq(Sample) /\ Len(SubSeq(s, 1, k)) = k
         /\ Consecutive(SubSeq(s, 1, k), first)
<1>0. Len(s) \in Nat /\ k \in Nat /\ k \in Int /\ 1 \in Int
  BY LenProperties
<1>1. \A i \in 1 .. k : s[i] \in Sample
  BY <1>0, ElementOfSeq
<1>2. /\ SubSeq(s, 1, k) \in Seq(Sample)
      /\ Len(SubSeq(s, 1, k)) = IF 1 <= k THEN k - 1 + 1 ELSE 0
      /\ \A i \in 1 .. k - 1 + 1 : SubSeq(s, 1, k)[i] = s[1 + i - 1]
  BY <1>0, <1>1, SubSeqProperties
<1>3. Len(SubSeq(s, 1, k)) = k
  BY <1>0, <1>2
<1>4. ASSUME NEW i \in 1 .. k PROVE SubSeq(s, 1, k)[i] = first + i
  <2>1. i \in 1 .. k - 1 + 1 /\ 1 + i - 1 = i /\ i \in 1 .. Len(s)
    BY <1>0
  <2> QED BY <1>2, <2>1 DEF Consecutive
<1> QED BY <1>2, <1>3, <1>4 DEF Consecutive

LEMMA ConsecutiveConcat ==
  ASSUME NEW s \in Seq(Sample), NEW t \in Seq(Sample), NEW first \in Int,
         Consecutive(s, first), Consecutive(t, first + Len(s))
  PROVE  Consecutive(s \o t, first)
<1>0. Len(s) \in Nat /\ Len(t) \in Nat /\ Len(s \o t) = Len(s) + Len(t)
  BY LenProperties, ConcatProperties
<1> SUFFICES ASSUME NEW i \in 1 .. Len(s) + Len(t) PROVE (s \o t)[i] = first + i
  BY <1>0 DEF Consecutive
<1>1. (s \o t)[i] = IF i <= Len(s) THEN s[i] ELSE t[i - Len(s)]
  BY ConcatProperties
<1>2. CASE i <= Len(s)
  BY <1>0, <1>1, <1>2 DEF Consecutive
<1>3. CASE ~(i <= Len(s))
  <2>1. i - Len(s) \in 1 .. Len(t) /\ first + Len(s) + (i - Len(s)) = first + i
    BY <1>0, <1>3
  <2> QED BY <1>1, <1>3, <2>1 DEF Consecutive
<1> QED BY <1>2, <1>3

(* Where the samples of a block are among those of its chunk of blocks.    *)
LEMMA PlaceOfSample ==
  ASSUME NEW c \in Nat \ {0}, NEW n \in Nat, NEW i \in 1 .. n, NEW j \in 1 .. c,
         NEW total \in Nat, n * c <= total
  PROVE  (i - 1) * c + j \in 1 .. total
<1>1. (i - 1) * c + j \in 1 .. n * c
  OBVIOUS
<1> QED BY <1>1

LEMMA PlaceOfBlock ==
  ASSUME NEW c \in Nat \ {0}, NEW p \in Nat, NEW i \in 1 .. p + 1, NEW j \in 1 .. c,
         NEW start \in Nat, NEW next \in Nat, NEW off \in Nat,
         start + (p + 1 - i) * c = next
  PROVE  off + next - p * c + ((i - 1) * c + j) = off + start + j
<1>1. (p + 1 - i) * c = p * c - (i - 1) * c /\ p * c \in Nat /\ (i - 1) * c \in Nat
  OBVIOUS
<1> QED BY <1>1

LEMMA InStep ==
  ASSUME NEW c \in Nat \ {0}, NEW p \in Nat, NEW n \in Nat, NEW out \in Nat, NEW in \in Nat,
         NEW k \in Nat, p * c = out + in
  PROVE  (p + 1 - n) * c = (out + k - n * c) + (in + c - k)
  OBVIOUS

(* One call of the backend, with block b after the blocks pend, samples    *)
(* comp that came out for them and hold that are still inside: k of the    *)
(* samples it has then come out, and n blocks are complete.                *)
Call(pend, comp, hold, b, k, accepted, samples, blocks, n) ==
  /\ Len(pend) * ChunkFrames = Len(comp) + Len(hold)
  /\ accepted = hold \o b.samples /\ k \in 0 .. Len(accepted)
  /\ samples = comp \o SubSeq(accepted, 1, k)
  /\ blocks = Append(pend, b)
  /\ n = Len(samples) \div ChunkFrames

(* It completes as many blocks as their samples fill, and keeps what is    *)
(* needed for the rest: blocks and samples stay in step.                   *)
LEMMA CallShape ==
  ASSUME NEW pend \in Seq(Block), NEW comp \in Seq(Sample), NEW hold \in Seq(Sample),
         NEW b \in Block, NEW k, NEW accepted, NEW samples, NEW blocks, NEW n,
         Call(pend, comp, hold, b, k, accepted, samples, blocks, n)
  PROVE  /\ accepted \in Seq(Sample) /\ Len(accepted) = Len(hold) + ChunkFrames
         /\ k \in 0 .. Len(accepted)
         /\ samples \in Seq(Sample) /\ Len(samples) = Len(comp) + k
         /\ blocks \in Seq(Block) /\ Len(blocks) = Len(pend) + 1
         /\ \A i \in 1 .. Len(pend) : blocks[i] = pend[i]
         /\ blocks[Len(pend) + 1] = b
         /\ n \in 0 .. Len(blocks) /\ n * ChunkFrames <= Len(samples)
         /\ (Len(pend) + 1 - n) * ChunkFrames
              = (Len(samples) - n * ChunkFrames) + (Len(accepted) - k)
<1>0. ChunkFrames \in Nat \ {0} /\ Len(pend) \in Nat /\ Len(comp) \in Nat /\ Len(hold) \in Nat
  BY GeometryAssumption, LenProperties
<1>1. b.samples \in Seq(Sample) /\ Len(b.samples) = ChunkFrames
  BY BlockSamples DEF Block
<1>2. accepted \in Seq(Sample) /\ Len(accepted) = Len(hold) + ChunkFrames
      /\ k \in 0 .. Len(accepted)
  BY <1>1, ConcatProperties DEF Call
<1>3. SubSeq(accepted, 1, k) \in Seq(Sample) /\ Len(SubSeq(accepted, 1, k)) = k
  <2>1. k \in Int /\ 1 \in Int /\ \A i \in 1 .. k : accepted[i] \in Sample
    BY <1>0, <1>2, ElementOfSeq
  <2>2. k \in Nat
    BY <1>0, <1>2
  <2> QED BY <2>1, <2>2, SubSeqProperties
<1>4. samples \in Seq(Sample) /\ Len(samples) = Len(comp) + k
  BY <1>3, ConcatProperties DEF Call
<1>5. /\ blocks \in Seq(Block) /\ Len(blocks) = Len(pend) + 1
      /\ \A i \in 1 .. Len(pend) : blocks[i] = pend[i]
      /\ blocks[Len(pend) + 1] = b
  BY AppendProperties DEF Call
<1>6. /\ Len(pend) * ChunkFrames = Len(comp) + Len(hold)
      /\ n = Len(samples) \div ChunkFrames
  BY DEF Call
<1>7. Len(samples) \in Nat /\ Len(samples) <= (Len(pend) + 1) * ChunkFrames
  <2>1. Len(samples) <= Len(comp) + Len(hold) + ChunkFrames /\ Len(samples) \in Nat
    BY <1>0, <1>2, <1>4
  <2> QED BY <1>0, <1>6, <2>1
<1>8. n \in Nat /\ n * ChunkFrames <= Len(samples)
  BY <1>0, <1>6, <1>7, Quotient
<1>9. n <= Len(pend) + 1
  <2>1. Len(samples) \div ChunkFrames <= Len(pend) + 1
    BY <1>0, <1>7, ChunksIn
  <2> QED BY <1>6, <2>1
<1>10. (Len(pend) + 1 - n) * ChunkFrames
         = (Len(samples) - n * ChunkFrames) + (Len(accepted) - k)
  <2> DEFINE p == Len(pend)
             out == Len(comp)
             in == Len(hold)
  <2>1. /\ ChunkFrames \in Nat \ {0} /\ p \in Nat /\ n \in Nat /\ out \in Nat /\ in \in Nat
        /\ k \in Nat /\ p * ChunkFrames = out + in
    BY <1>0, <1>2, <1>6, <1>8
  <2>2. Len(samples) = out + k /\ Len(accepted) = in + ChunkFrames
    BY <1>2, <1>4
  <2> HIDE DEF p, out, in
  <2>3. (p + 1 - n) * ChunkFrames = (out + k - n * ChunkFrames) + (in + ChunkFrames - k)
    BY <2>1, InStep
  <2>4. (p + 1 - n) * ChunkFrames
          = (Len(samples) - n * ChunkFrames) + (Len(accepted) - k)
    BY <2>1, <2>2, <2>3
  <2> QED BY <2>4 DEF p
<1> QED BY <1>0, <1>2, <1>4, <1>5, <1>8, <1>9, <1>10

(* What the model has, and what it gave back, goes on without a gap when   *)
(* the block goes on where the last one ended; so a block that is complete *)
(* gets the samples that the backend made of its own.                      *)
LEMMA CallOrder ==
  ASSUME NEW pend \in Seq(Block), NEW comp \in Seq(Sample), NEW hold \in Seq(Sample),
         NEW b \in Block, NEW k, NEW accepted, NEW samples, NEW blocks, NEW n,
         Call(pend, comp, hold, b, k, accepted, samples, blocks, n),
         \A i \in 1 .. Len(pend) :
           pend[i].start + (Len(pend) + 1 - i) * ChunkFrames = b.start,
         NEW off \in Nat,
         Consecutive(comp, off + b.start - Len(pend) * ChunkFrames),
         Consecutive(hold, off + b.start - Len(hold)),
         Consecutive(b.samples, off + b.start)
  PROVE  /\ Consecutive(accepted, off + b.start - Len(hold))
         /\ Consecutive(samples, off + b.start - Len(pend) * ChunkFrames)
         /\ \A i \in 1 .. n, j \in 1 .. ChunkFrames :
              samples[(i - 1) * ChunkFrames + j] = off + blocks[i].start + j
<1>0. /\ ChunkFrames \in Nat \ {0} /\ Len(pend) \in Nat /\ Len(comp) \in Nat /\ Len(hold) \in Nat
      /\ b.start \in Nat /\ Len(pend) * ChunkFrames = Len(comp) + Len(hold)
  BY GeometryAssumption, LenProperties DEF Block, Call
<1>1. /\ accepted \in Seq(Sample) /\ Len(accepted) = Len(hold) + ChunkFrames
      /\ k \in 0 .. Len(accepted)
      /\ samples \in Seq(Sample) /\ Len(samples) = Len(comp) + k
      /\ blocks \in Seq(Block) /\ Len(blocks) = Len(pend) + 1
      /\ \A i \in 1 .. Len(pend) : blocks[i] = pend[i]
      /\ blocks[Len(pend) + 1] = b
      /\ n \in 0 .. Len(blocks) /\ n * ChunkFrames <= Len(samples)
  BY CallShape
<1>2. b.samples \in Seq(Sample)
  BY BlockSamples DEF Block
<1>3. Consecutive(accepted, off + b.start - Len(hold))
  <2>1. off + b.start - Len(hold) \in Int
        /\ off + b.start - Len(hold) + Len(hold) = off + b.start
    BY <1>0
  <2>2. Consecutive(hold \o b.samples, off + b.start - Len(hold))
    BY <1>2, <2>1, ConsecutiveConcat
  <2> QED BY <2>2 DEF Call
<1>4. Consecutive(samples, off + b.start - Len(pend) * ChunkFrames)
  <2>1. /\ off + b.start - Len(hold) \in Int
        /\ off + b.start - Len(pend) * ChunkFrames \in Int
        /\ off + b.start - Len(pend) * ChunkFrames + Len(comp) = off + b.start - Len(hold)
    BY <1>0
  <2>2. SubSeq(accepted, 1, k) \in Seq(Sample)
        /\ Consecutive(SubSeq(accepted, 1, k), off + b.start - Len(hold))
    BY <1>1, <1>3, <2>1, ConsecutivePrefix
  <2>3. Consecutive(comp \o SubSeq(accepted, 1, k), off + b.start - Len(pend) * ChunkFrames)
    BY <2>1, <2>2, ConsecutiveConcat
  <2> QED BY <2>3 DEF Call
<1>5. ASSUME NEW i \in 1 .. n, NEW j \in 1 .. ChunkFrames
      PROVE  samples[(i - 1) * ChunkFrames + j] = off + blocks[i].start + j
  <2>1. n \in Nat /\ i \in 1 .. Len(pend) + 1 /\ i \in 1 .. Len(blocks) /\ Len(samples) \in Nat
    BY <1>0, <1>1
  <2>2. (i - 1) * ChunkFrames + j \in 1 .. Len(samples)
    BY <1>0, <1>1, <2>1, PlaceOfSample
  <2>3. samples[(i - 1) * ChunkFrames + j]
          = off + b.start - Len(pend) * ChunkFrames + ((i - 1) * ChunkFrames + j)
    BY <1>4, <2>2 DEF Consecutive
  <2>4. blocks[i].start + (Len(pend) + 1 - i) * ChunkFrames = b.start
    <3>1. CASE i \in 1 .. Len(pend)
      BY <1>1, <3>1
    <3>2. CASE i = Len(pend) + 1
      <4>1. (Len(pend) + 1 - i) * ChunkFrames = 0
        BY <1>0, <3>2
      <4>2. blocks[i] = b /\ b.start \in Nat
        BY <1>0, <1>1, <3>2
      <4> QED BY <4>1, <4>2
    <3>3. i \in 1 .. Len(pend) \/ i = Len(pend) + 1
      BY <1>0, <2>1
    <3> QED BY <3>1, <3>2, <3>3
  <2>5. blocks[i].start \in Nat
    <3>1. blocks[i] \in Block
      BY <1>1, <2>1, ElementOfSeq
    <3> QED BY <3>1 DEF Block
  <2>6. off + b.start - Len(pend) * ChunkFrames + ((i - 1) * ChunkFrames + j)
          = off + blocks[i].start + j
    <3> DEFINE p == Len(pend)
               start == blocks[i].start
               next == b.start
    <3>1. /\ ChunkFrames \in Nat \ {0} /\ p \in Nat /\ i \in 1 .. p + 1 /\ start \in Nat
          /\ next \in Nat /\ start + (p + 1 - i) * ChunkFrames = next
      BY <1>0, <2>1, <2>4, <2>5
    <3> HIDE DEF p, start, next
    <3>2. off + next - p * ChunkFrames + ((i - 1) * ChunkFrames + j) = off + start + j
      BY <3>1, PlaceOfBlock
    <3> QED BY <3>2 DEF p, start, next
  <2> QED BY <2>3, <2>6
<1> QED BY <1>3, <1>4, <1>5

(* Results behind results.                                                 *)
LEMMA MoreResults ==
  ASSUME NEW s \in Seq(Result), NEW t \in Seq(Result)
  PROVE  s \o t \in Seq(Result) /\ Len(s \o t) = Len(s) + Len(t)
BY ConcatProperties

(* The blocks p, samples c and h that are kept, the n results f given back.*)
Returned(pend, p, c, h, f, n) ==
  /\ h \in Seq(Sample) /\ c \in Seq(Sample) /\ p \in Seq(Block) /\ f \in Seq(Result)
  /\ Len(p) = Len(pend) + 1 - n /\ Len(f) = n /\ n \in Nat
  /\ (Len(pend) + 1 - n) * ChunkFrames = Len(c) + Len(h)

(* What the call keeps inside, and what it gives back.                     *)
LEMMA CallResults ==
  ASSUME NEW pend \in Seq(Block), NEW comp \in Seq(Sample), NEW hold \in Seq(Sample),
         NEW b \in Block, NEW k, NEW accepted, NEW samples, NEW blocks, NEW n,
         Call(pend, comp, hold, b, k, accepted, samples, blocks, n), NEW bad
  PROVE  Returned(pend, SubSeq(blocks, n + 1, Len(blocks)),
                  SubSeq(samples, n * ChunkFrames + 1, Len(samples)),
                  SubSeq(accepted, k + 1, Len(accepted)), Finished(blocks, samples, bad), n)
<1>1. /\ accepted \in Seq(Sample) /\ Len(accepted) = Len(hold) + ChunkFrames
      /\ k \in 0 .. Len(accepted)
      /\ samples \in Seq(Sample) /\ Len(samples) = Len(comp) + k
      /\ blocks \in Seq(Block) /\ Len(blocks) = Len(pend) + 1
      /\ n \in 0 .. Len(blocks) /\ n * ChunkFrames <= Len(samples)
      /\ (Len(pend) + 1 - n) * ChunkFrames
           = (Len(samples) - n * ChunkFrames) + (Len(accepted) - k)
  BY CallShape
<1>2. n = Len(samples) \div ChunkFrames
  BY DEF Call
<1>3. /\ SubSeq(accepted, k + 1, Len(accepted)) \in Seq(Sample)
      /\ Len(SubSeq(accepted, k + 1, Len(accepted))) = Len(accepted) - k
  BY <1>1, Suffix
<1>4. /\ SubSeq(blocks, n + 1, Len(blocks)) \in Seq(Block)
      /\ Len(SubSeq(blocks, n + 1, Len(blocks))) = Len(blocks) - n
  BY <1>1, Suffix
<1>5. n \in Nat /\ n * ChunkFrames \in 0 .. Len(samples)
  <2>1. n \in Nat /\ Len(samples) \in Nat /\ ChunkFrames \in Nat
    BY <1>1, LenProperties, GeometryAssumption
  <2>2. n * ChunkFrames \in Nat
    BY <2>1
  <2> QED BY <1>1, <2>1, <2>2
<1>6. /\ SubSeq(samples, n * ChunkFrames + 1, Len(samples)) \in Seq(Sample)
      /\ Len(SubSeq(samples, n * ChunkFrames + 1, Len(samples)))
           = Len(samples) - n * ChunkFrames
  BY <1>1, <1>5, Suffix
<1>7. /\ Finished(blocks, samples, bad) \in Seq(Result)
      /\ Len(Finished(blocks, samples, bad)) = n
  <2>1. /\ blocks \in Seq(Block) /\ samples \in Seq(Sample) /\ n \in 0 .. Len(blocks)
        /\ n = Len(samples) \div ChunkFrames /\ n * ChunkFrames <= Len(samples)
    BY <1>1, <1>2
  <2> QED BY <2>1, FinishedBlocks
<1>8. (Len(pend) + 1 - n) * ChunkFrames
        = Len(SubSeq(samples, n * ChunkFrames + 1, Len(samples)))
            + Len(SubSeq(accepted, k + 1, Len(accepted)))
  BY <1>1, <1>3, <1>6
<1>9. Len(SubSeq(blocks, n + 1, Len(blocks))) = Len(pend) + 1 - n
  BY <1>1, <1>4
<1> QED BY <1>3, <1>4, <1>5, <1>6, <1>7, <1>8, <1>9 DEF Returned

(* Blocks that come back without inference.                                *)
LEMMA UnusableBlocks ==
  ASSUME NEW blocks \in Seq(Block)
  PROVE  /\ Unusable(blocks) \in Seq(Result)
         /\ Len(Unusable(blocks)) = Len(blocks)
         /\ \A i \in 1 .. Len(blocks) :
              Unusable(blocks)[i] = [block |-> blocks[i], valid |-> FALSE]
<1>1. /\ Len(blocks) \in Nat /\ DOMAIN blocks = 1 .. Len(blocks)
      /\ \A i \in 1 .. Len(blocks) : blocks[i] \in Block
  BY LenProperties, ElementOfSeq
<1>2. Unusable(blocks) = [i \in 1 .. Len(blocks) |-> [block |-> blocks[i], valid |-> FALSE]]
  BY <1>1 DEF Unusable
<1>3. Unusable(blocks) \in [1 .. Len(blocks) -> Result]
  BY <1>1, <1>2 DEF Result
<1>4. Unusable(blocks) \in Seq(Result)
  BY <1>1, <1>3, SeqDef
<1> QED BY <1>1, <1>2, <1>3, <1>4

-----------------------------------------------------------------------------
(* Types, the place in the chunk, and the pool.                            *)

CurrentResult(g) == {r \in Result : r.block.gen = g}

AudioInv ==
  /\ audio \in {"activating", "ready", "drain", "frame", "resetInput",
                "resetOutput", "joining", "off"}
  /\ inCall \in BOOLEAN /\ attached \in BOOLEAN /\ resetDue \in BOOLEAN
  /\ generation \in Nat \ {0} /\ frame \in Nat /\ fill = frame % ChunkFrames
  /\ capture \in Samples
  /\ dry \in [0 .. LatencyFrames - 1 -> Sample] /\ cursor \in 0 .. LatencyFrames - 1
  /\ playback \in Result /\ ready \in Seq(CurrentResult(generation)) /\ free \in Nat
  /\ audio = "drain" => playback = NoResult

SharedInv ==
  /\ input \in Seq(Block) /\ output \in Seq(Result) /\ running \in BOOLEAN
  /\ Len(input) <= QueueBlocks /\ Len(output) <= QueueBlocks

WorkerInv ==
  /\ worker \in {"warming", "loop", "take", "infer", "gone"}
  /\ block \in Block /\ at \in [gen : Nat, next : Nat]
  /\ pending \in Seq(Block) /\ completed \in Seq(Result)
  /\ computed \in Seq(Sample) /\ held \in Seq(Sample)
  /\ failed \in BOOLEAN
  /\ Len(pending) * ChunkFrames = Len(computed) + Len(held)

CountInv == taken \in Sample /\ resets \in 0 .. MaxResets /\ faults \in 0 .. MaxFaults

Inv == AudioInv /\ SharedInv /\ WorkerInv /\ CountInv /\ PoolConserved

(* How many blocks each queue holds, as numbers.                           *)
LEMMA Sizes ==
  ASSUME Inv
  PROVE  /\ {Len(input), Len(output), Len(ready), Len(pending), Len(completed)} \subseteq Nat
         /\ ready \in Seq(Result)
         /\ ChunkFrames \in Nat \ {0} /\ QueueBlocks \in Nat \ {0} /\ Spare \in Nat \ {0}
         /\ fill \in 0 .. ChunkFrames - 1 /\ fill <= frame
<1>1. CurrentResult(generation) \subseteq Result
  BY DEF CurrentResult
<1>2. ready \in Seq(Result)
  BY <1>1, SeqMonotonic DEF Inv, AudioInv
<1>3. fill \in 0 .. ChunkFrames - 1 /\ fill <= frame
  BY GeometryAssumption, NextRemainder DEF Inv, AudioInv
<1> QED BY <1>2, <1>3, GeometryAssumption, BoundAssumption, LenProperties
        DEF Inv, SharedInv, WorkerInv

(* Every variable has its type when the invariant holds.                   *)
LEMMA InvTypes == Inv => TypeOK
<1> SUFFICES ASSUME Inv PROVE TypeOK
  OBVIOUS
<1>1. free \in 0 .. PoolSize
  <2>0. /\ {Len(input), Len(output), Len(ready), Len(pending), Len(completed)} \subseteq Nat
        /\ QueueBlocks \in Nat /\ Spare \in Nat /\ free \in Nat
    BY Sizes DEF Inv, AudioInv
  <2>1. free \in Nat /\ BlocksInUse \in Nat /\ PoolSize \in Nat
    BY <2>0 DEF BlocksInUse, PoolSize
  <2>2. free + BlocksInUse <= PoolSize
    BY DEF Inv, PoolConserved
  <2> QED BY <2>1, <2>2
<1> QED BY <1>1, Sizes DEF Inv, AudioInv, SharedInv, WorkerInv, CountInv, TypeOK

(* What the worker has when it starts with its block.                      *)
LEMMA BeforeShape ==
  ASSUME Inv
  PROVE  /\ Before(block).pending \in Seq(Block)
         /\ Before(block).computed \in Seq(Sample) /\ Before(block).held \in Seq(Sample)
         /\ Before(block).completed \in Seq(Result)
         /\ Len(Before(block).pending) * ChunkFrames
              = Len(Before(block).computed) + Len(Before(block).held)
         /\ Len(Before(block).completed) + Len(Before(block).pending)
              = Len(completed) + Len(pending)
         /\ Len(Before(block).completed) \in Nat /\ Len(Before(block).pending) \in Nat
<1>0. /\ pending \in Seq(Block) /\ completed \in Seq(Result)
      /\ computed \in Seq(Sample) /\ held \in Seq(Sample)
      /\ Len(pending) * ChunkFrames = Len(computed) + Len(held)
      /\ Len(pending) \in Nat /\ Len(completed) \in Nat /\ ChunkFrames \in Nat
  BY Sizes DEF Inv, WorkerInv
<1>1. CASE Discontinuity(block)
  <2>1. /\ Before(block).pending = <<>> /\ Before(block).computed = <<>>
        /\ Before(block).held = <<>>
        /\ Before(block).completed = completed \o Unusable(pending)
    BY <1>1 DEF Before
  <2>2. Unusable(pending) \in Seq(Result) /\ Len(Unusable(pending)) = Len(pending)
    BY <1>0, UnusableBlocks
  <2>3. /\ completed \o Unusable(pending) \in Seq(Result)
        /\ Len(completed \o Unusable(pending)) = Len(completed) + Len(pending)
    <3>1. completed \in Seq(Result)
      BY <1>0
    <3> QED BY <2>2, <3>1, MoreResults
  <2>4. Len(<<>>) = 0 /\ 0 * ChunkFrames = 0 /\ \A S : <<>> \in Seq(S)
    BY <1>0, EmptySeq
  <2> QED BY <1>0, <2>1, <2>3, <2>4
<1>2. CASE ~Discontinuity(block)
  BY <1>0, <1>2 DEF Before
<1> QED BY <1>1, <1>2

(* The backend is called with what Before leaves.                          *)
LEMMA InferCalls ==
  ASSUME Infer,
         Len(Before(block).pending) * ChunkFrames
           = Len(Before(block).computed) + Len(Before(block).held)
  PROVE  \E accepted, k, samples, blocks, n, bad :
           /\ Call(Before(block).pending, Before(block).computed, Before(block).held,
                   block, k, accepted, samples, blocks, n)
           /\ held' = SubSeq(accepted, k + 1, Len(accepted))
           /\ computed' = SubSeq(samples, n * ChunkFrames + 1, Len(samples))
           /\ pending' = SubSeq(blocks, n + 1, Len(blocks))
           /\ completed' = Before(block).completed \o Finished(blocks, samples, bad)
           /\ IF bad = {} THEN UNCHANGED faults ELSE Fault
<1> DEFINE accepted == Before(block).held \o block.samples
           blocks == Append(Before(block).pending, block)
<1>1. PICK k \in 0 .. Len(accepted) :
        LET samples == Before(block).computed \o SubSeq(accepted, 1, k)
            n == Len(samples) \div ChunkFrames
        IN  /\ held' = SubSeq(accepted, k + 1, Len(accepted))
            /\ computed' = SubSeq(samples, n * ChunkFrames + 1, Len(samples))
            /\ pending' = SubSeq(blocks, n + 1, Len(blocks))
            /\ \E bad \in SUBSET (1 .. n) :
                 /\ completed' = Before(block).completed \o Finished(blocks, samples, bad)
                 /\ IF bad = {} THEN UNCHANGED faults ELSE Fault
  BY DEF Infer
<1> DEFINE samples == Before(block).computed \o SubSeq(accepted, 1, k)
           n == Len(samples) \div ChunkFrames
<1>2. PICK bad : /\ completed' = Before(block).completed \o Finished(blocks, samples, bad)
                 /\ IF bad = {} THEN UNCHANGED faults ELSE Fault
  BY <1>1
<1>3. Call(Before(block).pending, Before(block).computed, Before(block).held,
           block, k, accepted, samples, blocks, n)
  BY DEF Call
<1>4. /\ held' = SubSeq(accepted, k + 1, Len(accepted))
      /\ computed' = SubSeq(samples, n * ChunkFrames + 1, Len(samples))
      /\ pending' = SubSeq(blocks, n + 1, Len(blocks))
  BY <1>1
<1> HIDE DEF accepted, blocks, samples, n
<1> QED BY <1>2, <1>3, <1>4

(* A step of the worker, or the end of its warm-up.                        *)
LEMMA WorkerKeepsInv ==
  ASSUME Inv, WarmUp \/ WorkerStep
  PROVE  Inv'
<1>0. /\ {Len(input), Len(output), Len(ready), Len(pending), Len(completed)} \subseteq Nat
      /\ ChunkFrames \in Nat \ {0} /\ QueueBlocks \in Nat \ {0}
      /\ SharedInv /\ WorkerInv /\ CountInv /\ PoolConserved /\ free \in Nat
  BY Sizes DEF Inv, AudioInv
<1>1. AudioInv' /\ UNCHANGED audioVars /\ UNCHANGED <<taken, resets>>
  <2>1. UNCHANGED audioVars /\ UNCHANGED <<taken, resets>>
    BY DEF WarmUp, WorkerStep, Deliver, Take, TakeNothing, Leave, Infer, InferFails,
       PassThrough, Panic, counters
  <2> QED BY <2>1 DEF audioVars, streamVars, resultVars, Inv, AudioInv
<1>2. ASSUME Fault PROVE faults' \in 0 .. MaxFaults
  BY <1>0, <1>2, BoundAssumption DEF Fault, CountInv
<1>3. ASSUME faults' \in 0 .. MaxFaults PROVE CountInv'
  BY <1>0, <1>1, <1>3 DEF CountInv
<1>4. UNCHANGED faults => faults' \in 0 .. MaxFaults
  BY <1>0 DEF CountInv
<1> DEFINE Goal == SharedInv' /\ WorkerInv' /\ CountInv' /\ PoolConserved'
<1>5. CASE WarmUp
  <2>1. /\ UNCHANGED <<input, output, running, block, at, pending, completed, computed,
                       held, failed>>
        /\ worker = "warming" /\ worker' \in {"loop", "gone"} /\ faults' \in 0 .. MaxFaults
    BY <1>2, <1>4, <1>5 DEF WarmUp, sharedVars
  <2>2. SharedInv' /\ WorkerInv'
    BY <1>0, <2>1 DEF SharedInv, WorkerInv
  <2>3. PoolConserved'
    BY <1>0, <1>1, <2>1 DEF PoolConserved, BlocksInUse, Playing, audioVars, resultVars
  <2> QED BY <1>1, <1>3, <2>1, <2>2, <2>3 DEF Inv
<1>6. CASE Deliver
  <2>1. completed \in Seq(Result) /\ completed # <<>> /\ output \in Seq(Result)
    BY <1>0, <1>6 DEF Deliver, WorkerInv, SharedInv
  <2>2. /\ Head(completed) \in Result /\ Tail(completed) \in Seq(Result)
        /\ Len(Tail(completed)) = Len(completed) - 1
    BY <2>1, HeadTailProperties
  <2>3. /\ output' \in Seq(Result) /\ Len(output') = Len(output) + 1
        /\ completed' \in Seq(Result) /\ Len(completed') = Len(completed) - 1
    BY <1>6, <2>1, <2>2, AppendProperties DEF Deliver
  <2>4. /\ UNCHANGED <<input, running, block, at, pending, computed, held, failed, faults>>
        /\ worker = "loop" /\ worker' = "take" /\ Len(output) < QueueBlocks
    BY <1>6 DEF Deliver, counters
  <2>5. SharedInv'
    BY <1>0, <2>3, <2>4 DEF SharedInv
  <2>6. WorkerInv'
    BY <1>0, <2>3, <2>4 DEF WorkerInv
  <2>7. PoolConserved'
    BY <1>0, <1>1, <2>3, <2>4 DEF PoolConserved, BlocksInUse, Playing, audioVars, resultVars
  <2> QED BY <1>1, <1>3, <1>4, <2>4, <2>5, <2>6, <2>7 DEF Inv
<1>7. CASE Take
  <2>1. input \in Seq(Block) /\ input # <<>> /\ block' = Head(input) /\ input' = Tail(input)
    BY <1>0, <1>7 DEF Take, SharedInv
  <2>2. block' \in Block /\ input' \in Seq(Block) /\ Len(input') = Len(input) - 1
    BY <2>1, HeadTailProperties
  <2>3. /\ UNCHANGED <<output, running, at, pending, completed, computed, held, failed, faults>>
        /\ worker \in {"loop", "take"} /\ worker' = "infer"
    BY <1>7 DEF Take, counters
  <2>4. SharedInv'
    BY <1>0, <2>2, <2>3 DEF SharedInv
  <2>5. WorkerInv'
    BY <1>0, <2>2, <2>3 DEF WorkerInv
  <2>6. PoolConserved'
    BY <1>0, <1>1, <2>2, <2>3 DEF PoolConserved, BlocksInUse, Playing, audioVars, resultVars
  <2> QED BY <1>1, <1>3, <1>4, <2>3, <2>4, <2>5, <2>6 DEF Inv
<1>8. CASE TakeNothing \/ Leave
  <2>1. /\ UNCHANGED <<input, output, running, block, at, pending, completed, computed,
                       held, failed, faults>>
        /\ worker \in {"take", "loop"} /\ worker' \in {"loop", "gone"}
    BY <1>8 DEF TakeNothing, Leave, sharedVars, counters
  <2>2. SharedInv' /\ WorkerInv'
    BY <1>0, <2>1 DEF SharedInv, WorkerInv
  <2>3. PoolConserved'
    BY <1>0, <1>1, <2>1 DEF PoolConserved, BlocksInUse, Playing, audioVars, resultVars
  <2> QED BY <1>1, <1>3, <1>4, <2>1, <2>2, <2>3 DEF Inv
(* The ways a block that was taken can end.                                *)
<1>9. ASSUME worker = "infer", worker' = "loop", UNCHANGED sharedVars,
             faults' \in 0 .. MaxFaults, block' = NoBlock, Follow(block),
             pending' \in Seq(Block), completed' \in Seq(Result),
             computed' \in Seq(Sample), held' \in Seq(Sample), failed' \in BOOLEAN,
             Len(pending') * ChunkFrames = Len(computed') + Len(held'),
             Len(completed') + Len(pending') = Len(completed) + Len(pending) + 1
      PROVE  Inv'
  <2>1. NoBlock \in Block
    <3>1. Silence \in Samples
      BY BoundAssumption DEF Silence, Samples, Sample
    <3> QED BY <3>1 DEF NoBlock, Block
  <2>2. at' \in [gen : Nat, next : Nat]
    <3>1. block.gen \in Nat /\ block.start + ChunkFrames \in Nat
      BY <1>0 DEF WorkerInv, Block
    <3> QED BY <1>9, <3>1 DEF Follow
  <2>3. SharedInv'
    BY <1>0, <1>9 DEF SharedInv, sharedVars
  <2>4. WorkerInv'
    BY <1>9, <2>1, <2>2 DEF WorkerInv
  <2>5. PoolConserved'
    <3>1. Len(completed') \in Nat /\ Len(pending') \in Nat
      BY <1>9, LenProperties
    <3>2. /\ worker = "infer" /\ worker' = "loop"
          /\ UNCHANGED <<input, output, free, ready, playback>>
          /\ Len(completed') + Len(pending') = Len(completed) + Len(pending) + 1
      BY <1>1, <1>9 DEF audioVars, resultVars, sharedVars
    <3>3. {Len(input), Len(output), Len(ready), Len(pending), Len(completed)} \subseteq Nat
          /\ free \in Nat /\ PoolConserved
      BY <1>0
    <3> QED BY <3>1, <3>2, <3>3 DEF PoolConserved, BlocksInUse, Playing
  <2> QED BY <1>1, <1>3, <1>9, <2>3, <2>4, <2>5 DEF Inv
<1>10. CASE Infer
  <2> DEFINE pend == Before(block).pending
             comp == Before(block).computed
             hold == Before(block).held
             done == Before(block).completed
  <2>0. /\ pend \in Seq(Block) /\ comp \in Seq(Sample) /\ hold \in Seq(Sample)
        /\ done \in Seq(Result) /\ block \in Block
        /\ Len(pend) * ChunkFrames = Len(comp) + Len(hold)
        /\ Len(done) + Len(pend) = Len(completed) + Len(pending)
        /\ Len(done) \in Nat /\ Len(pend) \in Nat
    BY <1>0, BeforeShape DEF WorkerInv
  <2>1. PICK accepted, k, samples, blocks, n, bad :
          /\ Call(pend, comp, hold, block, k, accepted, samples, blocks, n)
          /\ held' = SubSeq(accepted, k + 1, Len(accepted))
          /\ computed' = SubSeq(samples, n * ChunkFrames + 1, Len(samples))
          /\ pending' = SubSeq(blocks, n + 1, Len(blocks))
          /\ completed' = done \o Finished(blocks, samples, bad)
          /\ IF bad = {} THEN UNCHANGED faults ELSE Fault
    BY <1>10, InferCalls, <2>0
  <2>2. /\ worker = "infer" /\ worker' = "loop" /\ UNCHANGED sharedVars
        /\ block' = NoBlock /\ Follow(block) /\ failed' = FALSE
    BY <1>10 DEF Infer
  <2> HIDE DEF pend, comp, hold, done
  <2>3. /\ held' \in Seq(Sample) /\ computed' \in Seq(Sample) /\ pending' \in Seq(Block)
        /\ Finished(blocks, samples, bad) \in Seq(Result)
        /\ Len(pending') = Len(pend) + 1 - n
        /\ Len(Finished(blocks, samples, bad)) = n
        /\ (Len(pend) + 1 - n) * ChunkFrames = Len(computed') + Len(held')
        /\ n \in Nat
    <3> DEFINE h == SubSeq(accepted, k + 1, Len(accepted))
               c == SubSeq(samples, n * ChunkFrames + 1, Len(samples))
               p == SubSeq(blocks, n + 1, Len(blocks))
    <3>1. /\ pend \in Seq(Block) /\ comp \in Seq(Sample) /\ hold \in Seq(Sample)
          /\ block \in Block
          /\ Call(pend, comp, hold, block, k, accepted, samples, blocks, n)
      BY <2>0, <2>1
    <3>2. Returned(pend, p, c, h, Finished(blocks, samples, bad), n)
      BY <3>1, CallResults
    <3>3. held' = h /\ computed' = c /\ pending' = p
      BY <2>1
    <3> HIDE DEF h, c, p
    <3> QED BY <3>2, <3>3 DEF Returned
  <2>4. completed' \in Seq(Result) /\ Len(completed') = Len(done) + n
    <3>1. completed' = done \o Finished(blocks, samples, bad) /\ done \in Seq(Result)
      BY <2>0, <2>1
    <3>2. /\ Finished(blocks, samples, bad) \in Seq(Result)
          /\ Len(Finished(blocks, samples, bad)) = n
      BY <2>3
    <3> QED BY <3>1, <3>2, MoreResults
  <2>5. Len(pending') * ChunkFrames = Len(computed') + Len(held')
    BY <2>3
  <2>6. Len(completed') + Len(pending') = Len(completed) + Len(pending) + 1
    <3>1. /\ Len(completed') = Len(done) + n /\ Len(pending') = Len(pend) + 1 - n
          /\ Len(done) + Len(pend) = Len(completed) + Len(pending)
          /\ n \in Nat /\ Len(done) \in Nat /\ Len(pend) \in Nat
          /\ Len(completed) \in Nat /\ Len(pending) \in Nat
      BY <1>0, <2>0, <2>3, <2>4
    <3> QED BY <3>1
  <2>7. faults' \in 0 .. MaxFaults
    BY <1>2, <1>4, <2>1
  <2> QED BY <1>9, <2>2, <2>3, <2>4, <2>5, <2>6, <2>7
<1>11. CASE InferFails
  <2> DEFINE pend == Before(block).pending
             done == Before(block).completed
             back == <<block>> \o pend
  <2>0. /\ pend \in Seq(Block) /\ done \in Seq(Result) /\ block \in Block
        /\ Len(done) + Len(pend) = Len(completed) + Len(pending)
        /\ Len(done) \in Nat /\ Len(pend) \in Nat
    BY <1>0, BeforeShape DEF WorkerInv
  <2>1. completed' = done \o Unusable(back)
    BY <1>11 DEF InferFails
  <2>2. back \in Seq(Block) /\ Len(back) = 1 + Len(pend)
    <3>1. <<block>> \in Seq(Block) /\ Len(<<block>>) = 1
      BY <2>0
    <3> QED BY <2>0, <3>1, ConcatProperties
  <2> HIDE DEF pend, done, back
  <2>3. Unusable(back) \in Seq(Result) /\ Len(Unusable(back)) = Len(back)
    BY <2>2, UnusableBlocks
  <2>4. completed' \in Seq(Result) /\ Len(completed') = Len(done) + 1 + Len(pend)
    BY <2>0, <2>1, <2>2, <2>3, ConcatProperties
  <2>5. /\ worker = "infer" /\ worker' = "loop" /\ UNCHANGED sharedVars
        /\ block' = NoBlock /\ Follow(block) /\ failed' = TRUE
        /\ pending' = <<>> /\ computed' = <<>> /\ held' = <<>> /\ Fault
    BY <1>11 DEF InferFails
  <2>6. /\ pending' \in Seq(Block) /\ computed' \in Seq(Sample) /\ held' \in Seq(Sample)
        /\ Len(pending') = 0 /\ Len(computed') = 0 /\ Len(held') = 0
    BY <2>5, EmptySeq
  <2>7. Len(pending') * ChunkFrames = Len(computed') + Len(held')
    BY <1>0, <2>6
  <2>8. Len(completed') + Len(pending') = Len(completed) + Len(pending) + 1
    BY <1>0, <2>0, <2>4, <2>6
  <2> QED BY <1>2, <1>9, <2>4, <2>5, <2>6, <2>7, <2>8
<1>12. CASE PassThrough
  <2> DEFINE pend == Before(block).pending
             done == Before(block).completed
             back == <<block>>
  <2>0. /\ pend \in Seq(Block) /\ done \in Seq(Result) /\ block \in Block
        /\ Before(block).computed \in Seq(Sample) /\ Before(block).held \in Seq(Sample)
        /\ Len(pend) * ChunkFrames = Len(Before(block).computed) + Len(Before(block).held)
        /\ Len(done) + Len(pend) = Len(completed) + Len(pending)
        /\ Len(done) \in Nat /\ Len(pend) \in Nat
    BY <1>0, BeforeShape DEF WorkerInv
  <2>1. completed' = done \o Unusable(back) /\ pending' = pend
        /\ computed' = Before(block).computed /\ held' = Before(block).held
    BY <1>12 DEF PassThrough
  <2>2. back \in Seq(Block) /\ Len(back) = 1
    BY <2>0
  <2> HIDE DEF pend, done, back
  <2>3. Unusable(back) \in Seq(Result) /\ Len(Unusable(back)) = Len(back)
    BY <2>2, UnusableBlocks
  <2>4. completed' \in Seq(Result) /\ Len(completed') = Len(done) + 1
    <3>1. completed' = done \o Unusable(back) /\ done \in Seq(Result)
          /\ Unusable(back) \in Seq(Result) /\ Len(Unusable(back)) = 1
      BY <2>0, <2>1, <2>2, <2>3
    <3> QED BY <3>1, MoreResults
  <2>5. /\ worker = "infer" /\ worker' = "loop" /\ UNCHANGED sharedVars
        /\ block' = NoBlock /\ Follow(block) /\ failed' = TRUE
        /\ faults' \in 0 .. MaxFaults
    BY <1>2, <1>4, <1>12 DEF PassThrough
  <2>6. Len(completed') + Len(pending') = Len(completed) + Len(pending) + 1
    <3>1. /\ Len(completed') = Len(done) + 1 /\ Len(pending') = Len(pend)
          /\ Len(done) + Len(pend) = Len(completed) + Len(pending)
          /\ Len(done) \in Nat /\ Len(pend) \in Nat
          /\ Len(completed) \in Nat /\ Len(pending) \in Nat
      BY <1>0, <2>0, <2>1, <2>4
    <3> QED BY <3>1
  <2> QED BY <1>9, <2>0, <2>1, <2>4, <2>5, <2>6
<1>13. CASE Panic
  <2>1. /\ UNCHANGED <<input, output, running, at, failed>> /\ worker' = "gone"
        /\ block' = NoBlock /\ pending' = <<>> /\ completed' = <<>>
        /\ computed' = <<>> /\ held' = <<>> /\ Fault /\ worker = "infer"
    BY <1>13 DEF Panic, sharedVars
  <2>2. NoBlock \in Block
    <3>1. Silence \in Samples
      BY BoundAssumption DEF Silence, Samples, Sample
    <3> QED BY <3>1 DEF NoBlock, Block
  <2>3. Len(<<>>) = 0 /\ 0 * ChunkFrames = 0 + 0 /\ \A S : <<>> \in Seq(S)
    BY <1>0, EmptySeq
  <2>4. SharedInv' /\ WorkerInv'
    BY <1>0, <2>1, <2>2, <2>3 DEF SharedInv, WorkerInv
  <2>5. PoolConserved'
    BY <1>0, <1>1, <2>1, <2>3 DEF PoolConserved, BlocksInUse, Playing, audioVars, resultVars
  <2> QED BY <1>1, <1>2, <1>3, <2>1, <2>4, <2>5 DEF Inv
<1> QED BY <1>5, <1>6, <1>7, <1>8, <1>10, <1>11, <1>12, <1>13 DEF WorkerStep

LEMMA NoResultIsResult == NoBlock \in Block /\ NoResult \in Result /\ NoResult.block.gen = 0
<1>1. Silence \in Samples
  BY BoundAssumption DEF Silence, Samples, Sample
<1> QED BY <1>1 DEF NoBlock, NoResult, Block, Result

(* What waits is left over, after what is late.                            *)
LEMMA Remaining ==
  ASSUME NEW S, NEW s \in Seq(S), NEW m \in 0 .. Len(s), NEW rest,
         rest = SubSeq(s, m + 1, Len(s))
  PROVE  /\ rest \in Seq(S) /\ Len(rest) = Len(s) - m /\ Len(s) \in Nat
         /\ rest # <<>> => /\ Head(rest) \in S /\ Head(rest) = s[m + 1]
                           /\ Tail(rest) \in Seq(S)
                           /\ Len(Tail(rest)) = Len(s) - m - 1
<1>1. /\ rest \in Seq(S) /\ Len(rest) = Len(s) - m
      /\ \A i \in 1 .. Len(s) - m : rest[i] = s[m + i]
  BY Suffix
<1>2. Len(s) \in Nat
  BY LenProperties
<1>3. ASSUME rest # <<>>
      PROVE  /\ Head(rest) \in S /\ Head(rest) = s[m + 1]
             /\ Tail(rest) \in Seq(S) /\ Len(Tail(rest)) = Len(s) - m - 1
  <2>1. /\ Head(rest) \in S /\ Tail(rest) \in Seq(S) /\ Len(Tail(rest)) = Len(rest) - 1
        /\ Head(rest) = rest[1] /\ Len(rest) # 0
    BY <1>1, <1>3, HeadTailProperties, EmptySeq
  <2>2. 1 \in 1 .. Len(s) - m
    BY <1>1, <1>2, <2>1
  <2> QED BY <1>1, <1>2, <2>1, <2>2
<1> QED BY <1>1, <1>2, <1>3

(* Whether a block is played, as a number.                                 *)
Played(p) == IF p # NoResult THEN 1 ELSE 0

(* A step of the audio thread, or of the main thread.                      *)
LEMMA AudioKeepsInv ==
  ASSUME Inv,
         Activate \/ Process \/ Return \/ HostReset \/ Restore \/ Stop \/ AudioStep
  PROVE  Inv'
<1>0. /\ {Len(input), Len(output), Len(ready), Len(pending), Len(completed)} \subseteq Nat
      /\ ChunkFrames \in Nat \ {0} /\ QueueBlocks \in Nat \ {0}
      /\ AudioInv /\ SharedInv /\ WorkerInv /\ CountInv /\ PoolConserved /\ free \in Nat
  BY Sizes DEF Inv, AudioInv
<1>1. WorkerInv' /\ UNCHANGED <<worker, pending, completed>>
  <2>1. UNCHANGED workerVars
    BY DEF Activate, Process, Return, HostReset, Restore, Stop, AudioStep, BeginOutputChunk,
       DrainOutput, ChooseOutput, Frame, ReclaimInput, ReclaimOutput, Joined
  <2> QED BY <1>0, <2>1 DEF workerVars, WorkerInv
(* A block only goes from one of the audio thread's places to another.     *)
<1> DEFINE in0 == Len(input)   out0 == Len(output)   rdy0 == Len(ready)   ply0 == Played(playback)
           in1 == Len(input')  out1 == Len(output')  rdy1 == Len(ready')  ply1 == Played(playback')
<1>19. in0 \in Nat /\ out0 \in Nat /\ rdy0 \in Nat /\ ply0 \in Nat /\ ply1 \in Nat /\ free \in Nat
  BY <1>0 DEF Played
<1>20. ASSUME in1 \in Nat, out1 \in Nat, rdy1 \in Nat, free' \in Nat,
              free' + in1 + out1 + rdy1 + ply1 = free + in0 + out0 + rdy0 + ply0
       PROVE  PoolConserved'
  <2> DEFINE w == Len(pending) + Len(completed) + (IF worker = "infer" THEN 1 ELSE 0)
             f == free
             g == free'
             m == BlocksInUse
             n == BlocksInUse'
  <2>1. w \in Nat
    BY <1>0
  <2>2. m = 1 + in0 + out0 + rdy0 + ply0 + w
    BY <1>0 DEF BlocksInUse, Playing, Played
  <2>3. n = 1 + in1 + out1 + rdy1 + ply1 + w
    <3>1. BlocksInUse' = 1 + Len(input') + Len(output') + Len(ready')
            + (IF playback' # NoResult THEN 1 ELSE 0)
            + Len(pending) + Len(completed) + (IF worker = "infer" THEN 1 ELSE 0)
      BY <1>1 DEF BlocksInUse, Playing
    <3> QED BY <1>0, <1>20, <3>1 DEF Played
  <2>4. g + n = f + m
    <3>1. f \in Nat /\ g \in Nat /\ g + in1 + out1 + rdy1 + ply1 = f + in0 + out0 + rdy0 + ply0
      BY <1>19, <1>20
    <3> HIDE DEF w, f, g, m, n, in0, out0, rdy0, ply0, in1, out1, rdy1, ply1
    <3> QED BY <1>19, <1>20, <2>1, <2>2, <2>3, <3>1
  <2> HIDE DEF m, n
  <2> QED BY <1>0, <1>1, <2>4 DEF PoolConserved, m, n
<1> HIDE DEF in0, out0, rdy0, ply0, in1, out1, rdy1, ply1
(* Steps that leave the stream and the blocks as they are.                 *)
<1>2. ASSUME UNCHANGED <<streamVars, resultVars, input, output>>, CountInv',
             inCall' \in BOOLEAN, attached' \in BOOLEAN, resetDue' \in BOOLEAN,
             running' \in BOOLEAN,
             audio' \in {"activating", "ready", "frame", "resetInput",
                         "resetOutput", "joining", "off"}
      PROVE  Inv'
  <2>1. UNCHANGED <<generation, frame, fill, capture, dry, cursor, playback, ready, free>>
    BY <1>2 DEF streamVars, resultVars
  <2>2. AudioInv' /\ SharedInv'
    BY <1>0, <1>2, <2>1 DEF AudioInv, SharedInv
  <2>3. PoolConserved'
    BY <1>0, <1>1, <1>2, <2>1 DEF PoolConserved, BlocksInUse, Playing
  <2> QED BY <1>1, <1>2, <2>2, <2>3 DEF Inv
<1>3. UNCHANGED counters => CountInv'
  BY <1>0 DEF CountInv, counters
<1>4. (resets < MaxResets /\ resets' = resets + 1 /\ UNCHANGED <<taken, faults>>) => CountInv'
  BY <1>0, BoundAssumption DEF CountInv
<1>5. ASSUME Rewind, UNCHANGED sharedVars, CountInv',
             inCall' \in BOOLEAN, attached' \in BOOLEAN, resetDue' \in BOOLEAN
      PROVE  Inv'
  <2>1. /\ generation' \in Nat \ {0} /\ frame' = 0 /\ fill' = 0 /\ cursor' = 0
        /\ capture' = capture /\ playback' = NoResult /\ ready' = <<>>
        /\ free' = free + Len(ready) + (IF Playing THEN 1 ELSE 0)
        /\ audio' = "resetInput" /\ UNCHANGED <<input, output, running>>
    BY <1>0, <1>5 DEF Rewind, AudioInv, sharedVars
  <2>2. dry' \in [0 .. LatencyFrames - 1 -> Sample]
    <3>1. dry' = [x \in 0 .. LatencyFrames - 1 |-> 0] /\ 0 \in Sample
      BY <1>0, <1>5, BoundAssumption DEF Rewind, AudioInv, Sample
    <3> QED BY <3>1
  <2>3. 0 % ChunkFrames = 0 /\ 0 \in 0 .. LatencyFrames - 1
    BY <1>0, Latency
  <2>4. AudioInv'
    <3>1. ready' \in Seq(CurrentResult(generation')) /\ free' \in Nat /\ playback' \in Result
      BY <1>0, <2>1, NoResultIsResult
    <3> QED BY <1>0, <1>5, <2>1, <2>2, <2>3, <3>1 DEF AudioInv
  <2>5. PoolConserved'
    <3>1. rdy1 = 0 /\ in1 = in0 /\ out1 = out0 /\ ply1 = 0 /\ free' = free + rdy0 + ply0
      BY <1>0, <2>1 DEF Playing, Played, in0, out0, rdy0, ply0, in1, out1, rdy1, ply1
    <3> QED BY <1>19, <1>20, <3>1
  <2>6. SharedInv'
    BY <1>0, <2>1 DEF SharedInv
  <2> QED BY <1>1, <1>5, <2>4, <2>5, <2>6 DEF Inv
<1>6. {inCall, attached, resetDue, running} \subseteq BOOLEAN
  BY <1>0 DEF AudioInv, SharedInv
<1>7. CASE Activate
  BY <1>2, <1>3, <1>6, <1>7 DEF Activate
<1>8. CASE Process
  <2>1. /\ inCall' = TRUE /\ resetDue' = FALSE /\ UNCHANGED <<attached, sharedVars, counters>>
        /\ audio = "ready"
        /\ IF resetDue THEN Rewind ELSE UNCHANGED <<audio, streamVars, resultVars>>
    BY <1>8 DEF Process, BetweenCalls
  <2>2. UNCHANGED <<input, output, running>>
    BY <2>1 DEF sharedVars
  <2> QED BY <1>2, <1>3, <1>5, <1>6, <2>1, <2>2
<1>9. CASE Return \/ Restore
  <2>1. /\ UNCHANGED <<audio, attached, streamVars, resultVars, input, output, running>>
        /\ inCall' \in BOOLEAN /\ resetDue' \in BOOLEAN /\ CountInv'
    BY <1>3, <1>4, <1>6, <1>9 DEF Return, Restore, sharedVars
  <2>2. audio # "drain" => Inv'
    BY <1>0, <1>2, <1>6, <2>1 DEF AudioInv
  <2>3. CASE audio = "drain"
    <3>1. UNCHANGED <<generation, frame, fill, capture, dry, cursor, playback, ready, free>>
      BY <2>1 DEF streamVars, resultVars
    <3>2. AudioInv' /\ SharedInv'
      BY <1>0, <2>1, <3>1 DEF AudioInv, SharedInv
    <3>3. PoolConserved'
      BY <1>0, <1>1, <2>1, <3>1 DEF PoolConserved, BlocksInUse, Playing
    <3> QED BY <1>1, <2>1, <3>2, <3>3 DEF Inv
  <2> QED BY <2>2, <2>3
<1>10. CASE HostReset
  BY <1>4, <1>5, <1>6, <1>10 DEF HostReset
<1>11. CASE Stop
  BY <1>2, <1>3, <1>6, <1>11 DEF Stop
<1>12. CASE Joined
  BY <1>2, <1>3, <1>6, <1>12 DEF Joined, sharedVars
<1>13. CASE ReclaimInput
  <2>1. CASE input = <<>>
    BY <1>2, <1>3, <1>6, <1>13, <2>1 DEF ReclaimInput, resultVars
  <2>2. CASE input # <<>>
    <3>1. /\ input' = Tail(input) /\ free' = free + 1 /\ audio = "resetInput"
          /\ UNCHANGED <<audio, inCall, attached, playback, ready, resetDue, output, running,
                         generation, frame, fill, capture, dry, cursor>>
          /\ UNCHANGED counters
      BY <1>13, <2>2 DEF ReclaimInput, streamVars
    <3>2. input' \in Seq(Block) /\ Len(input') = Len(input) - 1
      <4>1. input \in Seq(Block)
        BY <1>0 DEF SharedInv
      <4> QED BY <2>2, <3>1, <4>1, HeadTailProperties
    <3>3. AudioInv'
      BY <1>0, <3>1 DEF AudioInv
    <3>4. SharedInv'
      BY <1>0, <3>1, <3>2 DEF SharedInv
    <3>5. PoolConserved'
      BY <1>0, <1>1, <3>1, <3>2 DEF PoolConserved, BlocksInUse, Playing
    <3> QED BY <1>1, <1>3, <3>1, <3>3, <3>4, <3>5 DEF Inv
  <2> QED BY <2>1, <2>2
<1>14. CASE ReclaimOutput
  <2>1. CASE output = <<>>
    BY <1>2, <1>3, <1>6, <1>14, <2>1 DEF ReclaimOutput, resultVars
  <2>2. CASE output # <<>>
    <3>1. /\ output' = Tail(output) /\ free' = free + 1 /\ audio = "resetOutput"
          /\ UNCHANGED <<audio, inCall, attached, playback, ready, resetDue, input, running,
                         generation, frame, fill, capture, dry, cursor>>
          /\ UNCHANGED counters
      BY <1>14, <2>2 DEF ReclaimOutput, streamVars
    <3>2. output' \in Seq(Result) /\ Len(output') = Len(output) - 1
      <4>1. output \in Seq(Result)
        BY <1>0 DEF SharedInv
      <4> QED BY <2>2, <3>1, <4>1, HeadTailProperties
    <3>3. AudioInv'
      BY <1>0, <3>1 DEF AudioInv
    <3>4. SharedInv'
      BY <1>0, <3>1, <3>2 DEF SharedInv
    <3>5. PoolConserved'
      BY <1>0, <1>1, <3>1, <3>2 DEF PoolConserved, BlocksInUse, Playing
    <3> QED BY <1>1, <1>3, <3>1, <3>3, <3>4, <3>5 DEF Inv
  <2> QED BY <2>1, <2>2
<1>15. CASE BeginOutputChunk
  <2>1. /\ audio' = "drain" /\ playback' = NoResult
        /\ free' = free + (IF Playing THEN 1 ELSE 0)
        /\ UNCHANGED <<inCall, attached, ready, resetDue, input, output, running,
                       generation, frame, fill, capture, dry, cursor>>
        /\ UNCHANGED counters
    BY <1>15 DEF BeginOutputChunk, streamVars, sharedVars
  <2>2. AudioInv'
    <3>1. free' \in Nat /\ playback' \in Result
      BY <1>0, <2>1, NoResultIsResult
    <3> QED BY <1>0, <2>1, <3>1 DEF AudioInv
  <2>3. SharedInv'
    BY <1>0, <2>1 DEF SharedInv
  <2>4. PoolConserved'
    BY <1>0, <1>1, <2>1 DEF PoolConserved, BlocksInUse, Playing
  <2> QED BY <1>1, <1>3, <2>1, <2>2, <2>3, <2>4 DEF Inv
<1>16. CASE DrainOutput
  <2>1. /\ output' = Tail(output) /\ output # <<>> /\ audio = "drain"
        /\ IF Keep(Head(output))
           THEN ready' = Append(ready, Head(output)) /\ UNCHANGED free
           ELSE free' = free + 1 /\ UNCHANGED ready
        /\ UNCHANGED <<audio, inCall, attached, playback, resetDue, input, running,
                       generation, frame, fill, capture, dry, cursor>>
        /\ UNCHANGED counters
    BY <1>16 DEF DrainOutput, streamVars
  <2>2. /\ output' \in Seq(Result) /\ Len(output') = Len(output) - 1
        /\ Head(output) \in Result
    <3>1. output \in Seq(Result)
      BY <1>0 DEF SharedInv
    <3> QED BY <2>1, <3>1, HeadTailProperties
  <2>3. /\ ready' \in Seq(CurrentResult(generation)) /\ free' \in Nat
        /\ Len(ready') + free' = Len(ready) + free + 1 /\ Len(ready') \in Nat
    <3>1. ready \in Seq(CurrentResult(generation))
      BY <1>0 DEF AudioInv
    <3>2. CASE Keep(Head(output))
      <4>1. Head(output) \in CurrentResult(generation)
        BY <2>2, <3>2 DEF Keep, CurrentResult
      <4>2. Append(ready, Head(output)) \in Seq(CurrentResult(generation))
            /\ Len(Append(ready, Head(output))) = Len(ready) + 1
        BY <3>1, <4>1, AppendProperties
      <4>3. ready' = Append(ready, Head(output)) /\ free' = free
        BY <2>1, <3>2
      <4>4. ready' \in Seq(CurrentResult(generation)) /\ Len(ready') = Len(ready) + 1
        BY <4>2, <4>3
      <4> QED BY <1>0, <4>3, <4>4
    <3>3. CASE ~Keep(Head(output))
      BY <1>0, <2>1, <3>1, <3>3
    <3> QED BY <3>2, <3>3
  <2>4. AudioInv'
    BY <1>0, <2>1, <2>3 DEF AudioInv
  <2>5. SharedInv'
    BY <1>0, <2>1, <2>2 DEF SharedInv
  <2>6. PoolConserved'
    <3>1. /\ in1 = in0 /\ ply1 = ply0 /\ out1 \in Nat /\ out1 = out0 - 1 /\ rdy1 \in Nat /\ free' \in Nat
          /\ rdy1 + free' = rdy0 + free + 1
      BY <2>1, <2>2, <2>3, LenProperties DEF in0, out0, rdy0, ply0, in1, out1, rdy1, ply1
    <3>2. in1 \in Nat /\ out1 \in Nat /\ rdy1 \in Nat /\ free' \in Nat
      BY <1>19, <3>1
    <3>3. free' + in1 + out1 + rdy1 + ply1 = free + in0 + out0 + rdy0 + ply0
      <4> DEFINE f == free
                 g == free'
      <4>1. f \in Nat /\ g \in Nat /\ rdy1 + g = rdy0 + f + 1
        BY <1>19, <3>1
      <4> HIDE DEF f, g
      <4>2. g + in1 + out1 + rdy1 + ply1 = f + in0 + out0 + rdy0 + ply0
        BY <1>19, <3>1, <3>2, <4>1
      <4> QED BY <4>2 DEF f, g
    <3> QED BY <1>20, <3>2, <3>3
  <2> QED BY <1>1, <1>3, <2>1, <2>4, <2>5, <2>6 DEF Inv
<1>17. CASE ChooseOutput
  <2>1. CASE frame < LatencyFrames
    BY <1>2, <1>3, <1>6, <1>17, <2>1 DEF ChooseOutput, sharedVars
  <2>2. CASE ~(frame < LatencyFrames)
    <3> DEFINE due == frame - LatencyFrames
               rest == SubSeq(ready, Late(due) + 1, Len(ready))
    <3>1. /\ audio = "drain" /\ audio' = "frame" /\ free' = free + Late(due)
          /\ IF rest # <<>> /\ Head(rest).block.start = due
             THEN playback' = Head(rest) /\ ready' = Tail(rest)
             ELSE ready' = rest /\ UNCHANGED playback
          /\ UNCHANGED <<inCall, attached, resetDue, input, output, running,
                         generation, frame, fill, capture, dry, cursor>>
          /\ UNCHANGED counters
      BY <1>17, <2>2 DEF ChooseOutput, streamVars, sharedVars
    <3>2. due \in Nat
      BY <1>0, <2>2, Latency DEF AudioInv
    <3>3. Late(due) \in 0 .. Len(ready)
      <4>1. ready \in Seq(Result)
        BY Sizes
      <4> HIDE DEF due
      <4> QED BY <3>2, <4>1, LateDrops
    <3> HIDE DEF due
    <3>4. ready \in Seq(CurrentResult(generation)) /\ playback = NoResult /\ playback \in Result
          /\ generation \in Nat \ {0}
      BY <1>0, <3>1 DEF AudioInv
    <3>5. /\ rest \in Seq(CurrentResult(generation)) /\ Len(rest) = Len(ready) - Late(due)
          /\ rest # <<>> => /\ Head(rest) \in CurrentResult(generation)
                            /\ Tail(rest) \in Seq(CurrentResult(generation))
                            /\ Len(Tail(rest)) = Len(ready) - Late(due) - 1
      <4>1. ready \in Seq(CurrentResult(generation)) /\ Late(due) \in 0 .. Len(ready)
            /\ rest = SubSeq(ready, Late(due) + 1, Len(ready))
        BY <3>3, <3>4
      <4> HIDE DEF rest
      <4> QED BY <4>1, Remaining
    <3> HIDE DEF rest
    <3>6. /\ ready' \in Seq(CurrentResult(generation)) /\ playback' \in Result
          /\ Len(ready') + (IF playback' # NoResult THEN 1 ELSE 0) = Len(ready) - Late(due)
          /\ Len(ready') \in Nat
      <4>1. CASE rest # <<>> /\ Head(rest).block.start = due
        <5>1. Head(rest) \in Result /\ Head(rest) # NoResult
          BY <3>4, <3>5, <4>1, NoResultIsResult DEF CurrentResult
        <5>2. ready' \in Seq(CurrentResult(generation))
              /\ Len(ready') = Len(ready) - Late(due) - 1 /\ playback' = Head(rest)
          BY <3>1, <3>5, <4>1
        <5>3. Len(ready') \in Nat
          BY <5>2, LenProperties
        <5>4. Len(ready') + 1 = Len(ready) - Late(due)
          BY <1>0, <3>3, <5>2, <5>3
        <5> QED BY <5>1, <5>2, <5>3, <5>4
      <4>2. CASE ~(rest # <<>> /\ Head(rest).block.start = due)
        <5>1. ready' = rest /\ playback' = NoResult
          BY <3>1, <3>4, <4>2
        <5> QED BY <1>0, <3>3, <3>4, <3>5, <5>1
      <4> QED BY <4>1, <4>2
    <3>7. AudioInv'
      <4>1. free' \in Nat
        BY <1>0, <3>1, <3>3
      <4> QED BY <1>0, <3>1, <3>6, <4>1 DEF AudioInv
    <3>8. SharedInv'
      BY <1>0, <3>1 DEF SharedInv
    <3>9. PoolConserved'
      <4>1. /\ in1 = in0 /\ out1 = out0 /\ ply0 = 0 /\ rdy1 \in Nat
            /\ free' = free + Late(due) /\ Late(due) \in Nat /\ rdy1 + ply1 = rdy0 - Late(due)
        BY <1>0, <3>1, <3>3, <3>4, <3>6 DEF Played, in0, out0, rdy0, ply0, in1, out1, rdy1, ply1
      <4> QED BY <1>19, <1>20, <4>1
    <3> QED BY <1>1, <1>3, <3>1, <3>7, <3>8, <3>9 DEF Inv
  <2> QED BY <2>1, <2>2
<1>18. CASE Frame
  <2>1. /\ audio' = "ready" /\ taken < MaxFrames /\ taken' = taken + 1
        /\ capture' = [capture EXCEPT ![fill + 1] = taken']
        /\ dry' = [dry EXCEPT ![cursor] = taken']
        /\ cursor' = (cursor + 1) % LatencyFrames
        /\ frame' = frame + 1
        /\ IF fill + 1 = ChunkFrames
           THEN fill' = 0 /\ SubmitCapture
           ELSE fill' = fill + 1 /\ UNCHANGED <<input, free>>
        /\ UNCHANGED <<inCall, attached, generation, playback, ready, resetDue, output,
                       running, resets, faults>>
    BY <1>18 DEF Frame
  <2>2. taken' \in Sample /\ CountInv'
    BY <1>0, <2>1, BoundAssumption DEF CountInv, Sample
  <2>3. capture' \in Samples
    BY <1>0, <2>1, <2>2 DEF AudioInv, Samples
  <2>4. dry' \in [0 .. LatencyFrames - 1 -> Sample] /\ cursor' \in 0 .. LatencyFrames - 1
    <3>1. dry' \in [0 .. LatencyFrames - 1 -> Sample]
      BY <1>0, <2>1, <2>2 DEF AudioInv
    <3>2. cursor + 1 \in Nat
      BY <1>0, Latency DEF AudioInv
    <3>3. (cursor + 1) % LatencyFrames \in 0 .. LatencyFrames - 1
      BY <3>2, Latency, NextRemainder
    <3> QED BY <2>1, <3>1, <3>3
  <2>5. fill' = frame' % ChunkFrames /\ fill \in 0 .. ChunkFrames - 1 /\ fill <= frame
        /\ frame \in Nat
    <3>1. fill = frame % ChunkFrames /\ frame \in Nat
      BY <1>0 DEF AudioInv
    <3>2. /\ frame % ChunkFrames \in 0 .. ChunkFrames - 1 /\ frame % ChunkFrames <= frame
          /\ (frame + 1) % ChunkFrames
               = IF (frame % ChunkFrames) + 1 = ChunkFrames THEN 0 ELSE (frame % ChunkFrames) + 1
      BY <1>0, <3>1, NextRemainder
    <3> QED BY <2>1, <3>1, <3>2
  <2>6. /\ input' \in Seq(Block) /\ Len(input') <= QueueBlocks /\ Len(input') \in Nat
        /\ free' \in Nat /\ Len(input') + free' = Len(input) + free
    <3>1. input \in Seq(Block) /\ Len(input) <= QueueBlocks
      BY <1>0 DEF SharedInv
    <3>2. CASE fill + 1 = ChunkFrames /\ free > 0 /\ Len(input) < QueueBlocks /\ attached
      <4>1. input' = Append(input, Captured) /\ free' = free - 1
        BY <2>1, <3>2 DEF SubmitCapture
      <4>2. Captured \in Block
        <5>1. frame + 1 - ChunkFrames \in Nat /\ generation \in Nat
          BY <1>0, <2>5, <3>2 DEF AudioInv
        <5> QED BY <2>3, <5>1 DEF Captured, Block
      <4>3. Append(input, Captured) \in Seq(Block)
            /\ Len(Append(input, Captured)) = Len(input) + 1
        <5> DEFINE b == Captured
        <5>1. b \in Block
          BY <4>2
        <5> HIDE DEF b
        <5>2. Append(input, b) \in Seq(Block) /\ Len(Append(input, b)) = Len(input) + 1
          BY <3>1, <5>1, AppendProperties
        <5> QED BY <5>2 DEF b
      <4> QED BY <1>0, <3>1, <3>2, <4>1, <4>3
    <3>3. CASE ~(fill + 1 = ChunkFrames /\ free > 0 /\ Len(input) < QueueBlocks /\ attached)
      <4>1. UNCHANGED <<input, free>>
        BY <2>1, <3>3 DEF SubmitCapture
      <4> QED BY <1>0, <3>1, <4>1
    <3> QED BY <3>2, <3>3
  <2>7. AudioInv'
    BY <1>0, <2>1, <2>3, <2>4, <2>5, <2>6 DEF AudioInv
  <2>8. SharedInv'
    BY <1>0, <2>1, <2>6 DEF SharedInv
  <2>9. PoolConserved'
    <3>1. /\ out1 = out0 /\ rdy1 = rdy0 /\ ply1 = ply0 /\ in1 \in Nat /\ free' \in Nat
          /\ in1 + free' = in0 + free
      BY <2>1, <2>6 DEF in0, out0, rdy0, ply0, in1, out1, rdy1, ply1
    <3>2. in1 \in Nat /\ out1 \in Nat /\ rdy1 \in Nat /\ free' \in Nat
      BY <1>19, <3>1
    <3>3. free' + in1 + out1 + rdy1 + ply1 = free + in0 + out0 + rdy0 + ply0
      <4> DEFINE f == free
                 g == free'
      <4>1. f \in Nat /\ g \in Nat /\ in1 + g = in0 + f
        BY <1>19, <3>1
      <4> HIDE DEF f, g
      <4>2. g + in1 + out1 + rdy1 + ply1 = f + in0 + out0 + rdy0 + ply0
        BY <1>19, <3>1, <3>2, <4>1
      <4> QED BY <4>2 DEF f, g
    <3> QED BY <1>20, <3>2, <3>3
  <2> QED BY <1>1, <2>2, <2>7, <2>8, <2>9 DEF Inv
<1> QED BY <1>7, <1>8, <1>9, <1>10, <1>11, <1>12, <1>13, <1>14, <1>15, <1>16, <1>17, <1>18
        DEF AudioStep

LEMMA InvInvariant == Spec => []Inv
<1>1. Init => Inv
  <2> SUFFICES ASSUME Init PROVE Inv
    OBVIOUS
  <2>1. ChunkFrames \in Nat \ {0} /\ QueueBlocks \in Nat \ {0} /\ Spare \in Nat \ {0}
        /\ LatencyFrames \in Nat \ {0}
    BY GeometryAssumption, BoundAssumption, Latency
  <2>2. Silence \in Samples /\ 0 \in Sample
    BY BoundAssumption DEF Silence, Samples, Sample
  <2>3. Len(<<>>) = 0 /\ \A S : <<>> \in Seq(S)
    BY EmptySeq
  <2>4. AudioInv
    <3>1. free \in Nat
      BY <2>1 DEF Init, PoolSize
    <3>2. dry \in [0 .. LatencyFrames - 1 -> Sample] /\ cursor \in 0 .. LatencyFrames - 1
      BY <2>1, <2>2 DEF Init
    <3>3. fill = frame % ChunkFrames
      BY <2>1 DEF Init
    <3>4. ready \in Seq(CurrentResult(generation)) /\ playback \in Result
      BY NoResultIsResult, <2>3 DEF Init
    <3>5. /\ audio = "activating" /\ inCall = FALSE /\ attached = FALSE /\ resetDue = FALSE
          /\ generation = 1 /\ frame = 0 /\ capture = Silence
      BY DEF Init
    <3>6. generation \in Nat \ {0} /\ frame \in Nat /\ capture \in Samples
      BY <2>2, <3>5
    <3> QED BY <3>1, <3>2, <3>3, <3>4, <3>5, <3>6 DEF AudioInv
  <2>5. SharedInv
    BY <2>1, <2>3 DEF Init, SharedInv
  <2>6. WorkerInv
    <3>1. Len(pending) * ChunkFrames = Len(computed) + Len(held)
      BY <2>1, <2>3 DEF Init
    <3> QED BY <2>3, <3>1, NoResultIsResult DEF Init, WorkerInv
  <2>7. CountInv
    BY BoundAssumption DEF Init, CountInv, Sample
  <2>8. PoolConserved
    BY <2>1, <2>3 DEF Init, PoolConserved, BlocksInUse, PoolSize, Playing
  <2> QED BY <2>4, <2>5, <2>6, <2>7, <2>8 DEF Inv
<1>2. Inv /\ [Next]_vars => Inv'
  <2> SUFFICES ASSUME Inv, [Next]_vars PROVE Inv'
    OBVIOUS
  <2>1. CASE UNCHANGED vars
    <3>1. AudioInv' /\ SharedInv' /\ WorkerInv' /\ CountInv'
      BY <2>1 DEF vars, audioVars, streamVars, resultVars, sharedVars, workerVars, counters,
                  Inv, AudioInv, SharedInv, WorkerInv, CountInv
    <3>2. PoolConserved'
      BY <2>1 DEF vars, audioVars, resultVars, sharedVars, workerVars,
                  Inv, PoolConserved, BlocksInUse, Playing
    <3> QED BY <3>1, <3>2 DEF Inv
  <2> QED BY <2>1, WorkerKeepsInv, AudioKeepsInv DEF Next
<1> QED BY <1>1, <1>2, PTL DEF Spec

(* Every variable keeps its type: the counters their bounds, the queues    *)
(* their capacities, and no more blocks are free than there are.           *)
THEOREM TypesHold == Spec => []TypeOK
BY InvInvariant, InvTypes, PTL

(* No block is lost or made, whatever the worker does and however often    *)
(* the stream is reset: recycle and reset find room for each, and only the *)
(* panic of the worker takes the blocks it holds.                          *)
THEOREM PoolHolds == Spec => []PoolConserved
<1>1. Inv => PoolConserved
  BY DEF Inv
<1> QED BY <1>1, InvInvariant, PTL


-----------------------------------------------------------------------------
(* The samples the model is given.  first is the number of the sample      *)
(* before the stream; frame x of the stream is sample first + x + 1.       *)

(* The blocks that wait end where the next one begins, and so do the       *)
(* samples that came out for them and those that are inside.               *)
Heard(first, gen, next, pend, comp, hold) ==
  /\ \A i \in 1 .. Len(pend) :
       pend[i].gen = gen /\ pend[i].start + (Len(pend) + 1 - i) * ChunkFrames = next
  /\ Consecutive(comp, first + next - Len(pend) * ChunkFrames)
  /\ Consecutive(hold, first + next - Len(hold))

LEMMA HeardNothing ==
  ASSUME NEW first \in Nat, NEW gen \in Nat, NEW next \in Nat
  PROVE  Heard(first, gen, next, <<>>, <<>>, <<>>)
<1>1. Len(<<>>) = 0
  BY EmptySeq
<1>2. \A i \in 1 .. 0 : FALSE
  OBVIOUS
<1> QED BY <1>1, <1>2 DEF Heard, Consecutive

LEMMA NextStart ==
  ASSUME NEW c \in Nat \ {0}, NEW p \in Nat, NEW n \in Nat, NEW i \in Nat, NEW start \in Nat,
         NEW next \in Nat, start + (p + 1 - (n + i)) * c = next, n <= p + 1, n + i <= p + 1
  PROVE  start + ((p + 1 - n) + 1 - i) * c = next + c
<1>1. ((p + 1 - n) + 1 - i) * c = (p + 1 - (n + i)) * c + c
  OBVIOUS
<1>2. (p + 1 - (n + i)) * c \in Nat
  OBVIOUS
<1> QED BY <1>1, <1>2

LEMMA NextPlace ==
  ASSUME NEW c \in Nat \ {0}, NEW p \in Nat, NEW n \in Nat, NEW first \in Nat, NEW next \in Nat
  PROVE  (first + next - p * c) + n * c = first + (next + c) - (p + 1 - n) * c
  OBVIOUS

(* The samples for n blocks are those the blocks were captured with.       *)
InPlace(samples, blocks, n, first) ==
  \A i \in 1 .. n, j \in 1 .. ChunkFrames :
    samples[(i - 1) * ChunkFrames + j] = first + blocks[i].start + j

(* One call keeps the order.                                               *)
LEMMA HeardCall ==
  ASSUME NEW pend \in Seq(Block), NEW comp \in Seq(Sample), NEW hold \in Seq(Sample),
         NEW b \in Block, NEW k, NEW accepted, NEW samples, NEW blocks, NEW n,
         Call(pend, comp, hold, b, k, accepted, samples, blocks, n),
         NEW first \in Nat, Heard(first, b.gen, b.start, pend, comp, hold),
         Consecutive(b.samples, first + b.start)
  PROVE  /\ Heard(first, b.gen, b.start + ChunkFrames, SubSeq(blocks, n + 1, Len(blocks)),
                  SubSeq(samples, n * ChunkFrames + 1, Len(samples)),
                  SubSeq(accepted, k + 1, Len(accepted)))
         /\ \A i \in 1 .. n : blocks[i].gen = b.gen
         /\ InPlace(samples, blocks, n, first)
<1> DEFINE p == Len(pend)
           P == SubSeq(blocks, n + 1, Len(blocks))
           C == SubSeq(samples, n * ChunkFrames + 1, Len(samples))
           H == SubSeq(accepted, k + 1, Len(accepted))
<1>1. /\ accepted \in Seq(Sample) /\ Len(accepted) = Len(hold) + ChunkFrames
      /\ k \in 0 .. Len(accepted)
      /\ samples \in Seq(Sample) /\ Len(samples) = Len(comp) + k
      /\ blocks \in Seq(Block) /\ Len(blocks) = p + 1
      /\ \A i \in 1 .. p : blocks[i] = pend[i]
      /\ blocks[p + 1] = b
      /\ n \in 0 .. Len(blocks) /\ n * ChunkFrames <= Len(samples)
  BY CallShape
<1>2. /\ ChunkFrames \in Nat \ {0} /\ p \in Nat /\ Len(hold) \in Nat /\ n \in Nat /\ n <= p + 1
      /\ b.start \in Nat /\ b.gen \in Nat /\ Len(samples) \in Nat /\ Len(accepted) \in Nat
      /\ k \in Nat /\ Len(blocks) = p + 1
  <2>1. /\ p \in Nat /\ Len(hold) \in Nat /\ Len(samples) \in Nat /\ Len(accepted) \in Nat
        /\ b.start \in Nat /\ b.gen \in Nat
    BY <1>1, LenProperties DEF Block
  <2> QED BY <1>1, <2>1, GeometryAssumption
<1>3. /\ \A i \in 1 .. p :
           pend[i].gen = b.gen /\ pend[i].start + (p + 1 - i) * ChunkFrames = b.start
      /\ Consecutive(comp, first + b.start - p * ChunkFrames)
      /\ Consecutive(hold, first + b.start - Len(hold))
  BY DEF Heard
<1>4. /\ Consecutive(accepted, first + b.start - Len(hold))
      /\ Consecutive(samples, first + b.start - p * ChunkFrames)
      /\ \A i \in 1 .. n, j \in 1 .. ChunkFrames :
           samples[(i - 1) * ChunkFrames + j] = first + blocks[i].start + j
  BY <1>3, CallOrder
<1>5. ASSUME NEW i \in 1 .. p + 1
      PROVE  blocks[i].gen = b.gen /\ blocks[i].start \in Nat
             /\ blocks[i].start + (p + 1 - i) * ChunkFrames = b.start
  <2>1. CASE i = p + 1
    <3>1. (p + 1 - i) * ChunkFrames = 0 /\ blocks[i] = b
      BY <1>1, <1>2, <2>1
    <3> HIDE DEF p
    <3>2. b.start \in Nat
      BY <1>2
    <3>3. blocks[i].start = b.start /\ blocks[i].gen = b.gen
      BY <3>1
    <3> QED BY <3>1, <3>2, <3>3
  <2>2. CASE i \in 1 .. p
    <3>1. blocks[i] = pend[i] /\ pend[i] \in Block
      BY <1>1, <2>2, ElementOfSeq
    <3> HIDE DEF p
    <3>2. pend[i].start \in Nat
      BY <3>1 DEF Block
    <3> QED BY <1>3, <2>2, <3>1, <3>2
  <2>3. i = p + 1 \/ i \in 1 .. p
    <3>1. p \in Nat
      BY <1>2
    <3> HIDE DEF p
    <3> QED BY <3>1
  <2> QED BY <2>1, <2>2, <2>3
<1>6. Len(P) = p + 1 - n /\ \A i \in 1 .. p + 1 - n : P[i] = blocks[n + i]
  <2>1. blocks \in Seq(Block) /\ n \in 0 .. Len(blocks)
    BY <1>1
  <2>2. Len(P) = Len(blocks) - n /\ \A i \in 1 .. Len(blocks) - n : P[i] = blocks[n + i]
    BY <2>1, Suffix
  <2> QED BY <1>2, <2>2
<1>7. Len(H) = Len(accepted) - k
  BY <1>1, Suffix
<1> HIDE DEF p, P, C, H
<1>8. ASSUME NEW i \in 1 .. Len(P)
      PROVE  P[i].gen = b.gen
             /\ P[i].start + (Len(P) + 1 - i) * ChunkFrames = b.start + ChunkFrames
  <2>1. i \in 1 .. p + 1 - n /\ n + i \in 1 .. p + 1 /\ i \in Nat /\ n + i <= p + 1
    BY <1>2, <1>6
  <2> DEFINE s == blocks[n + i].start
             next == b.start
  <2>2. /\ blocks[n + i].gen = b.gen /\ s \in Nat /\ next \in Nat
        /\ s + (p + 1 - (n + i)) * ChunkFrames = next
    BY <1>2, <1>5, <2>1
  <2>3. P[i] = blocks[n + i]
    BY <1>6, <2>1
  <2>4. P[i].start = s
    BY <2>3
  <2>6. P[i].gen = b.gen
    BY <2>2, <2>3
  <2> HIDE DEF s, next
  <2>5. s + ((p + 1 - n) + 1 - i) * ChunkFrames = next + ChunkFrames
    BY <1>2, <2>1, <2>2, NextStart
  <2>7. P[i].start + (Len(P) + 1 - i) * ChunkFrames = next + ChunkFrames
    BY <1>6, <2>4, <2>5
  <2> QED BY <2>6, <2>7 DEF next
<1>9. Consecutive(C, first + (b.start + ChunkFrames) - Len(P) * ChunkFrames)
  <2> DEFINE m == n * ChunkFrames
             from == first + b.start - p * ChunkFrames
  <2>1. m \in 0 .. Len(samples) /\ from \in Int /\ samples \in Seq(Sample)
    <3>1. m \in Nat
      BY <1>2
    <3>2. p * ChunkFrames \in Nat
      BY <1>2
    <3>3. m \in 0 .. Len(samples)
      BY <1>1, <1>2, <3>1
    <3>4. from \in Int
      <4> DEFINE q == p * ChunkFrames
                 next == b.start
      <4>1. q \in Nat /\ next \in Nat
        BY <1>2, <3>2
      <4> HIDE DEF q, next
      <4>2. first + next - q \in Int
        BY <4>1
      <4> QED BY <4>2 DEF q, next
    <3> QED BY <1>1, <3>3, <3>4
  <2>2. Consecutive(samples, from)
    BY <1>4
  <2>3. from + m = first + (b.start + ChunkFrames) - (p + 1 - n) * ChunkFrames
    <3> DEFINE next == b.start
    <3>1. next \in Nat
      BY <1>2
    <3> HIDE DEF next
    <3>2. (first + next - p * ChunkFrames) + n * ChunkFrames
            = first + (next + ChunkFrames) - (p + 1 - n) * ChunkFrames
      BY <1>2, <3>1, NextPlace
    <3> QED BY <3>2 DEF next
  <2>4. C = SubSeq(samples, m + 1, Len(samples))
    BY DEF C
  <2> HIDE DEF m, from
  <2>5. Consecutive(C, from + m)
    BY <2>1, <2>2, <2>4, ConsecutiveSuffix
  <2> QED BY <1>6, <2>3, <2>5
<1>10. Consecutive(H, first + (b.start + ChunkFrames) - Len(H))
  <2> DEFINE from == first + b.start - Len(hold)
  <2>1. from \in Int /\ from + k = first + (b.start + ChunkFrames) - Len(H)
    <3> DEFINE h == Len(hold)
               next == b.start
               l == Len(H)
    <3>1. h \in Nat /\ next \in Nat /\ k \in Nat /\ l = (h + ChunkFrames) - k
      BY <1>1, <1>2, <1>7
    <3> HIDE DEF h, next, l
    <3>2. first + next - h \in Int /\ first + next - h + k = first + (next + ChunkFrames) - l
      BY <1>2, <3>1
    <3> QED BY <3>2 DEF h, next, l
  <2>2. Consecutive(accepted, from) /\ accepted \in Seq(Sample) /\ k \in 0 .. Len(accepted)
    BY <1>1, <1>4
  <2>3. H = SubSeq(accepted, k + 1, Len(accepted))
    BY DEF H
  <2> HIDE DEF from
  <2>4. Consecutive(H, from + k)
    BY <2>1, <2>2, <2>3, ConsecutiveSuffix
  <2> QED BY <2>1, <2>4
<1>11. Heard(first, b.gen, b.start + ChunkFrames, P, C, H)
  BY <1>8, <1>9, <1>10 DEF Heard
<1>12. \A i \in 1 .. n : blocks[i].gen = b.gen
  <2>1. \A i \in 1 .. n : i \in 1 .. p + 1
    BY <1>2
  <2> QED BY <1>5, <2>1
<1>13. InPlace(samples, blocks, n, first)
  BY <1>4 DEF InPlace
<1> QED BY <1>11, <1>12, <1>13 DEF P, C, H


(* The blocks, and the results with samples of inference, that hold what   *)
(* was captured: frame x of stream g is sample off[g] + x + 1.  None is of *)
(* a stream that is yet to come.                                           *)
Captures(off, g) ==
  {b \in Block : b.gen <= g /\ Consecutive(b.samples, off[b.gen] + b.start)}
Returns(off, g) ==
  {r \in Result : /\ r.block.gen <= g
                  /\ r.valid => Consecutive(r.block.samples, off[r.block.gen] + r.block.start)}

AudioStreams(off) ==
  /\ taken = off[generation] + frame
  /\ \A i \in 1 .. fill : capture[i] = off[generation] + frame - fill + i
  /\ playback \in Returns(off, generation) /\ ready \in Seq(Returns(off, generation))

QueueStreams(off) ==
  input \in Seq(Captures(off, generation)) /\ output \in Seq(Returns(off, generation))

WorkerStreams(off) ==
  /\ worker = "infer" => block \in Captures(off, generation)
  /\ completed \in Seq(Returns(off, generation)) /\ at.gen <= generation
  /\ Heard(off[at.gen], at.gen, at.next, pending, computed, held)
  /\ failed => pending = <<>> /\ computed = <<>> /\ held = <<>>

Streams(off) == AudioStreams(off) /\ QueueStreams(off) /\ WorkerStreams(off)

LEMMA SeqOf ==
  ASSUME NEW S, NEW T, NEW s \in Seq(S), \A i \in 1 .. Len(s) : s[i] \in T
  PROVE  s \in Seq(T)
<1>1. Len(s) \in Nat /\ s \in [1 .. Len(s) -> S]
  BY LenProperties
<1>2. s \in [1 .. Len(s) -> T]
  BY <1>1
<1> QED BY <1>1, <1>2, SeqDef

LEMMA SeqConcat ==
  ASSUME NEW S, NEW s \in Seq(S), NEW t \in Seq(S)
  PROVE  s \o t \in Seq(S)
BY ConcatProperties

LEMMA SeqHead ==
  ASSUME NEW S, NEW s \in Seq(S), s # <<>>
  PROVE  Head(s) \in S /\ Tail(s) \in Seq(S)
BY HeadTailProperties

LEMMA NoResultReturns ==
  ASSUME NEW off \in [Nat -> Nat], NEW g \in Nat
  PROVE  NoResult \in Returns(off, g)
<1>1. NoResult \in Result /\ NoResult.block.gen = 0 /\ NoResult.valid = FALSE
  BY NoResultIsResult DEF NoResult
<1> QED BY <1>1 DEF Returns

LEMMA UnusableReturns ==
  ASSUME NEW off \in [Nat -> Nat], NEW g \in Nat, NEW blocks \in Seq(Block),
         \A i \in 1 .. Len(blocks) : blocks[i].gen <= g
  PROVE  Unusable(blocks) \in Seq(Returns(off, g))
<1> DEFINE u == Unusable(blocks)
<1>1. /\ u \in Seq(Result) /\ Len(u) = Len(blocks)
      /\ \A i \in 1 .. Len(blocks) : u[i] = [block |-> blocks[i], valid |-> FALSE]
  BY UnusableBlocks
<1> HIDE DEF u
<1>2. ASSUME NEW i \in 1 .. Len(u) PROVE u[i] \in Returns(off, g)
  <2>1. i \in 1 .. Len(blocks) /\ blocks[i].gen <= g
    BY <1>1
  <2>2. u[i].block = blocks[i] /\ u[i].valid = FALSE
    <3>1. u[i] = [block |-> blocks[i], valid |-> FALSE]
      BY <1>1, <2>1
    <3> QED BY <3>1
  <2>3. u[i] \in Result
    BY <1>1, ElementOfSeq
  <2> QED BY <2>1, <2>2, <2>3 DEF Returns
<1>3. u \in Seq(Returns(off, g))
  BY <1>1, <1>2, SeqOf
<1> QED BY <1>3 DEF u

LEMMA FinishedReturns ==
  ASSUME NEW off \in [Nat -> Nat], NEW g \in Nat,
         NEW blocks \in Seq(Block), NEW samples \in Seq(Sample),
         NEW n \in 0 .. Len(blocks), n = Len(samples) \div ChunkFrames,
         n * ChunkFrames <= Len(samples), NEW bad, NEW b \in Block, b.gen <= g,
         \A i \in 1 .. n : blocks[i].gen = b.gen,
         InPlace(samples, blocks, n, off[b.gen])
  PROVE  Finished(blocks, samples, bad) \in Seq(Returns(off, g))
<1> DEFINE f == Finished(blocks, samples, bad)
<1>1. f \in Seq(Result) /\ Len(f) = n /\ Gives(f, blocks, samples, n)
  BY FinishedBlocks
<1> HIDE DEF f
<1>2. ASSUME NEW i \in 1 .. Len(f) PROVE f[i] \in Returns(off, g)
  <2>0. i \in 1 .. n
    BY <1>1
  <2>1. f[i] \in Result /\ f[i].block.gen = b.gen /\ f[i].block.start = blocks[i].start
    BY <1>1, <2>0, ElementOfSeq DEF Gives
  <2>2. Len(f[i].block.samples) = ChunkFrames
    <3>1. f[i].block.samples \in Samples
      BY <2>1 DEF Result, Block
    <3> QED BY <3>1, BlockSamples
  <2>3. ASSUME NEW j \in 1 .. ChunkFrames
        PROVE  f[i].block.samples[j] = off[b.gen] + blocks[i].start + j
    <3>1. f[i].block.samples[j] = samples[(i - 1) * ChunkFrames + j]
      BY <1>1, <2>0 DEF Gives
    <3>2. samples[(i - 1) * ChunkFrames + j] = off[b.gen] + blocks[i].start + j
      BY <2>0 DEF InPlace
    <3> QED BY <3>1, <3>2
  <2>4. Consecutive(f[i].block.samples, off[f[i].block.gen] + f[i].block.start)
    BY <2>1, <2>2, <2>3 DEF Consecutive
  <2> QED BY <2>1, <2>4 DEF Returns
<1>3. f \in Seq(Returns(off, g))
  BY <1>1, <1>2, SeqOf
<1> QED BY <1>3 DEF f

(* What the worker has when it starts with its block is of the stream of   *)
(* the block, or nothing.                                                  *)
LEMMA BeforeStreams ==
  ASSUME Inv, NEW off \in [Nat -> Nat], WorkerStreams(off), worker = "infer"
  PROVE  /\ Heard(off[block.gen], block.gen, block.start, Before(block).pending,
                  Before(block).computed, Before(block).held)
         /\ Before(block).completed \in Seq(Returns(off, generation))
         /\ Discontinuity(block) \/ failed =>
              /\ Before(block).pending = <<>> /\ Before(block).computed = <<>>
              /\ Before(block).held = <<>>
<1>0. /\ block.gen \in Nat /\ block.start \in Nat /\ at.gen \in Nat /\ at.next \in Nat
      /\ off[block.gen] \in Nat /\ generation \in Nat
      /\ pending \in Seq(Block) /\ completed \in Seq(Returns(off, generation))
      /\ Heard(off[at.gen], at.gen, at.next, pending, computed, held) /\ at.gen <= generation
      /\ failed => pending = <<>> /\ computed = <<>> /\ held = <<>>
  BY DEF Inv, AudioInv, WorkerInv, WorkerStreams, Block
<1>1. CASE Discontinuity(block)
  <2>1. /\ Before(block).pending = <<>> /\ Before(block).computed = <<>>
        /\ Before(block).held = <<>>
        /\ Before(block).completed = completed \o Unusable(pending)
    BY <1>1 DEF Before
  <2>2. \A i \in 1 .. Len(pending) : pending[i].gen <= generation
    BY <1>0 DEF Heard
  <2>3. Unusable(pending) \in Seq(Returns(off, generation))
    BY <1>0, <2>2, UnusableReturns
  <2>4. completed \o Unusable(pending) \in Seq(Returns(off, generation))
    <3>1. completed \in Seq(Returns(off, generation))
      BY <1>0
    <3> QED BY <2>3, <3>1, SeqConcat
  <2>5. Heard(off[block.gen], block.gen, block.start, <<>>, <<>>, <<>>)
    BY <1>0, HeardNothing
  <2> QED BY <2>1, <2>4, <2>5
<1>2. CASE ~Discontinuity(block)
  <2>1. block.gen = at.gen /\ block.start = at.next
    BY <1>2 DEF Discontinuity
  <2>2. /\ Before(block).pending = pending /\ Before(block).computed = computed
        /\ Before(block).held = held /\ Before(block).completed = completed
    BY <1>2 DEF Before
  <2> QED BY <1>0, <1>2, <2>1, <2>2
<1> QED BY <1>1, <1>2

(* The end of the worker's work on a block.                                *)
LEMMA BlockStreams ==
  ASSUME Inv, NEW off \in [Nat -> Nat], Streams(off), worker = "infer",
         worker' = "loop", Follow(block),
         Heard(off[block.gen], block.gen, block.start + ChunkFrames, pending', computed', held'),
         failed' => pending' = <<>> /\ computed' = <<>> /\ held' = <<>>,
         NEW s \in Seq(Returns(off, generation)), completed' = Before(block).completed \o s,
         UNCHANGED generation
  PROVE  WorkerStreams(off)'
<1>1. Before(block).completed \in Seq(Returns(off, generation))
  BY BeforeStreams DEF Streams
<1>2. completed' \in Seq(Returns(off, generation))
  BY <1>1, SeqConcat
<1>3. block.gen <= generation /\ at'.gen = block.gen /\ at'.next = block.start + ChunkFrames
  BY DEF Streams, WorkerStreams, Captures, Follow
<1> QED BY <1>2, <1>3 DEF WorkerStreams

LEMMA InferStreams ==
  ASSUME Inv, NEW off \in [Nat -> Nat], Streams(off), Infer \/ InferFails \/ PassThrough
  PROVE  WorkerStreams(off)'
<1>1. /\ worker = "infer" /\ worker' = "loop" /\ Follow(block) /\ UNCHANGED audioVars
  BY DEF Infer, InferFails, PassThrough
<1>2. /\ Heard(off[block.gen], block.gen, block.start, Before(block).pending,
               Before(block).computed, Before(block).held)
      /\ Before(block).completed \in Seq(Returns(off, generation))
      /\ Discontinuity(block) \/ failed =>
           /\ Before(block).pending = <<>> /\ Before(block).computed = <<>>
           /\ Before(block).held = <<>>
  BY <1>1, BeforeStreams DEF Streams
<1>3. /\ block \in Block /\ block.gen <= generation /\ generation \in Nat
      /\ Consecutive(block.samples, off[block.gen] + block.start)
      /\ block.gen \in Nat /\ off[block.gen] \in Nat /\ UNCHANGED generation
      /\ block.start + ChunkFrames \in Nat
  <2>1. block \in Captures(off, generation)
    BY <1>1 DEF Streams, WorkerStreams
  <2>2. /\ block \in Block /\ block.gen <= generation
        /\ Consecutive(block.samples, off[block.gen] + block.start)
    BY <2>1 DEF Captures
  <2>3. block.gen \in Nat /\ block.start \in Nat
    BY <2>2 DEF Block
  <2>4. generation \in Nat /\ UNCHANGED generation
    BY <1>1 DEF Inv, AudioInv, audioVars, streamVars
  <2> QED BY <2>2, <2>3, <2>4, GeometryAssumption
<1>4. /\ Before(block).pending \in Seq(Block)
      /\ Before(block).computed \in Seq(Sample) /\ Before(block).held \in Seq(Sample)
      /\ Len(Before(block).pending) * ChunkFrames
           = Len(Before(block).computed) + Len(Before(block).held)
  BY BeforeShape
<1> DEFINE pend == Before(block).pending
           comp == Before(block).computed
           hold == Before(block).held
           done == Before(block).completed
<1>5. CASE Infer
  <2>1. PICK accepted, k, samples, blocks, n, bad :
          /\ Call(pend, comp, hold, block, k, accepted, samples, blocks, n)
          /\ held' = SubSeq(accepted, k + 1, Len(accepted))
          /\ computed' = SubSeq(samples, n * ChunkFrames + 1, Len(samples))
          /\ pending' = SubSeq(blocks, n + 1, Len(blocks))
          /\ completed' = done \o Finished(blocks, samples, bad)
          /\ IF bad = {} THEN UNCHANGED faults ELSE Fault
    BY <1>4, <1>5, InferCalls
  <2> DEFINE P == SubSeq(blocks, n + 1, Len(blocks))
             C == SubSeq(samples, n * ChunkFrames + 1, Len(samples))
             H == SubSeq(accepted, k + 1, Len(accepted))
             first == off[block.gen]
  <2>2. /\ pend \in Seq(Block) /\ comp \in Seq(Sample) /\ hold \in Seq(Sample)
        /\ block \in Block /\ first \in Nat
        /\ Call(pend, comp, hold, block, k, accepted, samples, blocks, n)
        /\ Heard(first, block.gen, block.start, pend, comp, hold)
        /\ Consecutive(block.samples, first + block.start)
    <3>1. /\ pend \in Seq(Block) /\ comp \in Seq(Sample) /\ hold \in Seq(Sample)
      BY <1>4
    <3>2. Heard(first, block.gen, block.start, pend, comp, hold)
      BY <1>2
    <3>3. block \in Block /\ first \in Nat /\ Consecutive(block.samples, first + block.start)
      BY <1>3
    <3>4. Call(pend, comp, hold, block, k, accepted, samples, blocks, n)
      BY <2>1
    <3> QED BY <3>1, <3>2, <3>3, <3>4
  <2>3. held' = H /\ computed' = C /\ pending' = P /\ failed' = FALSE
    BY <1>5, <2>1 DEF Infer
  <2>4. completed' = done \o Finished(blocks, samples, bad)
    BY <2>1
  <2> HIDE DEF pend, comp, hold, done, first
  <2>5. /\ Heard(first, block.gen, block.start + ChunkFrames, P, C, H)
        /\ \A i \in 1 .. n : blocks[i].gen = block.gen
        /\ InPlace(samples, blocks, n, first)
    BY <2>2, HeardCall
  <2> HIDE DEF P, C, H
  <2>6. /\ blocks \in Seq(Block) /\ samples \in Seq(Sample)
        /\ n \in 0 .. Len(blocks) /\ n * ChunkFrames <= Len(samples)
    BY <2>2, CallShape
  <2>7. n = Len(samples) \div ChunkFrames
    BY <2>2 DEF Call
  <2>8. Finished(blocks, samples, bad) \in Seq(Returns(off, generation))
    <3>1. /\ blocks \in Seq(Block) /\ samples \in Seq(Sample)
          /\ n \in 0 .. Len(blocks) /\ n = Len(samples) \div ChunkFrames
          /\ n * ChunkFrames <= Len(samples) /\ block \in Block /\ block.gen <= generation
          /\ generation \in Nat
          /\ \A i \in 1 .. n : blocks[i].gen = block.gen
          /\ InPlace(samples, blocks, n, off[block.gen])
      BY <1>3, <2>5, <2>6, <2>7 DEF first
    <3> QED BY <3>1, FinishedReturns
  <2>9. Heard(off[block.gen], block.gen, block.start + ChunkFrames, pending', computed', held')
    BY <2>3, <2>5 DEF first
  <2>10. completed' = Before(block).completed \o Finished(blocks, samples, bad)
    BY <2>4 DEF done
  <2> QED BY <1>1, <1>3, <2>3, <2>8, <2>9, <2>10, BlockStreams
<1> HIDE DEF pend, comp, hold, done
<1>6. CASE InferFails
  <2> DEFINE back == <<block>> \o Before(block).pending
  <2>1. completed' = Before(block).completed \o Unusable(back)
        /\ pending' = <<>> /\ computed' = <<>> /\ held' = <<>>
    BY <1>6 DEF InferFails
  <2>2. /\ back \in Seq(Block) /\ Len(back) = 1 + Len(Before(block).pending)
        /\ Len(Before(block).pending) \in Nat
        /\ \A i \in 1 .. Len(back) : back[i].gen <= generation
    <3> DEFINE q == Before(block).pending
               l == <<block>>
    <3>1. l \in Seq(Block) /\ Len(l) = 1 /\ l[1] = block /\ q \in Seq(Block) /\ Len(q) \in Nat
      <4>1. l \in Seq(Block) /\ Len(l) = 1 /\ l[1] = block
        BY <1>3
      <4>2. q \in Seq(Block) /\ Len(q) \in Nat
        BY <1>4, LenProperties
      <4> HIDE DEF q, l
      <4> QED BY <4>1, <4>2
    <3>2. \A i \in 1 .. Len(q) : q[i].gen = block.gen
      BY <1>2 DEF Heard
    <3>3. back = l \o q
      OBVIOUS
    <3> HIDE DEF q, l, back
    <3>4. /\ back \in Seq(Block) /\ Len(back) = Len(l) + Len(q)
          /\ \A i \in 1 .. Len(l) + Len(q) :
               back[i] = IF i <= Len(l) THEN l[i] ELSE q[i - Len(l)]
      BY <3>1, <3>3, ConcatProperties
    <3>5. ASSUME NEW i \in 1 .. Len(back) PROVE back[i].gen <= generation
      <4>1. CASE i = 1
        <5>1. 1 \in 1 .. Len(l) + Len(q) /\ 1 <= Len(l)
          BY <3>1
        <5>2. back[1] = l[1]
          BY <3>4, <5>1
        <5> QED BY <1>3, <3>1, <4>1, <5>2
      <4>2. CASE i # 1
        <5>0. Len(back) = 1 + Len(q) /\ Len(l) = 1 /\ Len(q) \in Nat
          BY <3>1, <3>4
        <5>1. i - 1 \in 1 .. Len(q) /\ back[i] = q[i - 1]
          <6>1. i \in 1 .. Len(l) + Len(q) /\ ~(i <= Len(l)) /\ i - Len(l) = i - 1
                /\ i - 1 \in 1 .. Len(q)
            BY <4>2, <5>0
          <6>2. back[i] = IF i <= Len(l) THEN l[i] ELSE q[i - Len(l)]
            BY <3>4, <6>1
          <6> QED BY <6>1, <6>2
        <5> QED BY <1>3, <3>2, <5>1
      <4> QED BY <4>1, <4>2
    <3> QED BY <3>1, <3>4, <3>5 DEF q
  <2> HIDE DEF back
  <2>3. Unusable(back) \in Seq(Returns(off, generation))
    BY <1>3, <2>2, UnusableReturns
  <2>4. Heard(off[block.gen], block.gen, block.start + ChunkFrames, pending', computed', held')
    BY <1>3, <2>1, HeardNothing
  <2> QED BY <1>1, <1>3, <2>1, <2>3, <2>4, BlockStreams
<1>7. CASE PassThrough
  <2> DEFINE back == <<block>>
  <2>1. /\ completed' = Before(block).completed \o Unusable(back)
        /\ pending' = Before(block).pending /\ computed' = Before(block).computed
        /\ held' = Before(block).held /\ (Discontinuity(block) \/ failed)
    BY <1>7 DEF PassThrough
  <2>2. pending' = <<>> /\ computed' = <<>> /\ held' = <<>>
    BY <1>2, <2>1
  <2>3. back \in Seq(Block) /\ \A i \in 1 .. Len(back) : back[i].gen <= generation
    BY <1>3
  <2> HIDE DEF back
  <2>4. Unusable(back) \in Seq(Returns(off, generation))
    BY <1>3, <2>3, UnusableReturns
  <2>5. Heard(off[block.gen], block.gen, block.start + ChunkFrames, pending', computed', held')
    BY <1>3, <2>2, HeardNothing
  <2> QED BY <1>1, <1>3, <2>1, <2>2, <2>4, <2>5, BlockStreams
<1> QED BY <1>5, <1>6, <1>7


(* The streams when the input of the host, and the model, go on.  A step   *)
(* of the worker:                                                          *)
LEMMA WorkerStreamStep ==
  ASSUME Inv, NEW off \in [Nat -> Nat], Streams(off), WarmUp \/ WorkerStep
  PROVE  Streams(off)'
<1>1. AudioStreams(off)' /\ UNCHANGED generation
  <2>1. UNCHANGED <<generation, frame, fill, capture, playback, ready, taken>>
    BY DEF WarmUp, WorkerStep, Deliver, Take, TakeNothing, Leave, Infer, InferFails,
       PassThrough, Panic, counters, audioVars, streamVars, resultVars
  <2> QED BY <2>1 DEF Streams, AudioStreams
<1>2. /\ input \in Seq(Captures(off, generation)) /\ output \in Seq(Returns(off, generation))
      /\ completed \in Seq(Returns(off, generation))
  BY DEF Streams, QueueStreams, WorkerStreams
<1>3. CASE WarmUp \/ TakeNothing \/ Leave
  <2>1. /\ UNCHANGED <<input, output, at, pending, completed, computed, held, failed>>
        /\ worker' # "infer"
    BY <1>3 DEF WarmUp, TakeNothing, Leave, sharedVars
  <2>2. QueueStreams(off)'
    BY <1>1, <1>2, <2>1 DEF QueueStreams
  <2>3. WorkerStreams(off)'
    BY <1>1, <2>1 DEF Streams, WorkerStreams
  <2> QED BY <1>1, <2>2, <2>3 DEF Streams
<1>4. CASE Deliver
  <2>1. /\ UNCHANGED <<input, at, pending, computed, held, failed>> /\ worker' = "take"
        /\ completed # <<>> /\ completed' = Tail(completed)
        /\ output' = Append(output, Head(completed))
    BY <1>4 DEF Deliver
  <2>2. Head(completed) \in Returns(off, generation)
        /\ completed' \in Seq(Returns(off, generation))
    BY <1>2, <2>1, SeqHead
  <2>3. output' \in Seq(Returns(off, generation))
    <3> DEFINE r == Head(completed)
               S == Returns(off, generation)
    <3>1. r \in S /\ output \in Seq(S) /\ output' = Append(output, r)
      BY <1>2, <2>1, <2>2
    <3> HIDE DEF r, S
    <3>2. output' \in Seq(S)
      BY <3>1, AppendProperties
    <3> QED BY <3>2 DEF S
  <2>4. QueueStreams(off)'
    BY <1>1, <1>2, <2>1, <2>3 DEF QueueStreams
  <2>5. WorkerStreams(off)'
    BY <1>1, <2>1, <2>2 DEF Streams, WorkerStreams
  <2> QED BY <1>1, <2>4, <2>5 DEF Streams
<1>5. CASE Take
  <2>1. /\ UNCHANGED <<output, at, pending, completed, computed, held, failed>>
        /\ input # <<>> /\ block' = Head(input) /\ input' = Tail(input)
    BY <1>5 DEF Take
  <2>2. block' \in Captures(off, generation) /\ input' \in Seq(Captures(off, generation))
    BY <1>2, <2>1, SeqHead
  <2>3. QueueStreams(off)'
    BY <1>1, <1>2, <2>1, <2>2 DEF QueueStreams
  <2>4. WorkerStreams(off)'
    BY <1>1, <2>1, <2>2 DEF Streams, WorkerStreams
  <2> QED BY <1>1, <2>3, <2>4 DEF Streams
<1>6. CASE Infer \/ InferFails \/ PassThrough
  <2>1. UNCHANGED <<input, output>>
    BY <1>6 DEF Infer, InferFails, PassThrough, sharedVars
  <2>2. QueueStreams(off)'
    BY <1>1, <1>2, <2>1 DEF QueueStreams
  <2> QED BY <1>1, <1>6, <2>2, InferStreams DEF Streams
<1>7. CASE Panic
  <2>1. /\ UNCHANGED <<input, output, at, failed>> /\ worker' = "gone"
        /\ pending' = <<>> /\ completed' = <<>> /\ computed' = <<>> /\ held' = <<>>
    BY <1>7 DEF Panic, sharedVars
  <2>2. QueueStreams(off)'
    BY <1>1, <1>2, <2>1 DEF QueueStreams
  <2>3. at.gen \in Nat /\ at.next \in Nat /\ off[at.gen] \in Nat /\ at.gen <= generation
    BY DEF Inv, WorkerInv, Streams, WorkerStreams
  <2>4. Heard(off[at.gen], at.gen, at.next, pending', computed', held')
    BY <2>1, <2>3, HeardNothing
  <2>5. completed' \in Seq(Returns(off, generation))
    BY <2>1, EmptySeq
  <2>6. WorkerStreams(off)'
    BY <1>1, <2>1, <2>3, <2>4, <2>5 DEF WorkerStreams
  <2> QED BY <1>1, <2>2, <2>6 DEF Streams
<1> QED BY <1>3, <1>4, <1>5, <1>6, <1>7 DEF WorkerStep

(* A reset begins another stream, with the frame that comes next.          *)
LEMMA LaterStream ==
  ASSUME NEW off \in [Nat -> Nat], NEW g \in Nat, NEW n \in Nat, NEW new,
         new = [off EXCEPT ![g + 1] = n]
  PROVE  /\ new \in [Nat -> Nat] /\ new[g + 1] = n
         /\ \A h \in Nat : h <= g => new[h] = off[h]
         /\ Captures(off, g) \subseteq Captures(new, g + 1)
         /\ Returns(off, g) \subseteq Returns(new, g + 1)
<1>1. new \in [Nat -> Nat] /\ new[g + 1] = n /\ \A h \in Nat : h <= g => new[h] = off[h]
  OBVIOUS
<1>2. ASSUME NEW b \in Captures(off, g) PROVE b \in Captures(new, g + 1)
  <2>1. b \in Block /\ b.gen <= g /\ Consecutive(b.samples, off[b.gen] + b.start)
    BY DEF Captures
  <2>2. b.gen \in Nat
    BY <2>1 DEF Block
  <2>3. new[b.gen] = off[b.gen] /\ b.gen <= g + 1
    BY <1>1, <2>1, <2>2
  <2> QED BY <2>1, <2>3 DEF Captures
<1>3. ASSUME NEW r \in Returns(off, g) PROVE r \in Returns(new, g + 1)
  <2>1. r \in Result /\ r.block.gen <= g
        /\ (r.valid => Consecutive(r.block.samples, off[r.block.gen] + r.block.start))
    BY DEF Returns
  <2>2. r.block.gen \in Nat
    BY <2>1 DEF Result, Block
  <2>3. new[r.block.gen] = off[r.block.gen] /\ r.block.gen <= g + 1
    BY <1>1, <2>1, <2>2
  <2> QED BY <2>1, <2>3 DEF Returns
<1> QED BY <1>1, <1>2, <1>3

LEMMA RewindStreams ==
  ASSUME Inv, NEW off \in [Nat -> Nat], Streams(off), Rewind,
         UNCHANGED <<input, output, workerVars, taken>>
  PROVE  \E new \in [Nat -> Nat] : Streams(new)'
<1>1. /\ generation \in Nat /\ taken \in Nat /\ at.gen \in Nat
  BY DEF Inv, AudioInv, CountInv, WorkerInv, Sample
<1>2. PICK new \in [Nat -> Nat] :
        /\ new[generation + 1] = taken
        /\ \A h \in Nat : h <= generation => new[h] = off[h]
        /\ Captures(off, generation) \subseteq Captures(new, generation + 1)
        /\ Returns(off, generation) \subseteq Returns(new, generation + 1)
  <2> DEFINE new == [off EXCEPT ![generation + 1] = taken]
  <2>1. /\ new \in [Nat -> Nat] /\ new[generation + 1] = taken
        /\ \A h \in Nat : h <= generation => new[h] = off[h]
        /\ Captures(off, generation) \subseteq Captures(new, generation + 1)
        /\ Returns(off, generation) \subseteq Returns(new, generation + 1)
    BY <1>1, LaterStream
  <2> HIDE DEF new
  <2> QED BY <2>1
<1>3. /\ generation' = generation + 1 /\ frame' = 0 /\ fill' = 0
      /\ playback' = NoResult /\ ready' = <<>> /\ taken' = taken
      /\ UNCHANGED <<input, output, worker, block, at, pending, completed, computed, held, failed>>
  BY DEF Rewind, workerVars
<1>4. AudioStreams(new)'
  <2>1. taken = new[generation + 1] + 0
    BY <1>1, <1>2
  <2>2. NoResult \in Returns(new, generation + 1)
    BY <1>1, <1>2, NoResultReturns
  <2>3. <<>> \in Seq(Returns(new, generation + 1)) /\ \A i \in 1 .. 0 : FALSE
    BY EmptySeq
  <2> QED BY <1>3, <2>1, <2>2, <2>3 DEF AudioStreams
<1>5. /\ input \in Seq(Captures(new, generation + 1))
      /\ output \in Seq(Returns(new, generation + 1))
      /\ completed \in Seq(Returns(new, generation + 1))
  <2> DEFINE S == Captures(off, generation)
             T == Captures(new, generation + 1)
             R == Returns(off, generation)
             U == Returns(new, generation + 1)
  <2>1. input \in Seq(S) /\ output \in Seq(R) /\ completed \in Seq(R)
    BY DEF Streams, QueueStreams, WorkerStreams
  <2>2. S \subseteq T /\ R \subseteq U
    BY <1>2
  <2> HIDE DEF S, T, R, U
  <2>3. input \in Seq(T) /\ output \in Seq(U) /\ completed \in Seq(U)
    BY <2>1, <2>2, SeqMonotonic
  <2> QED BY <2>3 DEF T, U
<1>6. QueueStreams(new)'
  BY <1>3, <1>5 DEF QueueStreams
<1>7. WorkerStreams(new)'
  <2>1. /\ worker = "infer" => block \in Captures(off, generation)
        /\ at.gen <= generation /\ Heard(off[at.gen], at.gen, at.next, pending, computed, held)
        /\ failed => pending = <<>> /\ computed = <<>> /\ held = <<>>
    BY DEF Streams, WorkerStreams
  <2>2. new[at.gen] = off[at.gen] /\ at.gen <= generation + 1
    <3> DEFINE h == at.gen
    <3>1. h \in Nat /\ h <= generation
      BY <1>1, <2>1
    <3> HIDE DEF h
    <3>2. new[h] = off[h] /\ h <= generation + 1
      BY <1>1, <1>2, <3>1
    <3> QED BY <3>2 DEF h
  <2>3. worker = "infer" => block \in Captures(new, generation + 1)
    BY <1>2, <2>1
  <2> QED BY <1>3, <1>5, <2>1, <2>2, <2>3 DEF WorkerStreams
<1> QED BY <1>2, <1>4, <1>6, <1>7 DEF Streams


(* A step of the audio thread, or of the main thread:                      *)
LEMMA AudioStreamStep ==
  ASSUME Inv, NEW off \in [Nat -> Nat], Streams(off),
         Activate \/ Process \/ Return \/ HostReset \/ Restore \/ Stop \/ AudioStep
  PROVE  \E new \in [Nat -> Nat] : Streams(new)'
<1>1. UNCHANGED workerVars
  BY DEF Activate, Process, Return, HostReset, Restore, Stop, AudioStep, BeginOutputChunk,
     DrainOutput, ChooseOutput, Frame, ReclaimInput, ReclaimOutput, Joined
<1>2. ASSUME UNCHANGED generation PROVE WorkerStreams(off)'
  BY <1>1, <1>2 DEF workerVars, Streams, WorkerStreams
<1>3. /\ input \in Seq(Captures(off, generation)) /\ output \in Seq(Returns(off, generation))
      /\ playback \in Returns(off, generation) /\ ready \in Seq(Returns(off, generation))
  BY DEF Streams, QueueStreams, AudioStreams
<1>4. ASSUME UNCHANGED <<generation, frame, fill, capture, taken>>,
             playback' \in Returns(off, generation), ready' \in Seq(Returns(off, generation)),
             input' \in Seq(Captures(off, generation)), output' \in Seq(Returns(off, generation))
      PROVE  Streams(off)'
  <2>1. AudioStreams(off)'
    BY <1>4 DEF Streams, AudioStreams
  <2>2. QueueStreams(off)'
    BY <1>4 DEF QueueStreams
  <2> QED BY <1>2, <1>4, <2>1, <2>2 DEF Streams
<1>5. ASSUME UNCHANGED <<streamVars, resultVars, input, output, taken>> PROVE Streams(off)'
  BY <1>3, <1>4, <1>5 DEF streamVars, resultVars
<1>6. CASE Activate \/ Return \/ Restore \/ Stop \/ Joined
  BY <1>5, <1>6 DEF Activate, Return, Restore, Stop, Joined, sharedVars, counters
<1>7. CASE Process
  <2>1. /\ UNCHANGED <<input, output, workerVars, taken>>
        /\ Rewind \/ UNCHANGED <<streamVars, resultVars>>
    BY <1>7 DEF Process, sharedVars, counters
  <2> QED BY <1>5, <2>1, RewindStreams
<1>8. CASE HostReset
  <2>1. Rewind /\ UNCHANGED <<input, output, workerVars, taken>>
    BY <1>8 DEF HostReset, sharedVars
  <2> QED BY <2>1, RewindStreams
<1>9. CASE ReclaimInput
  <2>1. /\ UNCHANGED <<generation, frame, fill, capture, taken, playback, ready, output>>
        /\ input # <<>> => input' = Tail(input)
        /\ input = <<>> => input' = input
    BY <1>9 DEF ReclaimInput, streamVars, counters
  <2>2. input' \in Seq(Captures(off, generation))
    BY <1>3, <2>1, SeqHead
  <2> QED BY <1>3, <1>4, <2>1, <2>2
<1>10. CASE ReclaimOutput
  <2>1. /\ UNCHANGED <<generation, frame, fill, capture, taken, playback, ready, input>>
        /\ output # <<>> => output' = Tail(output)
        /\ output = <<>> => output' = output
    BY <1>10 DEF ReclaimOutput, streamVars, counters
  <2>2. output' \in Seq(Returns(off, generation))
    BY <1>3, <2>1, SeqHead
  <2> QED BY <1>3, <1>4, <2>1, <2>2
<1>11. CASE BeginOutputChunk
  <2>1. /\ UNCHANGED <<generation, frame, fill, capture, taken, ready, input, output>>
        /\ playback' = NoResult
    BY <1>11 DEF BeginOutputChunk, streamVars, sharedVars, counters
  <2>2. playback' \in Returns(off, generation)
    <3>1. generation \in Nat
      BY DEF Inv, AudioInv
    <3> QED BY <2>1, <3>1, NoResultReturns
  <2> QED BY <1>3, <1>4, <2>1, <2>2
<1>12. CASE DrainOutput
  <2>1. /\ UNCHANGED <<generation, frame, fill, capture, taken, playback, input>>
        /\ output # <<>> /\ output' = Tail(output)
        /\ ready' = Append(ready, Head(output)) \/ ready' = ready
    BY <1>12 DEF DrainOutput, streamVars, counters
  <2>2. Head(output) \in Returns(off, generation) /\ output' \in Seq(Returns(off, generation))
    BY <1>3, <2>1, SeqHead
  <2>3. ready' \in Seq(Returns(off, generation))
    <3> DEFINE r == Head(output)
               S == Returns(off, generation)
    <3>1. /\ r \in S /\ ready \in Seq(S)
          /\ ready' = Append(ready, r) \/ ready' = ready
      BY <1>3, <2>1, <2>2
    <3> HIDE DEF r, S
    <3>2. Append(ready, r) \in Seq(S)
      BY <3>1, AppendProperties
    <3>3. ready' \in Seq(S)
      BY <3>1, <3>2
    <3> QED BY <3>3 DEF S
  <2> QED BY <1>3, <1>4, <2>1, <2>2, <2>3
<1>13. CASE ChooseOutput
  <2>1. CASE frame < LatencyFrames
    BY <1>5, <1>13, <2>1 DEF ChooseOutput, sharedVars, counters
  <2>2. CASE ~(frame < LatencyFrames)
    <3> DEFINE due == frame - LatencyFrames
               rest == SubSeq(ready, Late(due) + 1, Len(ready))
    <3>1. /\ UNCHANGED <<generation, frame, fill, capture, taken, input, output>>
          /\ IF rest # <<>> /\ Head(rest).block.start = due
             THEN playback' = Head(rest) /\ ready' = Tail(rest)
             ELSE ready' = rest /\ UNCHANGED playback
      BY <1>13, <2>2 DEF ChooseOutput, streamVars, sharedVars, counters
    <3>2. due \in Nat
      BY <2>2, Latency DEF Inv, AudioInv
    <3> HIDE DEF due
    <3>3. Late(due) \in 0 .. Len(ready)
      <4>1. ready \in Seq(Result)
        BY Sizes
      <4> QED BY <3>2, <4>1, LateDrops
    <3>4. /\ rest \in Seq(Returns(off, generation))
          /\ rest # <<>> => /\ Head(rest) \in Returns(off, generation)
                            /\ Tail(rest) \in Seq(Returns(off, generation))
      <4>1. /\ ready \in Seq(Returns(off, generation)) /\ Late(due) \in 0 .. Len(ready)
            /\ rest = SubSeq(ready, Late(due) + 1, Len(ready))
        BY <1>3, <3>3
      <4> HIDE DEF rest
      <4> QED BY <4>1, Remaining
    <3> HIDE DEF rest
    <3>5. playback' \in Returns(off, generation) /\ ready' \in Seq(Returns(off, generation))
      BY <1>3, <3>1, <3>4
    <3>6. input' \in Seq(Captures(off, generation)) /\ output' \in Seq(Returns(off, generation))
      BY <1>3, <3>1
    <3> QED BY <1>4, <3>1, <3>5, <3>6
  <2> QED BY <2>1, <2>2
<1>14. CASE Frame
  <2>1. /\ taken' = taken + 1 /\ frame' = frame + 1
        /\ capture' = [capture EXCEPT ![fill + 1] = taken']
        /\ IF fill + 1 = ChunkFrames
           THEN fill' = 0 /\ SubmitCapture
           ELSE fill' = fill + 1 /\ UNCHANGED <<input, free>>
        /\ UNCHANGED <<generation, playback, ready, output>>
    BY <1>14 DEF Frame
  <2> DEFINE first == off[generation]
  <2>2. /\ ChunkFrames \in Nat \ {0} /\ fill \in 0 .. ChunkFrames - 1 /\ fill <= frame
        /\ frame \in Nat /\ generation \in Nat /\ first \in Nat /\ capture \in Samples
        /\ taken \in Nat /\ taken = first + frame
        /\ \A i \in 1 .. fill : capture[i] = first + frame - fill + i
    <3>1. fill \in 0 .. ChunkFrames - 1 /\ fill <= frame
      BY Sizes
    <3>2. /\ frame \in Nat /\ generation \in Nat /\ first \in Nat /\ capture \in Samples
          /\ taken \in Nat
      BY DEF Inv, AudioInv, CountInv, Sample
    <3>3. /\ taken = first + frame
          /\ \A i \in 1 .. fill : capture[i] = first + frame - fill + i
      BY DEF Streams, AudioStreams
    <3> QED BY <3>1, <3>2, <3>3, GeometryAssumption
  <2> HIDE DEF first
  <2>3. ASSUME NEW i \in 1 .. fill + 1 PROVE capture'[i] = first + frame - fill + i
    <3>1. i \in 1 .. ChunkFrames /\ fill + 1 \in 1 .. ChunkFrames
      BY <2>2
    <3>2. capture'[i] = IF i = fill + 1 THEN taken + 1 ELSE capture[i]
      BY <2>1, <2>2, <3>1 DEF Samples
    <3>3. CASE i = fill + 1
      BY <2>2, <3>2, <3>3
    <3>4. CASE i # fill + 1
      <4>1. i \in 1 .. fill
        BY <2>2, <3>4
      <4> QED BY <2>2, <3>2, <3>4, <4>1
    <3> QED BY <3>3, <3>4
  <2>4. AudioStreams(off)'
    <3>1. taken' = first + frame'
      BY <2>1, <2>2
    <3>2. ASSUME NEW i \in 1 .. fill' PROVE capture'[i] = first + frame' - fill' + i
      <4>1. fill' = fill + 1
        BY <2>1, <2>2
      <4>2. capture'[i] = first + frame - fill + i
        BY <2>3, <4>1
      <4>3. first + frame - fill + i = first + (frame + 1) - (fill + 1) + i
        BY <2>2, <4>1
      <4> QED BY <2>1, <4>1, <4>2, <4>3
    <3> QED BY <1>3, <2>1, <3>1, <3>2 DEF AudioStreams, first
  <2>5. input' \in Seq(Captures(off, generation))
    <3>1. CASE input' = Append(input, Captured) /\ fill + 1 = ChunkFrames
      <4> DEFINE b == Captured
                 S == Captures(off, generation)
      <4>1. /\ b.gen = generation /\ b.start = frame + 1 - ChunkFrames
            /\ b.samples = capture'
        BY DEF Captured
      <4>2. b \in Block
        <5>1. capture' \in Samples
          <6>1. Inv'
            BY AudioKeepsInv
          <6> QED BY <6>1 DEF Inv, AudioInv
        <5>2. generation \in Nat /\ frame + 1 - ChunkFrames \in Nat
          BY <2>2, <3>1
        <5> QED BY <5>1, <5>2 DEF Captured, Block
      <4>3. Consecutive(b.samples, off[b.gen] + b.start)
        <5> HIDE DEF b
        <5>1. Len(b.samples) = ChunkFrames
          BY <4>2, BlockSamples DEF Block
        <5>2. ASSUME NEW i \in 1 .. ChunkFrames
              PROVE  b.samples[i] = off[b.gen] + b.start + i
          <6>1. capture'[i] = first + frame - fill + i
            BY <2>3, <3>1
          <6>2. first + frame - fill + i = first + (frame + 1 - ChunkFrames) + i
            BY <2>2, <3>1
          <6> QED BY <4>1, <6>1, <6>2 DEF first
        <5> QED BY <5>1, <5>2 DEF Consecutive
      <4> HIDE DEF b
      <4>4. b \in S
        BY <2>2, <4>1, <4>2, <4>3 DEF Captures
      <4>5. input \in Seq(S) /\ input' = Append(input, b)
        BY <1>3, <3>1 DEF b
      <4> HIDE DEF S
      <4>6. input' \in Seq(S)
        BY <4>4, <4>5, AppendProperties
      <4> QED BY <4>6 DEF S
    <3>2. CASE input' = input
      BY <1>3, <3>2
    <3>3. (input' = Append(input, Captured) /\ fill + 1 = ChunkFrames) \/ input' = input
      BY <2>1 DEF SubmitCapture
    <3> QED BY <3>1, <3>2, <3>3
  <2>6. QueueStreams(off)'
    BY <1>3, <2>1, <2>5 DEF QueueStreams
  <2> QED BY <1>2, <2>1, <2>4, <2>6 DEF Streams
<1> QED BY <1>6, <1>7, <1>8, <1>9, <1>10, <1>11, <1>12, <1>13, <1>14 DEF AudioStep

(* There is, for each stream, a frame it begins with.                      *)
OneStream == \E off \in [Nat -> Nat] : Streams(off)

LEMMA StreamsInvariant == Spec => []OneStream
<1>1. Init => OneStream
  <2> SUFFICES ASSUME Init PROVE OneStream
    OBVIOUS
  <2>1. PICK off \in [Nat -> Nat] : off = [g \in Nat |-> 0]
    OBVIOUS
  <2>2. off[1] = 0 /\ off[0] = 0
    BY <2>1
  <2>3. /\ generation = 1 /\ frame = 0 /\ fill = 0 /\ taken = 0 /\ playback = NoResult
        /\ ready = <<>> /\ input = <<>> /\ output = <<>> /\ worker = "warming"
        /\ at = [gen |-> 0, next |-> 0] /\ pending = <<>> /\ completed = <<>>
        /\ computed = <<>> /\ held = <<>>
    BY DEF Init
  <2>4. NoResult \in Returns(off, 1)
    BY NoResultReturns
  <2>5. \A S : <<>> \in Seq(S)
    BY EmptySeq
  <2>6. AudioStreams(off)
    BY <2>2, <2>3, <2>4, <2>5 DEF AudioStreams
  <2>7. QueueStreams(off)
    BY <2>3, <2>5 DEF QueueStreams
  <2>8. WorkerStreams(off)
    <3>1. at.gen = 0 /\ at.next = 0 /\ off[0] \in Nat
      BY <2>2, <2>3
    <3>2. Heard(off[0], 0, 0, <<>>, <<>>, <<>>)
      BY <3>1, HeardNothing
    <3> QED BY <2>3, <2>5, <3>1, <3>2 DEF WorkerStreams
  <2> QED BY <2>6, <2>7, <2>8 DEF OneStream, Streams
<1>2. Inv /\ OneStream /\ [Next]_vars => OneStream'
  <2> SUFFICES ASSUME Inv, OneStream, [Next]_vars PROVE OneStream'
    OBVIOUS
  <2>1. PICK off \in [Nat -> Nat] : Streams(off)
    BY DEF OneStream
  <2>2. CASE UNCHANGED vars
    <3>1. Streams(off)'
      BY <2>1, <2>2 DEF vars, audioVars, streamVars, resultVars, sharedVars, workerVars,
         counters, Streams, AudioStreams, QueueStreams, WorkerStreams
    <3> QED BY <3>1 DEF OneStream
  <2>3. CASE WarmUp \/ WorkerStep
    <3>1. Streams(off)'
      BY <2>1, <2>3, WorkerStreamStep
    <3> QED BY <3>1 DEF OneStream
  <2>4. CASE Activate \/ Process \/ Return \/ HostReset \/ Restore \/ Stop \/ AudioStep
    <3>1. \E new \in [Nat -> Nat] : Streams(new)'
      BY <2>1, <2>4, AudioStreamStep
    <3> QED BY <3>1 DEF OneStream
  <2> QED BY <2>2, <2>3, <2>4 DEF Next
<1> QED BY <1>1, <1>2, InvInvariant, PTL DEF Spec

(* What the model holds back, and what it gave back and waits for the rest *)
(* of its block, is one run of samples of the input without a gap,         *)
(* whatever was dropped, failed, or was reset: worker_loop starts the      *)
(* model anew at each discontinuity.                                       *)
THEOREM ModelKeepsOneStream == Spec => []ModelHearsOneStream
<1>1. Inv /\ OneStream => ModelHearsOneStream
  <2> SUFFICES ASSUME Inv, OneStream PROVE ModelHearsOneStream
    OBVIOUS
  <2>1. PICK off \in [Nat -> Nat] : Streams(off)
    BY DEF OneStream
  <2> DEFINE from == off[at.gen] + at.next - Len(pending) * ChunkFrames
  <2>2. /\ computed \in Seq(Sample) /\ held \in Seq(Sample) /\ pending \in Seq(Block)
        /\ at.gen \in Nat /\ at.next \in Nat
        /\ Len(pending) * ChunkFrames = Len(computed) + Len(held)
    BY DEF Inv, WorkerInv
  <2>3. /\ Consecutive(computed, from)
        /\ Consecutive(held, off[at.gen] + at.next - Len(held))
    BY <2>1 DEF Streams, WorkerStreams, Heard
  <2>4. from \in Int /\ from + Len(computed) = off[at.gen] + at.next - Len(held)
    <3>1. off[at.gen] \in Nat /\ Len(computed) \in Nat /\ Len(held) \in Nat
      BY <2>2, LenProperties
    <3> DEFINE f == off[at.gen]
               x == at.next
               p == Len(pending) * ChunkFrames
               c == Len(computed)
               h == Len(held)
    <3>2. f \in Nat /\ x \in Nat /\ c \in Nat /\ h \in Nat /\ p = c + h
      BY <2>2, <3>1
    <3> HIDE DEF f, x, p, c, h
    <3>3. f + x - p \in Int /\ f + x - p + c = f + x - h
      BY <3>2
    <3> QED BY <3>3 DEF f, x, p, c, h
  <2> HIDE DEF from
  <2> DEFINE inside == computed \o held
  <2>5. Consecutive(inside, from)
    BY <2>2, <2>3, <2>4, ConsecutiveConcat
  <2>6. Len(inside) \in Nat
    BY <2>2, SeqConcat, LenProperties
  <2> HIDE DEF inside
  <2>7. \A i \in 1 .. Len(inside) - 1 : inside[i + 1] = inside[i] + 1
    <3> SUFFICES ASSUME NEW i \in 1 .. Len(inside) - 1 PROVE inside[i + 1] = inside[i] + 1
      OBVIOUS
    <3>1. i \in 1 .. Len(inside) /\ i + 1 \in 1 .. Len(inside)
      BY <2>6
    <3>2. inside[i] = from + i /\ inside[i + 1] = from + (i + 1)
      BY <2>5, <3>1 DEF Consecutive
    <3> QED BY <2>4, <3>2
  <2> QED BY <2>7 DEF inside, ModelHearsOneStream
<1> QED BY <1>1, InvInvariant, StreamsInvariant, PTL


-----------------------------------------------------------------------------
(* What is played: the wet signal and the dry one.                         *)

(* The dry delay keeps the last LatencyFrames samples of the stream, the   *)
(* oldest at the cursor.                                                   *)
Ring(delay, here, frames, last) ==
  \A d \in 0 .. LatencyFrames - 1 : frames + d >= LatencyFrames =>
    delay[(here + d) % LatencyFrames] + LatencyFrames = last + d + 1

LEMMA RingStep ==
  ASSUME NEW delay \in [0 .. LatencyFrames - 1 -> Sample], NEW here \in 0 .. LatencyFrames - 1,
         NEW frames \in Nat, NEW last \in Nat, Ring(delay, here, frames, last)
  PROVE  Ring([delay EXCEPT ![here] = last + 1], (here + 1) % LatencyFrames, frames + 1, last + 1)
<1> DEFINE L == LatencyFrames
           new == [delay EXCEPT ![here] = last + 1]
           next == (here + 1) % L
<1>1. L \in Nat \ {0}
  BY Latency
<1> SUFFICES ASSUME NEW d \in 0 .. L - 1, (frames + 1) + d >= L
             PROVE  new[(next + d) % L] + L = (last + 1) + d + 1
  BY DEF Ring
<1>2. next = IF here + 1 = L THEN 0 ELSE here + 1
  <2>1. here % L = here
    BY <1>1
  <2>2. here \in Nat /\ L \in Nat \ {0}
    BY <1>1
  <2> HIDE DEF L
  <2>3. (here + 1) % L = IF (here % L) + 1 = L THEN 0 ELSE (here % L) + 1
    BY <2>2, NextRemainder
  <2> QED BY <2>1, <2>3 DEF next
<1>3. \A y \in 0 .. L - 1 : new[y] = IF y = here THEN last + 1 ELSE delay[y]
  OBVIOUS
<1>4. \A e \in 0 .. L - 1 : frames + e >= L => delay[(here + e) % L] + L = last + e + 1
  BY DEF Ring
<1> HIDE DEF L, new, next
<1>5. next \in 0 .. L - 1 /\ here \in 0 .. L - 1
  BY <1>1, <1>2 DEF L
<1>6. (next + d) % L = IF next + d < L THEN next + d ELSE next + d - L
  BY <1>1, <1>5, Round
<1>7. CASE d = L - 1
  <2>1. (next + d) % L = here
    BY <1>1, <1>2, <1>5, <1>6, <1>7
  <2>2. new[here] = last + 1
    BY <1>3, <1>5
  <2> QED BY <1>1, <1>7, <2>1, <2>2
<1>8. CASE d # L - 1
  <2>1. d + 1 \in 0 .. L - 1 /\ frames + (d + 1) >= L
    BY <1>1, <1>8
  <2>2. (here + (d + 1)) % L = IF here + (d + 1) < L THEN here + (d + 1) ELSE here + (d + 1) - L
    BY <1>1, <1>5, <2>1, Round
  <2>3. /\ (next + d) % L = (here + (d + 1)) % L /\ (next + d) % L # here
        /\ (next + d) % L \in 0 .. L - 1
    BY <1>1, <1>2, <1>5, <1>6, <1>8, <2>1, <2>2
  <2>4. new[(next + d) % L] = delay[(here + (d + 1)) % L]
    BY <1>3, <2>3
  <2>5. delay[(here + (d + 1)) % L] + L = last + (d + 1) + 1
    BY <1>4, <2>1
  <2>6. last + (d + 1) + 1 = (last + 1) + d + 1
    BY <1>1
  <2> QED BY <2>4, <2>5, <2>6
<1> QED BY <1>7, <1>8

(* A result is played from the frame that is LatencyFrames later.          *)
PlayInv ==
  /\ audio \in {"drain", "frame"} => fill = 0 /\ attached
  /\ audio = "activating" => ~Playing
  /\ Playing => (attached \/ audio = "off") /\ playback.block.gen = generation
  /\ Playing /\ (audio = "frame" \/ fill # 0) =>
       playback.block.start + LatencyFrames + fill = frame
  /\ Ring(dry, cursor, frame, taken)

LEMMA PlayInvariant == Spec => []PlayInv
<1>1. Init => PlayInv
  <2>1. ASSUME Init PROVE Ring(dry, cursor, frame, taken)
    <3>1. frame = 0
      BY <2>1 DEF Init
    <3> QED BY <3>1, Latency DEF Ring
  <2> QED BY <2>1 DEF Init, PlayInv, Playing
<1>2. Inv /\ PlayInv /\ [Next]_vars => PlayInv'
  <2> SUFFICES ASSUME Inv, PlayInv, [Next]_vars PROVE PlayInv'
    OBVIOUS
  <2>0. /\ audio \in {"drain", "frame"} => fill = 0 /\ attached
        /\ audio = "activating" => ~Playing
        /\ Playing => (attached \/ audio = "off") /\ playback.block.gen = generation
        /\ Playing /\ (audio = "frame" \/ fill # 0) =>
             playback.block.start + LatencyFrames + fill = frame
        /\ Ring(dry, cursor, frame, taken)
    BY DEF PlayInv
  <2>1. /\ generation \in Nat /\ frame \in Nat /\ fill = frame % ChunkFrames /\ taken \in Nat
        /\ ready \in Seq(CurrentResult(generation))
        /\ audio = "drain" => playback = NoResult
        /\ dry \in [0 .. LatencyFrames - 1 -> Sample] /\ cursor \in 0 .. LatencyFrames - 1
    BY DEF Inv, AudioInv, CountInv, Sample
  <2>2. fill \in 0 .. ChunkFrames - 1 /\ ChunkFrames \in Nat \ {0} /\ LatencyFrames \in Nat \ {0}
    BY Sizes, Latency
  (* Steps that leave what is played, and when, as it is.                  *)
  <2>3. ASSUME UNCHANGED <<streamVars, playback, taken, attached>>,
               audio' = audio \/ (/\ audio # "off"
                                 /\ audio' \notin {"activating", "drain", "frame"})
        PROVE  PlayInv'
    <3>1. UNCHANGED <<generation, frame, fill, dry, cursor, playback, taken, attached>>
      BY <2>3 DEF streamVars
    <3>2. Ring(dry, cursor, frame, taken)' /\ Playing' = Playing
      BY <2>0, <3>1 DEF Playing
    <3> QED BY <2>0, <2>3, <3>1, <3>2 DEF PlayInv
  <2>4. ASSUME Rewind, UNCHANGED taken PROVE PlayInv'
    <3>1. audio' = "resetInput" /\ playback' = NoResult /\ frame' = 0
      BY <2>4 DEF Rewind
    <3>2. Ring(dry', cursor', 0, taken')
      BY <2>2 DEF Ring
    <3> QED BY <3>1, <3>2 DEF PlayInv, Playing
  <2>5. CASE WarmUp \/ WorkerStep
    <3>1. UNCHANGED audioVars /\ UNCHANGED taken
      BY <2>5 DEF WarmUp, WorkerStep, Deliver, Take, TakeNothing, Leave, Infer, InferFails,
         PassThrough, Panic, counters
    <3> QED BY <2>3, <3>1 DEF audioVars, resultVars
  <2>6. CASE Return \/ Restore \/ Stop
    BY <2>3, <2>6 DEF Return, Restore, Stop, BetweenCalls, resultVars, counters
  <2>7. CASE ReclaimInput \/ ReclaimOutput \/ DrainOutput
    BY <2>3, <2>7 DEF ReclaimInput, ReclaimOutput, DrainOutput, counters
  <2>8. CASE HostReset
    BY <2>4, <2>8 DEF HostReset
  <2>9. CASE Process
    <3>1. /\ UNCHANGED <<attached, taken>>
          /\ Rewind \/ UNCHANGED <<audio, streamVars, resultVars>>
      BY <2>9 DEF Process, counters
    <3> QED BY <2>3, <2>4, <3>1 DEF resultVars
  <2>10. CASE Activate
    <3>1. /\ UNCHANGED <<generation, frame, fill, dry, cursor, playback, taken>>
          /\ audio = "activating" /\ audio' = "ready"
      BY <2>10 DEF Activate, streamVars, resultVars, counters
    <3>2. Ring(dry, cursor, frame, taken)' /\ Playing' = Playing
      BY <2>0, <3>1 DEF Playing
    <3> QED BY <2>0, <3>1, <3>2 DEF PlayInv
  <2>11. CASE Joined
    <3>1. /\ UNCHANGED <<generation, frame, fill, dry, cursor, playback, taken>>
          /\ audio = "joining" /\ audio' = "off"
      BY <2>11 DEF Joined, streamVars, resultVars, counters
    <3>2. Ring(dry, cursor, frame, taken)' /\ Playing' = Playing
      BY <2>0, <3>1 DEF Playing
    <3> QED BY <2>0, <3>1, <3>2 DEF PlayInv
  <2>12. CASE BeginOutputChunk
    <3>1. /\ UNCHANGED <<generation, frame, fill, dry, cursor, attached, taken>>
          /\ audio' = "drain" /\ playback' = NoResult /\ attached
          /\ frame % ChunkFrames = 0
      BY <2>12 DEF BeginOutputChunk, streamVars, counters
    <3>2. Ring(dry, cursor, frame, taken)' /\ Playing' = FALSE
      BY <2>0, <3>1 DEF Playing
    <3>3. fill' = 0
      BY <2>1, <3>1
    <3> QED BY <3>1, <3>2, <3>3 DEF PlayInv
  <2>13. CASE ChooseOutput
    <3>1. /\ UNCHANGED <<generation, frame, fill, dry, cursor, attached, taken>>
          /\ audio = "drain" /\ audio' = "frame" /\ playback = NoResult
          /\ fill = 0 /\ attached
      BY <2>0, <2>1, <2>13 DEF ChooseOutput, streamVars, counters
    <3>2. Ring(dry, cursor, frame, taken)'
      BY <2>0, <3>1
    <3>3. playback' # NoResult =>
            playback'.block.gen = generation /\ playback'.block.start + LatencyFrames = frame
      <4>1. CASE frame < LatencyFrames
        BY <2>13, <3>1, <4>1 DEF ChooseOutput, resultVars
      <4>2. CASE ~(frame < LatencyFrames)
        <5> DEFINE due == frame - LatencyFrames
                   rest == SubSeq(ready, Late(due) + 1, Len(ready))
        <5>1. IF rest # <<>> /\ Head(rest).block.start = due
              THEN playback' = Head(rest) /\ ready' = Tail(rest)
              ELSE ready' = rest /\ UNCHANGED playback
          BY <2>13, <4>2 DEF ChooseOutput
        <5>2. due \in Nat /\ due + LatencyFrames = frame
          BY <2>1, <2>2, <4>2
        <5> HIDE DEF due
        <5>3. Late(due) \in 0 .. Len(ready)
          <6>1. ready \in Seq(Result)
            BY Sizes
          <6> QED BY <5>2, <6>1, LateDrops
        <5>4. rest # <<>> => Head(rest) \in CurrentResult(generation)
          <6>1. /\ ready \in Seq(CurrentResult(generation)) /\ Late(due) \in 0 .. Len(ready)
                /\ rest = SubSeq(ready, Late(due) + 1, Len(ready))
            BY <2>1, <5>3
          <6> HIDE DEF rest
          <6> QED BY <6>1, Remaining
        <5> HIDE DEF rest
        <5>5. CASE rest # <<>> /\ Head(rest).block.start = due
          <6>1. playback' = Head(rest) /\ Head(rest).block.gen = generation
            BY <5>1, <5>4, <5>5 DEF CurrentResult
          <6> QED BY <5>2, <5>5, <6>1
        <5>6. CASE ~(rest # <<>> /\ Head(rest).block.start = due)
          BY <3>1, <5>1, <5>6
        <5> QED BY <5>5, <5>6
      <4> QED BY <4>1, <4>2
    <3>4. Playing' => /\ playback'.block.gen = generation'
                      /\ playback'.block.start + LatencyFrames + fill' = frame'
      <4>1. frame \in Nat /\ LatencyFrames \in Nat /\ frame + 0 = frame
        BY <2>1, <2>2
      <4>2. ASSUME playback' # NoResult
            PROVE  playback'.block.start + LatencyFrames + fill' = frame'
        BY <3>1, <3>3, <4>1, <4>2
      <4> QED BY <3>1, <3>3, <4>2 DEF Playing
    <3> QED BY <3>1, <3>2, <3>4 DEF PlayInv
  <2>14. CASE Frame
    <3>1. /\ audio' = "ready" /\ taken' = taken + 1 /\ frame' = frame + 1
          /\ dry' = [dry EXCEPT ![cursor] = taken'] /\ cursor' = (cursor + 1) % LatencyFrames
          /\ audio = "frame" \/ (audio = "ready" /\ (attached => frame % ChunkFrames # 0))
          /\ IF fill + 1 = ChunkFrames THEN fill' = 0 ELSE fill' = fill + 1
          /\ UNCHANGED <<generation, playback, attached>>
      BY <2>14 DEF Frame
    <3>2. Ring(dry', cursor', frame', taken')
      <4>1. Ring([dry EXCEPT ![cursor] = taken + 1], (cursor + 1) % LatencyFrames,
                 frame + 1, taken + 1)
        BY <2>0, <2>1, RingStep
      <4> QED BY <3>1, <4>1
    <3>3. ASSUME Playing PROVE playback.block.start + LatencyFrames + fill = frame
      <4>1. audio = "frame" \/ fill # 0
        BY <2>0, <2>1, <3>1, <3>3
      <4> QED BY <2>0, <3>3, <4>1
    <3>4. ASSUME Playing, fill' # 0 PROVE playback'.block.start + LatencyFrames + fill' = frame'
      <4> DEFINE s == playback.block.start
      <4>1. playback' = playback /\ fill' = fill + 1 /\ frame' = frame + 1
            /\ playback.block.start + LatencyFrames + fill = frame
        BY <3>1, <3>3, <3>4
      <4>2. s \in Nat /\ fill \in Nat /\ LatencyFrames \in Nat
        <5>1. playback \in Result
          BY DEF Inv, AudioInv
        <5> QED BY <2>2, <5>1 DEF Result, Block
      <4>3. s + LatencyFrames + fill = frame
        BY <4>1
      <4> HIDE DEF s
      <4>4. s + LatencyFrames + (fill + 1) = frame + 1
        <5> DEFINE l == LatencyFrames
                   x == fill
                   y == frame
        <5>1. l \in Nat /\ x \in Nat /\ y \in Nat /\ s + l + x = y
          BY <2>1, <4>2, <4>3
        <5> HIDE DEF l, x, y
        <5>2. s + l + (x + 1) = y + 1
          BY <4>2, <5>1
        <5> QED BY <5>2 DEF l, x, y
      <4> QED BY <4>1, <4>4 DEF s
    <3>5. Playing' = Playing
      BY <3>1 DEF Playing
    <3>6. Playing => attached
      BY <2>0, <3>1
    <3> QED BY <2>0, <3>1, <3>2, <3>4, <3>5, <3>6 DEF PlayInv
  <2>15. CASE UNCHANGED vars
    BY <2>3, <2>15 DEF vars, audioVars, resultVars, counters
  <2> QED BY <2>5, <2>6, <2>7, <2>8, <2>9, <2>10, <2>11, <2>12, <2>13, <2>14, <2>15
          DEF Next, AudioStep
<1> QED BY <1>1, <1>2, InvInvariant, PTL DEF Spec

(* What begin_output_chunk plays of the model is, sample for sample, what  *)
(* the dry delay gives at the same moment: the wet signal is not shifted,  *)
(* is not of another stream, and not from before a reset.                  *)
THEOREM WetSignalIsDry == Spec => []WetIsDry
<1>1. Inv /\ OneStream /\ PlayInv => WetIsDry
  <2> SUFFICES ASSUME Inv, OneStream, PlayInv, playback.valid, audio = "frame" \/ fill # 0,
                      NEW i \in fill + 1 .. ChunkFrames
               PROVE  playback.block.samples[i] = dry[(cursor + i - fill - 1) % LatencyFrames]
    BY DEF WetIsDry
  <2>1. PICK off \in [Nat -> Nat] : Streams(off)
    BY DEF OneStream
  <2>2. /\ ChunkFrames \in Nat \ {0} /\ LatencyFrames \in Nat \ {0}
        /\ ChunkFrames <= LatencyFrames /\ fill \in 0 .. ChunkFrames - 1
    BY Sizes, Latency
  <2>3. /\ generation \in Nat /\ frame \in Nat /\ taken \in Nat /\ off[generation] \in Nat
        /\ cursor \in 0 .. LatencyFrames - 1 /\ playback \in Result
        /\ dry \in [0 .. LatencyFrames - 1 -> Sample]
    BY DEF Inv, AudioInv, CountInv, Sample
  <2>4. Playing
    BY DEF Playing, NoResult
  <2>5. /\ playback.block.gen = generation
        /\ playback.block.start + LatencyFrames + fill = frame
        /\ Ring(dry, cursor, frame, taken)
    BY <2>4 DEF PlayInv
  <2>6. /\ taken = off[generation] + frame
        /\ Consecutive(playback.block.samples, off[generation] + playback.block.start)
    BY <2>1, <2>5 DEF Streams, AudioStreams, Returns
  <2>7. Len(playback.block.samples) = ChunkFrames /\ playback.block.start \in Nat
    <3>1. playback.block.samples \in Samples /\ playback.block.start \in Nat
      BY <2>3 DEF Result, Block
    <3> QED BY <3>1, BlockSamples
  <2> DEFINE d == i - fill - 1
             s == playback.block.start
             f == off[generation]
  <2>8. /\ d \in 0 .. LatencyFrames - 1 /\ i \in 1 .. ChunkFrames
        /\ cursor + i - fill - 1 = cursor + d /\ d = i - fill - 1
    BY <2>2, <2>3
  <2>9. /\ s \in Nat /\ f \in Nat /\ s + LatencyFrames + fill = frame /\ taken = f + frame
    BY <2>3, <2>5, <2>6, <2>7
  <2>10. playback.block.samples[i] = f + s + i
    BY <2>6, <2>7, <2>8 DEF Consecutive
  <2> HIDE DEF d, s, f
  <2>11. frame + d >= LatencyFrames
    BY <2>2, <2>8, <2>9
  <2>12. dry[(cursor + d) % LatencyFrames] + LatencyFrames = taken + d + 1
    BY <2>5, <2>8, <2>11 DEF Ring
  <2>13. dry[(cursor + d) % LatencyFrames] \in Nat
    <3>1. (cursor + d) % LatencyFrames \in 0 .. LatencyFrames - 1
      <4>1. cursor + d \in Nat
        BY <2>2, <2>3, <2>8
      <4> QED BY <2>2, <4>1, NextRemainder
    <3> QED BY <2>3, <3>1 DEF Sample
  <2> DEFINE v == dry[(cursor + d) % LatencyFrames]
  <2>14. v \in Nat /\ v + LatencyFrames = taken + d + 1
    BY <2>12, <2>13
  <2> HIDE DEF v
  <2>15. v = f + s + i
    BY <2>2, <2>3, <2>8, <2>9, <2>14
  <2> QED BY <2>8, <2>10, <2>15 DEF v
<1> QED BY <1>1, InvInvariant, StreamsInvariant, PlayInvariant, PTL


=============================================================================
