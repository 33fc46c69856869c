----------------------------- MODULE NeuralWorker -----------------------------
(***************************************************************************)
(* Neural inference in the CLAP plug-in                                    *)
(* (src/plugins/denoize-clap/src/neural.rs).  The host's audio thread      *)
(* captures chunks of samples and hands them to one worker thread through  *)
(* a bounded lock-free queue; results come back through another and are    *)
(* played exactly LatencyFrames later, beside a dry signal that is delayed *)
(* as much.  Blocks are taken from a fixed pool.  The audio thread never   *)
(* waits: what is missing or late is replaced by the dry signal.           *)
(*                                                                         *)
(* The worker may be slow, fail, return unsafe samples or panic; the host  *)
(* may reset the stream between any two callbacks, and the main thread may *)
(* load a state at any time.  A sample is known by the number under which  *)
(* it was captured; 0 is silence.                                          *)
(***************************************************************************)
EXTENDS Naturals, Sequences

CONSTANTS ChunkFrames,   \* chunk_frames
          QueueBlocks,   \* QUEUE_BLOCKS, which is LATENCY_CHUNKS
          Spare,         \* blocks of the pool beside those of the queues
          LookAhead,     \* frames the model of the backend may hold back
          MaxFrames,     \* bound: frames captured in all
          MaxResets,     \* bound: resets by the host and states loaded
          MaxFaults      \* bound: errors, unsafe results, panics

ASSUME GeometryAssumption == ChunkFrames \in Nat \ {0} /\ QueueBlocks \in Nat \ {0}
ASSUME BoundAssumption == /\ Spare \in Nat \ {0} /\ LookAhead \in Nat
                          /\ MaxFrames \in Nat /\ MaxResets \in Nat /\ MaxFaults \in Nat

LatencyFrames == QueueBlocks * ChunkFrames
(* Mutant: a pool for one of the two queues.                               *)
PoolOfOneQueue == QueueBlocks + Spare

PoolSize == 2 * QueueBlocks + Spare

VARIABLES
  \* audio thread: NeuralAudioProcessor and NeuralEngine
  audio,       \* where the thread is
  inCall,      \* it is in process()
  attached,    \* engine.worker is there
  generation,
  frame,       \* input_frame
  fill,        \* capture_frames
  capture,     \* the samples of the block that is filled
  dry,         \* dry_delay
  cursor,      \* dry_cursor
  playback,    \* the result that is played, or NoResult
  ready,       \* results that wait for their time
  free,        \* how many blocks are in free_blocks
  resetDue,    \* reset_generation is not observed_reset_generation
  \* shared
  input, output,  \* the two ArrayQueues
  running,
  \* worker thread: worker_loop
  worker,      \* where the thread is
  block,       \* the block it took
  at,          \* [gen, next]: the stream it follows
  pending, completed, computed,  \* its queues; computed is `ready` there
  held,        \* samples inside the model
  failed,
  \* history and bounds
  taken,       \* frames captured so far
  resets, faults

streamVars == <<generation, frame, fill, capture, dry, cursor>>
resultVars == <<playback, ready, free>>
workerVars == <<worker, block, at, pending, completed, computed, held, failed>>
audioVars == <<audio, inCall, attached, streamVars, resultVars, resetDue>>
sharedVars == <<input, output, running>>
counters == <<taken, resets, faults>>
vars == <<audioVars, sharedVars, workerVars, counters>>

-----------------------------------------------------------------------------
Sample == 0 .. MaxFrames
Samples == [1 .. ChunkFrames -> Sample]
Silence == [i \in 1 .. ChunkFrames |-> 0]

(* AudioBlock and ProcessedBlock.                                          *)
Block == [gen : Nat, start : Nat, samples : Samples]
Result == [block : Block, valid : BOOLEAN]
NoBlock == [gen |-> 0, start |-> 0, samples |-> Silence]
NoResult == [block |-> NoBlock, valid |-> FALSE]

Unusable(blocks) == [i \in DOMAIN blocks |-> [block |-> blocks[i], valid |-> FALSE]]

(* Playback is due LatencyFrames after the capture.                        *)
Playing == playback # NoResult

-----------------------------------------------------------------------------
(* Activation: the worker builds and warms up its model before the         *)
(* handshake; without a model the engine goes on without a worker.         *)

Init ==
  /\ audio = "activating" /\ inCall = FALSE /\ attached = FALSE
  /\ generation = 1 /\ frame = 0 /\ fill = 0 /\ capture = Silence
  /\ dry = [i \in 0 .. LatencyFrames - 1 |-> 0] /\ cursor = 0
  /\ playback = NoResult /\ ready = <<>> /\ free = PoolSize - 1
  /\ resetDue = FALSE
  /\ input = <<>> /\ output = <<>> /\ running = TRUE
  /\ worker = "warming" /\ block = NoBlock /\ at = [gen |-> 0, next |-> 0]
  /\ pending = <<>> /\ completed = <<>> /\ computed = <<>> /\ held = <<>>
  /\ failed = FALSE
  /\ taken = 0 /\ resets = 0 /\ faults = 0

Fault == faults < MaxFaults /\ faults' = faults + 1

WarmUp ==
  /\ worker = "warming"
  /\ \/ worker' = "loop" /\ UNCHANGED faults
     \/ worker' = "gone" /\ Fault
  /\ UNCHANGED <<audioVars, sharedVars, block, at, pending, completed, computed,
                 held, failed, taken, resets>>

Activate ==
  /\ audio = "activating" /\ worker # "warming"
  /\ audio' = "ready"
  /\ attached' = (worker # "gone")
  /\ running' = (worker # "gone")
  /\ UNCHANGED <<inCall, streamVars, resultVars, resetDue, input, output,
                 workerVars, counters>>

-----------------------------------------------------------------------------
(* The audio thread: one callback is process() of some frames.             *)

BetweenCalls == audio = "ready" /\ ~inCall

(* Mutant: the results that wait are dropped and their blocks forgotten.   *)
RewindForgetting ==
  /\ generation' = generation + 1
  /\ frame' = 0 /\ fill' = 0 /\ cursor' = 0
  /\ dry' = [i \in DOMAIN dry |-> 0]
  /\ playback' = NoResult /\ ready' = <<>>
  /\ free' = free + (IF Playing THEN 1 ELSE 0)
  /\ audio' = "resetInput"
  /\ UNCHANGED capture

(* The beginning of reset(): what only this thread sees.                   *)
Rewind ==
  /\ generation' = generation + 1
  /\ frame' = 0 /\ fill' = 0 /\ cursor' = 0
  /\ dry' = [i \in DOMAIN dry |-> 0]
  /\ playback' = NoResult /\ ready' = <<>>
  /\ free' = free + Len(ready) + (IF Playing THEN 1 ELSE 0)
  /\ audio' = "resetInput"
  /\ UNCHANGED capture

Process ==
  /\ BetweenCalls
  /\ inCall' = TRUE /\ resetDue' = FALSE
  /\ IF resetDue THEN Rewind ELSE UNCHANGED <<audio, streamVars, resultVars>>
  /\ UNCHANGED <<attached, sharedVars, workerVars, counters>>

Return ==
  /\ audio = "ready" /\ inCall
  /\ inCall' = FALSE
  /\ UNCHANGED <<audio, attached, streamVars, resultVars, resetDue, sharedVars,
                 workerVars, counters>>

HostReset ==
  /\ BetweenCalls
  /\ resets < MaxResets /\ resets' = resets + 1
  /\ Rewind
  /\ UNCHANGED <<inCall, attached, resetDue, sharedVars, workerVars, taken, faults>>

(* reset() takes the queued input back while the worker may take it too.   *)
ReclaimInput ==
  /\ audio = "resetInput"
  /\ IF input = <<>>
     THEN audio' = "resetOutput" /\ UNCHANGED <<input, free>>
     ELSE input' = Tail(input) /\ free' = free + 1 /\ UNCHANGED audio
  /\ UNCHANGED <<inCall, attached, streamVars, playback, ready, resetDue, output,
                 running, workerVars, counters>>

(* Mutant: the block in the hands of the worker is waited for.             *)
ReclaimEveryOutput ==
  /\ audio = "resetOutput"
  /\ IF output = <<>>
     THEN /\ worker # "infer"
          /\ audio' = "ready" /\ resetDue' = (resetDue /\ inCall)
          /\ UNCHANGED <<output, free>>
     ELSE /\ output' = Tail(output) /\ free' = free + 1
          /\ UNCHANGED <<audio, resetDue>>
  /\ UNCHANGED <<inCall, attached, streamVars, playback, ready, input, running,
                 workerVars, counters>>

(* The reset of the host reads the generation of the state at its end, the *)
(* one of process() read it before.                                        *)
ReclaimOutput ==
  /\ audio = "resetOutput"
  /\ IF output = <<>>
     THEN /\ audio' = "ready" /\ resetDue' = (resetDue /\ inCall)
          /\ UNCHANGED <<output, free>>
     ELSE /\ output' = Tail(output) /\ free' = free + 1
          /\ UNCHANGED <<audio, resetDue>>
  /\ UNCHANGED <<inCall, attached, streamVars, playback, ready, input, running,
                 workerVars, counters>>

(* The main thread loads a state.                                          *)
Restore ==
  /\ audio \notin {"activating", "joining", "off"}
  /\ resets < MaxResets /\ resets' = resets + 1
  /\ resetDue' = TRUE
  /\ UNCHANGED <<audio, inCall, attached, streamVars, resultVars, sharedVars,
                 workerVars, taken, faults>>

-----------------------------------------------------------------------------
(* begin_output_chunk, before the first frame of a chunk                   *)

BeginOutputChunk ==
  /\ audio = "ready" /\ inCall /\ attached
  /\ taken < MaxFrames /\ frame % ChunkFrames = 0
  /\ audio' = "drain"
  /\ playback' = NoResult /\ free' = free + (IF Playing THEN 1 ELSE 0)
  /\ UNCHANGED <<inCall, attached, streamVars, ready, resetDue, sharedVars,
                 workerVars, counters>>

(* Mutant: the generation of a result is not looked at.                    *)
KeepAny(result) == Len(ready) < PoolSize

(* A result is kept when it belongs to this stream.                        *)
Keep(result) == result.block.gen = generation /\ Len(ready) < PoolSize

DrainOutput ==
  /\ audio = "drain" /\ output # <<>>
  /\ output' = Tail(output)
  /\ IF Keep(Head(output))
     THEN ready' = Append(ready, Head(output)) /\ UNCHANGED free
     ELSE free' = free + 1 /\ UNCHANGED ready
  /\ UNCHANGED <<audio, inCall, attached, streamVars, playback, resetDue, input,
                 running, workerVars, counters>>

(* How many results at the front of `ready` come too late for frame `due`. *)
Late(due) == CHOOSE k \in 0 .. Len(ready) :
  /\ \A i \in 1 .. k : ready[i].block.start < due
  /\ k < Len(ready) => ready[k + 1].block.start >= due

ChooseOutput ==
  /\ audio = "drain" /\ output = <<>>
  /\ audio' = "frame"
  /\ IF frame < LatencyFrames
     THEN UNCHANGED resultVars
     ELSE LET due == frame - LatencyFrames
              rest == SubSeq(ready, Late(due) + 1, Len(ready))
          IN  /\ free' = free + Late(due)
              /\ IF rest # <<>> /\ Head(rest).block.start = due
                 THEN playback' = Head(rest) /\ ready' = Tail(rest)
                 ELSE ready' = rest /\ UNCHANGED playback
  /\ UNCHANGED <<inCall, attached, streamVars, resetDue, sharedVars, workerVars,
                 counters>>

-----------------------------------------------------------------------------
(* process_frame, and submit_capture after the last frame of a chunk       *)

Captured == [gen |-> generation, start |-> frame + 1 - ChunkFrames,
             samples |-> capture']

(* A block is only given away when another one can take its place.         *)
SubmitCapture ==
  IF free > 0 /\ Len(input) < QueueBlocks /\ attached
  THEN /\ input' = Append(input, Captured)
       /\ free' = free - 1
  ELSE UNCHANGED <<input, free>>

Frame ==
  /\ inCall /\ taken < MaxFrames
  /\ \/ audio = "frame"
     \/ audio = "ready" /\ (attached => frame % ChunkFrames # 0)
  /\ audio' = "ready"
  /\ taken' = taken + 1
  /\ capture' = [capture EXCEPT ![fill + 1] = taken']
  /\ dry' = [dry EXCEPT ![cursor] = taken']
  /\ cursor' = (cursor + 1) % LatencyFrames
  /\ frame' = frame + 1
  /\ IF fill + 1 = ChunkFrames
     THEN fill' = 0 /\ SubmitCapture
     ELSE fill' = fill + 1 /\ UNCHANGED <<input, free>>
  /\ UNCHANGED <<inCall, attached, generation, playback, ready, resetDue, output,
                 running, workerVars, resets, faults>>

-----------------------------------------------------------------------------
(* stop(), of deactivate() or of the drop of the engine                    *)

(* Mutant: the flag is left alone.                                         *)
StopWithoutFlag ==
  /\ BetweenCalls
  /\ audio' = IF attached THEN "joining" ELSE "off"
  /\ UNCHANGED <<inCall, attached, streamVars, resultVars, resetDue, sharedVars,
                 workerVars, counters>>

Stop ==
  /\ BetweenCalls
  /\ running' = FALSE
  /\ audio' = IF attached THEN "joining" ELSE "off"
  /\ UNCHANGED <<inCall, attached, streamVars, resultVars, resetDue, input, output,
                 workerVars, counters>>

Joined ==
  /\ audio = "joining" /\ worker = "gone"
  /\ audio' = "off" /\ attached' = FALSE
  /\ UNCHANGED <<inCall, streamVars, resultVars, resetDue, sharedVars, workerVars,
                 counters>>

-----------------------------------------------------------------------------
(* worker_loop.  At most one result is delivered for each block taken; a   *)
(* full output queue makes the worker wait, with no new block in hand.     *)

(* Mutant: results are delivered beyond the capacity of the queue.         *)
DeliverAlways ==
  /\ worker = "loop" /\ running
  /\ completed # <<>>
  /\ output' = Append(output, Head(completed))
  /\ completed' = Tail(completed)
  /\ worker' = "take"
  /\ UNCHANGED <<audioVars, input, running, block, at, pending, computed, held,
                 failed, counters>>

Deliver ==
  /\ worker = "loop" /\ running
  /\ completed # <<>> /\ Len(output) < QueueBlocks
  /\ output' = Append(output, Head(completed))
  /\ completed' = Tail(completed)
  /\ worker' = "take"
  /\ UNCHANGED <<audioVars, input, running, block, at, pending, computed, held,
                 failed, counters>>

Take ==
  /\ \/ worker = "take"
     \/ worker = "loop" /\ running /\ completed = <<>>
  /\ input # <<>>
  /\ block' = Head(input) /\ input' = Tail(input)
  /\ worker' = "infer"
  /\ UNCHANGED <<audioVars, output, running, at, pending, completed, computed,
                 held, failed, counters>>

TakeNothing ==
  /\ worker = "take" /\ input = <<>>
  /\ worker' = "loop"
  /\ UNCHANGED <<audioVars, sharedVars, block, at, pending, completed, computed,
                 held, failed, counters>>

Leave ==
  /\ worker = "loop" /\ ~running
  /\ worker' = "gone"
  /\ UNCHANGED <<audioVars, sharedVars, block, at, pending, completed, computed,
                 held, failed, counters>>

(* Mutant: a gap in the stream goes unseen.                                *)
OtherGeneration(b) == b.gen # at.gen

(* A block of another stream, or one that does not follow the last one.    *)
Discontinuity(b) == b.gen # at.gen \/ b.start # at.next

(* What is left of the worker's queues when block `b` starts.              *)
Before(b) ==
  IF Discontinuity(b)
  THEN [pending |-> <<>>, computed |-> <<>>, held |-> <<>>,
        completed |-> completed \o Unusable(pending)]
  ELSE [pending |-> pending, computed |-> computed, held |-> held,
        completed |-> completed]

Follow(b) == at' = [gen |-> b.gen, next |-> b.start + ChunkFrames]

(* complete_ready_blocks: the oldest block gets the oldest samples.  `bad` *)
(* are the blocks with a sample that is not finite or too loud.            *)
Finished(blocks, samples, bad) ==
  [i \in 1 .. Len(samples) \div ChunkFrames |->
     [block |-> [blocks[i] EXCEPT !.samples =
                   [j \in 1 .. ChunkFrames |-> samples[(i - 1) * ChunkFrames + j]]],
      valid |-> i \notin bad]]

(* The backend returns what it is given in order, some frames later; it is *)
(* asked again after an error only once it has been reset.                 *)
Infer ==
  LET was == Before(block)
      accepted == was.held \o block.samples
      blocks == Append(was.pending, block)
  IN /\ worker = "infer" /\ (Discontinuity(block) \/ ~failed)
     /\ \E k \in 0 .. Len(accepted) :
          LET samples == was.computed \o SubSeq(accepted, 1, k)
              n == Len(samples) \div ChunkFrames
          IN /\ Len(accepted) - k <= LookAhead
             /\ held' = SubSeq(accepted, k + 1, Len(accepted))
             /\ computed' = SubSeq(samples, n * ChunkFrames + 1, Len(samples))
             /\ pending' = SubSeq(blocks, n + 1, Len(blocks))
             /\ \E bad \in SUBSET (1 .. n) :
                  /\ completed' = was.completed \o Finished(blocks, samples, bad)
                  /\ IF bad = {} THEN UNCHANGED faults ELSE Fault
     /\ Follow(block)
     /\ failed' = FALSE /\ block' = NoBlock /\ worker' = "loop"
     /\ UNCHANGED <<audioVars, sharedVars, taken, resets>>

(* process() fails: the new block is completed before those that waited.   *)
InferFails ==
  LET was == Before(block)
  IN /\ worker = "infer" /\ (Discontinuity(block) \/ ~failed) /\ Fault
     /\ completed' = was.completed \o Unusable(<<block>> \o was.pending)
     /\ pending' = <<>> /\ computed' = <<>> /\ held' = <<>>
     /\ Follow(block)
     /\ failed' = TRUE /\ block' = NoBlock /\ worker' = "loop"
     /\ UNCHANGED <<audioVars, sharedVars, taken, resets>>

(* The reset of the backend fails, or the stream has failed already.       *)
PassThrough ==
  LET was == Before(block)
  IN /\ worker = "infer"
     /\ IF Discontinuity(block) THEN Fault ELSE failed /\ UNCHANGED faults
     /\ completed' = was.completed \o Unusable(<<block>>)
     /\ pending' = was.pending /\ computed' = was.computed /\ held' = was.held
     /\ Follow(block)
     /\ failed' = TRUE /\ block' = NoBlock /\ worker' = "loop"
     /\ UNCHANGED <<audioVars, sharedVars, taken, resets>>

(* A panic in the backend takes the thread and the blocks it has with it.  *)
Panic ==
  /\ worker = "infer" /\ Fault
  /\ worker' = "gone"
  /\ block' = NoBlock /\ pending' = <<>> /\ completed' = <<>>
  /\ computed' = <<>> /\ held' = <<>>
  /\ UNCHANGED <<audioVars, sharedVars, at, failed, taken, resets>>

-----------------------------------------------------------------------------
AudioStep == \/ BeginOutputChunk \/ DrainOutput \/ ChooseOutput \/ Frame
             \/ ReclaimInput \/ ReclaimOutput \/ Joined
WorkerStep == \/ Deliver \/ Take \/ TakeNothing \/ Leave
              \/ Infer \/ InferFails \/ PassThrough \/ Panic

Next == \/ WarmUp \/ Activate
        \/ Process \/ Return \/ HostReset \/ Restore \/ Stop
        \/ AudioStep
        \/ WorkerStep

Spec == Init /\ [][Next]_vars

(* The audio thread runs; nothing is assumed of the worker.                *)
FairSpec == Spec /\ WF_vars(AudioStep)

-----------------------------------------------------------------------------
TypeOK ==
  /\ audio \in {"activating", "ready", "drain", "frame", "resetInput",
                "resetOutput", "joining", "off"}
  /\ worker \in {"warming", "loop", "take", "infer", "gone"}
  /\ {inCall, attached, resetDue, running, failed} \subseteq BOOLEAN
  /\ generation \in Nat /\ frame \in Nat /\ fill \in 0 .. ChunkFrames - 1
  /\ capture \in Samples
  /\ dry \in [0 .. LatencyFrames - 1 -> Sample] /\ cursor \in DOMAIN dry
  /\ playback \in Result /\ ready \in Seq(Result) /\ free \in 0 .. PoolSize
  /\ input \in Seq(Block) /\ output \in Seq(Result)
  /\ Len(input) <= QueueBlocks /\ Len(output) <= QueueBlocks
  /\ block \in Block /\ at \in [gen : Nat, next : Nat]
  /\ pending \in Seq(Block) /\ completed \in Seq(Result)
  /\ computed \in Seq(Sample) /\ held \in Seq(Sample)
  /\ taken \in Sample /\ resets \in 0 .. MaxResets /\ faults \in 0 .. MaxFaults

(* Every sample of inference that is played is the one the dry path plays  *)
(* at the same moment: it is neither shifted, nor of another stream, nor   *)
(* from before a reset.  (begin_output_chunk, worker_loop; docs/neural-    *)
(* plugin.md:148-151)                                                      *)
WetIsDry ==
  playback.valid /\ (audio = "frame" \/ fill # 0) =>
    \A i \in fill + 1 .. ChunkFrames :
      playback.block.samples[i] = dry[(cursor + i - fill - 1) % LatencyFrames]

(* The recurrent state of the model only ever comes from one stretch of    *)
(* the input: what it holds back, and what came out and waits for the rest *)
(* of its block, is one run of samples without a gap, whatever was dropped *)
(* or reset.  (worker_loop; docs/neural-plugin.md:133-134)                 *)
ModelHearsOneStream ==
  LET inside == computed \o held
  IN  \A i \in 1 .. Len(inside) - 1 : inside[i + 1] = inside[i] + 1

(* Blocks are neither lost nor made: the pool is the free blocks, the one  *)
(* that is filled, and those in a queue or in the hands of the worker,     *)
(* whose own are lost only with its thread.  (recycle, neural.rs:1730)     *)
BlocksInUse ==
  1 + Len(input) + Len(output) + Len(ready) + (IF Playing THEN 1 ELSE 0)
    + Len(pending) + Len(completed) + (IF worker = "infer" THEN 1 ELSE 0)

PoolConserved ==
  /\ free + BlocksInUse <= PoolSize
  /\ worker # "gone" => free + BlocksInUse = PoolSize

(* A pause of the worker cannot force a discontinuity before the deadline: *)
(* a chunk is dropped only while the oldest block that waits for the       *)
(* worker has missed its time already.  (docs/neural-plugin.md:57-59)      *)
DropsOnlyLate ==
  [][ taken' # taken /\ fill' = 0 /\ attached /\ Len(input') = Len(input) =>
        /\ input # <<>>
        /\ Head(input).gen = generation
        /\ Head(input).start + LatencyFrames < frame' ]_vars

(* The audio thread is never held up by the worker: whatever it does, a    *)
(* chunk is begun and a reset is done.  (docs/neural-plugin.md:101)        *)
CallbackNeverWaits ==
  audio \in {"drain", "frame", "resetInput", "resetOutput"} ~> audio = "ready"

(* When the worker runs too, stop() ends.  (neural.rs:1761)                *)
StopEnds == WF_vars(WorkerStep) => (audio = "joining" ~> audio = "off")
=============================================================================
