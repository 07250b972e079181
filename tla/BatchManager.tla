---------------------------- MODULE BatchManager ----------------------------
(***************************************************************************)
(* The batching of prompts for an inference engine                         *)
(* (compute-scheduler/src/batching.rs): callers queue a prompt and wait,   *)
(* one task fills a batch until it is large enough or has waited long      *)
(* enough, has the engine generate it and deals the outputs out.  Of the   *)
(* engines only what a call may give is modelled: a text, a mock when the  *)
(* server does not answer, an error, or the end of the task when the mock  *)
(* cuts the prompt inside a character (engine.rs:182).                     *)
(***************************************************************************)
EXTENDS Naturals, Sequences, SequencesExt, FiniteSets

CONSTANTS Prompts,        \* one of each caller
          SplitPrompts,   \* those whose fiftieth byte is inside a character
          Engines, max_batch_size, queue_capacity, max_retries

ASSUME BatchAssumption ==
  /\ SplitPrompts \subseteq Prompts
  /\ Engines \subseteq {"llama.cpp", "vllm", "mps", "cloud", "tensorrt"}
  /\ max_batch_size \in Nat \ {0} /\ queue_capacity \in Nat \ {0} /\ max_retries \in Nat

VARIABLES
  engine,        \* the engine and whether it falls back to a mock
  batch_queue, batch,
  batch_task,    \* "recv", "fill", "generate" or "panicked"
  ungenerated,   \* prompts of the batch the engine has not generated yet
  outputs, tries,
  answer         \* what each caller got

batchVars == <<engine, batch_queue, batch, batch_task, ungenerated, outputs, tries, answer>>

Text(p) == [kind |-> "text", of |-> p]
Mock(p) == [kind |-> "mock", of |-> p]
EngineFails == [kind |-> "error"]
Panic       == [kind |-> "panic"]
Unanswered  == [kind |-> "none"]
Dropped     == [kind |-> "dropped"]
Outputs     == {Text(p) : p \in Prompts} \cup {Mock(p) : p \in Prompts}

BatchTypeOK ==
  /\ engine \in [kind : Engines, fallback_mock : BOOLEAN]
  /\ batch_queue \in Seq(Prompts) /\ Len(batch_queue) <= queue_capacity
  /\ batch \in Seq(Prompts) /\ Len(batch) <= max_batch_size
  /\ batch_task \in {"recv", "fill", "generate", "panicked"}
  /\ ungenerated \in Seq(Prompts) /\ outputs \in Seq(Outputs)
  /\ tries \in 0 .. max_retries
  /\ answer \in [Prompts -> Outputs \cup {Unanswered, EngineFails, Dropped}]

BatchInit ==
  /\ engine \in [kind : Engines, fallback_mock : BOOLEAN]
  /\ batch_queue = <<>> /\ batch = <<>> /\ batch_task = "recv"
  /\ ungenerated = <<>> /\ outputs = <<>> /\ tries = 0
  /\ answer = [p \in Prompts |-> Unanswered]

-----------------------------------------------------------------------------
(* What one call of an engine may give for a prompt.                       *)
mock_generate(p) == IF p \in SplitPrompts THEN Panic ELSE Mock(p)
Unavailable(p)   == IF engine.fallback_mock THEN mock_generate(p) ELSE EngineFails

generate_llama_cpp(p) == {Text(p), Unavailable(p)}
generate_vllm(p)      == {Text(p), Unavailable(p)}
(* A response that cannot be parsed is an error, mock or not.              *)
generate_mps(p)       == {Text(p), EngineFails, Unavailable(p)}
(* The cloud is tried again first.                                         *)
generate_cloud(p)     == {Text(p)} \cup (IF tries = max_retries THEN {Unavailable(p)} ELSE {})

generate(p) == CASE engine.kind = "llama.cpp" -> generate_llama_cpp(p)
                 [] engine.kind = "vllm"      -> generate_vllm(p)
                 [] engine.kind = "mps"       -> generate_mps(p)
                 [] engine.kind = "cloud"     -> generate_cloud(p)
                 [] OTHER                     -> {}

(* TensorRT-LLM gets the batch in one call, and its outputs are not        *)
(* counted.                                                                *)
generate_tensorrt ==
  LET mocks == [i \in DOMAIN batch |-> mock_generate(batch[i])] IN
    {[i \in 1 .. n |-> Text(batch[i])] : n \in 0 .. Len(batch)}
    \cup {<<EngineFails>>}
    \cup (IF ~engine.fallback_mock THEN {}
          ELSE IF Panic \in ToSet(mocks) THEN {<<Panic>>} ELSE {mocks})

-----------------------------------------------------------------------------
InQueue == ToSet(batch_queue)

submit(p) ==
  /\ answer[p] = Unanswered /\ p \notin InQueue \cup ToSet(batch)
  /\ IF batch_task = "panicked"
     THEN answer' = [answer EXCEPT ![p] = EngineFails] /\ UNCHANGED batch_queue
     ELSE /\ Len(batch_queue) < queue_capacity
          /\ batch_queue' = Append(batch_queue, p) /\ UNCHANGED answer
  /\ UNCHANGED <<engine, batch, batch_task, ungenerated, outputs, tries>>

recv ==
  /\ batch_queue # <<>> /\ Len(batch) < max_batch_size
  /\ batch_task \in {"recv", "fill"} /\ batch_task' = "fill"
  /\ batch' = Append(batch, Head(batch_queue)) /\ batch_queue' = Tail(batch_queue)
  /\ UNCHANGED <<engine, ungenerated, outputs, tries, answer>>

(* Mutant: only a full batch is generated.                                 *)
fill_over_WhenFull ==
  /\ batch_task = "fill" /\ batch_task' = "generate"
  /\ Len(batch) = max_batch_size
  /\ ungenerated' = batch /\ outputs' = <<>> /\ tries' = 0
  /\ UNCHANGED <<engine, batch_queue, batch, answer>>

(* The batch is full, or max_wait_time is over, which it may be with the   *)
(* queue not empty.                                                        *)
fill_over ==
  /\ batch_task = "fill" /\ batch_task' = "generate"
  /\ ungenerated' = batch /\ outputs' = <<>> /\ tries' = 0
  /\ UNCHANGED <<engine, batch_queue, batch, answer>>

(* The end of the task drops the callers of the batch and of the queue.    *)
panics ==
  /\ batch_task' = "panicked"
  /\ answer' = [p \in Prompts |-> IF p \in InQueue \cup ToSet(batch) THEN Dropped ELSE answer[p]]
  /\ batch' = <<>> /\ batch_queue' = <<>> /\ ungenerated' = <<>> /\ outputs' = <<>> /\ tries' = 0
  /\ UNCHANGED engine

(* Everybody in the batch gets the error of one.                           *)
batch_fails ==
  /\ batch_task' = "recv"
  /\ answer' = [p \in Prompts |-> IF p \in ToSet(batch) THEN EngineFails ELSE answer[p]]
  /\ batch' = <<>> /\ ungenerated' = <<>> /\ outputs' = <<>> /\ tries' = 0
  /\ UNCHANGED <<engine, batch_queue>>

Generating == batch_task = "generate" /\ engine.kind # "tensorrt" /\ ungenerated # <<>>

retry_later ==
  /\ Generating /\ engine.kind = "cloud" /\ tries < max_retries /\ tries' = tries + 1
  /\ UNCHANGED <<engine, batch_queue, batch, batch_task, ungenerated, outputs, answer>>

(* Mutant: a prompt that fails is left out of the outputs.                 *)
generate_batch_Skipping ==
  /\ Generating
  /\ \E out \in generate(Head(ungenerated)) :
       IF out = Panic THEN panics
       ELSE /\ outputs' = IF out = EngineFails THEN outputs ELSE Append(outputs, out)
            /\ ungenerated' = Tail(ungenerated) /\ tries' = 0
            /\ UNCHANGED <<engine, batch_queue, batch, batch_task, answer>>

(* The prompts of a batch one after the other, to the first that fails.    *)
generate_batch ==
  /\ Generating
  /\ \E out \in generate(Head(ungenerated)) :
       CASE out = Panic       -> panics
         [] out = EngineFails -> batch_fails
         [] OTHER -> /\ outputs' = Append(outputs, out)
                     /\ ungenerated' = Tail(ungenerated) /\ tries' = 0
                     /\ UNCHANGED <<engine, batch_queue, batch, batch_task, answer>>

(* Each caller gets the output at its own place; who has none is dropped.  *)
deal(outs) ==
  /\ batch_task' = "recv"
  /\ answer' = [p \in Prompts |->
       LET place == {i \in DOMAIN batch : batch[i] = p}
       IN  IF place = {} THEN answer[p]
           ELSE LET i == CHOOSE i \in place : TRUE
                IN  IF i \in DOMAIN outs THEN outs[i] ELSE Dropped]
  /\ batch' = <<>> /\ outputs' = <<>> /\ ungenerated' = <<>> /\ tries' = 0
  /\ UNCHANGED <<engine, batch_queue>>

batch_generated ==
  /\ batch_task = "generate" /\ engine.kind # "tensorrt" /\ ungenerated = <<>>
  /\ deal(outputs)

call_tensorrt ==
  /\ batch_task = "generate" /\ engine.kind = "tensorrt"
  /\ \E outs \in generate_tensorrt :
       CASE outs = <<Panic>>       -> panics
         [] outs = <<EngineFails>> -> batch_fails
         [] OTHER                  -> deal(outs)

BatchTask == \/ recv \/ fill_over \/ retry_later \/ generate_batch
             \/ batch_generated \/ call_tensorrt
BatchNext == BatchTask \/ \E p \in Prompts : submit(p)

-----------------------------------------------------------------------------
(* Fairness: the task runs, max_wait_time ends, a server answers or its    *)
(* call times out; and what waits in the queue is received.                *)
BatchFairness == WF_batchVars(BatchTask)

BatchSpec == BatchInit /\ [][BatchNext]_batchVars /\ BatchFairness

(* A caller that gets a text gets the one of its own prompt, whatever      *)
(* happened to the others of its batch.                                    *)
AnswersMatch ==
  \A p \in Prompts : answer[p].kind \in {"text", "mock"} => answer[p].of = p

(* Nobody waits for ever: not the caller alone in its batch, and not one   *)
(* whose batch, or whose task, came to an end.                             *)
SubmittedIsAnswered ==
  \A p \in Prompts : (p \in InQueue \cup ToSet(batch)) ~> (answer[p] # Unanswered)
=============================================================================
