------------------------------- MODULE AgentTask -------------------------------
(* One execution of an agent node: execute_agent_task (agents.py) around    *)
(* PiRpcAdapter.run (pi.py), with the agent's process, the thread that      *)
(* drains its output and the loop that judges each record.                  *)
(*                                                                          *)
(* A record of the process is what the loop makes of it: the prompt is      *)
(* accepted, a turn or a tool call begins, a result is submitted with the   *)
(* outputs it names, the agent is settled, or the record is one of those    *)
(* that end the run with a failure (Fatal), some of them after an answer to *)
(* the process. Records that only add usage and trajectory are left out.    *)
EXTENDS Integers, Sequences, FiniteSets, SequencesExt

CONSTANTS File,          \* workspace files the selectors match
          Published,     \* SUBSET File: sources the task publishes
          Fatal,         \* failures a record can be: "policy", "model", ...
          None,
          MaxTurns,      \* limits.max_turns (limits.max_tool_calls alike)
          MaxRecords     \* bound: records of the process

VARIABLES at,            \* where the execution is
          process,       \* "none", "running", "done", "crashed", "killed"
          stuffed,       \* nobody has read what its stdin has no room for
          pipe,          \* written to stdout and not read
          chunks,        \* the reader thread's queue
          reading,       \* the reader thread has not put its end marker
          line,          \* records of the chunk the loop is in
          heard,         \* records the loop has judged
          completion,    \* outputs of the accepted submission, or None
          cause,         \* the failure on its way up, or None
          first,         \* the first failure there was
          evidence,      \* stdout and stderr were recorded
          overflow,      \* evidence went over a limit
          collected,     \* files ingested for the artifact
          result,        \* outputs of the artifact, or None
          failureFile,   \* the failure written to failures/<node>.json, or None
          workspace,     \* the staging directory exists
          entered        \* the block that cleans up has been entered

taskVars == <<at, process, stuffed, pipe, chunks, reading, line, heard, completion, cause, first,
          evidence, overflow, collected, result, failureFile, workspace, entered>>

piVars == <<process, stuffed, pipe, chunks, reading>>
loopVars == <<line, heard, completion>>
endVars == <<evidence, overflow, collected, result, failureFile>>

Record == [kind: {"submit"}, outputs: SUBSET File]
            \cup [kind: {"accept", "turn", "settle"} \cup Fatal, outputs: {{}}]

Heard(kinds) == {i \in DOMAIN heard : heard[i].kind \in kinds}
Count(kind) == Cardinality(Heard({kind}))

Raise(f) == /\ cause' = f
            /\ first' = IF first = None THEN f ELSE first

\* the loop is left: nothing more of what the process writes is judged, and
\* what is still in the pipe, in the queue or in the chunk is lost
LeaveLoop == at' = "close" /\ pipe' = <<>> /\ chunks' = <<>> /\ line' = <<>>

-----------------------------------------------------------------------------
\* the identity of the adapter and what it is capable of are checked before
\* anything is made
Prepare ==
  /\ at = "start"
  /\ \/ /\ at' = "over" /\ Raise("refused")
        /\ UNCHANGED workspace
     \/ /\ at' = "session" /\ workspace' = TRUE
        /\ UNCHANGED <<cause, first>>
  /\ UNCHANGED <<piVars, loopVars, endVars, entered>>

\* the session handed in is read before the block that cleans up
ReadSession ==
  /\ at = "session"
  /\ \/ /\ at' = "over" /\ Raise("protocol")
        /\ UNCHANGED entered
     \/ /\ at' = "stage" /\ entered' = TRUE
        /\ UNCHANGED <<cause, first>>
  /\ UNCHANGED <<piVars, loopVars, endVars, workspace>>

\* declared files, inputs and capsule are copied into the workspace
StageInputs ==
  /\ at = "stage"
  /\ \/ at' = "fail" /\ Raise("protocol")
     \/ at' = "probe" /\ UNCHANGED <<cause, first>>
  /\ UNCHANGED <<piVars, loopVars, endVars, workspace, entered>>

\* configuration, version of the command, and the process itself
SpawnFailures == {"config", "version", "spawn", "exit", "timeout", "protocol"}

Spawn ==
  /\ at = "probe"
  /\ \/ /\ at' = "close" /\ \E f \in SpawnFailures : Raise(f)
        /\ UNCHANGED <<process, stuffed, reading>>
     \/ /\ at' = "prompt" /\ process' = "running" /\ reading' = TRUE
        /\ stuffed' \in BOOLEAN
        /\ UNCHANGED <<cause, first>>
  /\ UNCHANGED <<pipe, chunks, loopVars, endVars, workspace, entered>>

\* _send_json writes and flushes, with no deadline: while its pipe is stuffed it
\* neither returns nor raises. The process may be gone already.
SendPrompt ==
  /\ at = "prompt" /\ ~stuffed
  /\ \/ at' = "loop" /\ UNCHANGED <<pipe, chunks, line, cause, first>>
     \/ LeaveLoop /\ Raise("connection")
  /\ UNCHANGED <<process, stuffed, reading, heard, completion, endVars, workspace, entered>>

-----------------------------------------------------------------------------
\* The process: reads its stdin or closes it, writes records in any order, and
\* exits
Listen ==
  /\ process = "running" /\ stuffed /\ stuffed' = FALSE
  /\ UNCHANGED <<at, process, pipe, chunks, reading, loopVars, cause, first, endVars,
                 workspace, entered>>

Listened == at \in {"prompt", "loop", "record", "answer", "check"}

Written == Len(heard) + Len(line) + Len(pipe) + Len(FlattenSeq(chunks))

Write ==
  /\ process = "running" /\ Listened /\ Written < MaxRecords
  /\ \E rec \in Record : pipe' = Append(pipe, rec)
  /\ UNCHANGED <<at, process, stuffed, chunks, reading, loopVars, cause, first, endVars,
                 workspace, entered>>

Exit ==
  /\ process = "running"
  /\ process' \in {"done", "crashed"} /\ stuffed' = FALSE
  /\ UNCHANGED <<at, pipe, chunks, reading, loopVars, cause, first, endVars,
                 workspace, entered>>

\* read_stdout: what is there, in chunks; an end marker once the pipe is closed
Drain ==
  /\ reading /\ Listened
  /\ \/ /\ pipe # <<>> /\ chunks = <<>>
        /\ \E n \in 1..Len(pipe) :
             /\ chunks' = Append(chunks, SubSeq(pipe, 1, n))
             /\ pipe' = SubSeq(pipe, n + 1, Len(pipe))
        /\ UNCHANGED reading
     \/ /\ pipe = <<>> /\ process # "running"
        /\ chunks' = Append(chunks, <<>>) /\ reading' = FALSE
        /\ UNCHANGED pipe
  /\ UNCHANGED <<at, process, stuffed, loopVars, cause, first, endVars, workspace, entered>>

-----------------------------------------------------------------------------
\* Mutant: the deadline is looked at when there is something to read.
TimeUpReading == at = "loop" /\ chunks # <<>>

\* the deadline is checked before each chunk, and while waiting for one
TimeUp == at = "loop"

Timeout ==
  /\ TimeUp
  /\ LeaveLoop /\ Raise("timeout")
  /\ UNCHANGED <<process, stuffed, reading, heard, completion, endVars, workspace, entered>>

\* nothing for a tenth of a second, and the process has exited
Poll ==
  /\ at = "loop" /\ chunks = <<>> /\ process # "running"
  /\ LeaveLoop /\ Raise("exit")
  /\ UNCHANGED <<process, stuffed, reading, heard, completion, endVars, workspace, entered>>

Take ==
  /\ at = "loop" /\ chunks # <<>>
  /\ \/ /\ Head(chunks) = <<>>
        /\ LeaveLoop /\ Raise("exit")
     \/ /\ Head(chunks) # <<>>
        /\ at' = "record" /\ line' = Head(chunks) /\ chunks' = Tail(chunks)
        /\ UNCHANGED <<pipe, cause, first>>
  /\ UNCHANGED <<process, stuffed, reading, heard, completion, endVars, workspace, entered>>

\* Mutant: a second submission replaces the first.
SubmittedAgain(rec) == FALSE

SubmittedTwice(rec) == rec.kind = "submit" /\ completion # None
TooManyTurns(rec) == rec.kind = "turn" /\ Count("turn") = MaxTurns

\* what refuses the run when this record is heard
Refusals(rec) ==
  {f \in Fatal \cup {"submit", "policy"} :
     \/ f \in Fatal /\ f = rec.kind
     \/ f = "submit" /\ SubmittedTwice(rec)
     \/ f = "policy" /\ TooManyTurns(rec)}

\* one record of the chunk is judged
Judge ==
  /\ at = "record" /\ line # <<>>
  /\ LET rec == Head(line) IN
       /\ heard' = Append(heard, rec)
       /\ completion' = IF rec.kind = "submit" /\ ~SubmittedTwice(rec)
                        THEN rec.outputs ELSE completion
       /\ \/ /\ \E f \in Refusals(rec) : Raise(f)
             /\ LeaveLoop /\ UNCHANGED stuffed
          \/ /\ rec.kind \in Fatal
             /\ at' = "answer" /\ stuffed' \in BOOLEAN /\ line' = Tail(line)
             /\ UNCHANGED <<pipe, chunks, cause, first>>
          \/ /\ Refusals(rec) = {}
             /\ line' = Tail(line)
             /\ UNCHANGED <<at, stuffed, pipe, chunks, cause, first>>
  /\ UNCHANGED <<process, reading, endVars, workspace, entered>>

\* an extension that asks is told that it is cancelled, and the run is refused
AnswerRequest ==
  /\ at = "answer" /\ ~stuffed
  /\ LeaveLoop /\ \E f \in {"policy", "connection"} : Raise(f)
  /\ UNCHANGED <<process, stuffed, reading, heard, completion, endVars, workspace, entered>>

\* the whole chunk is judged before settled is looked at
NextChunk ==
  /\ at = "record" /\ line = <<>>
  /\ at' = IF Count("settle") > 0 THEN "check" ELSE "loop"
  /\ UNCHANGED <<piVars, loopVars, cause, first, endVars, workspace, entered>>

\* prompt accepted, a result, no bad exit, no credential, a session that fits
Check ==
  /\ at = "check" /\ LeaveLoop
  /\ \/ /\ (Count("accept") = 0 \/ completion = None) /\ Raise("envelope")
     \/ /\ Count("accept") > 0 /\ completion # None
        /\ \/ process = "crashed" /\ Raise("exit")
           \/ \E f \in {"config", "protocol"} : Raise(f)
           \/ process # "crashed" /\ UNCHANGED <<cause, first>>
  /\ UNCHANGED <<process, stuffed, reading, heard, completion, endVars, workspace, entered>>

-----------------------------------------------------------------------------
\* Mutant: the process group is terminated when the run has failed.
TerminatedOnFailure == IF process = "running" /\ cause # None THEN "killed" ELSE process

\* _terminate_process_group, whatever happened
Terminated == IF process = "running" THEN "killed" ELSE process

\* the last block of the adapter: evidence that is over a limit raises in the
\* place of what was on its way; an interrupt is no Exception and is not filed
Close ==
  /\ at = "close"
  /\ process' = Terminated /\ stuffed' = FALSE /\ reading' = FALSE
  /\ \/ /\ evidence' = TRUE
        /\ at' = IF cause = None THEN "collect"
                 ELSE IF cause = "interrupt" THEN "clean" ELSE "fail"
        /\ UNCHANGED <<overflow, cause, first>>
     \/ /\ overflow' = TRUE
        /\ at' = "fail" /\ Raise("protocol")
        /\ UNCHANGED evidence
  /\ UNCHANGED <<pipe, chunks, loopVars, collected, result, failureFile, workspace, entered>>

\* _collect: a symlink in the workspace or a limit refuses the whole of it
Collect ==
  /\ at = "collect"
  /\ \/ /\ at' = "publish" /\ collected' \in SUBSET File
        /\ UNCHANGED <<cause, first>>
     \/ /\ at' = "fail" /\ Raise("protocol")
        /\ UNCHANGED collected
  /\ UNCHANGED <<piVars, loopVars, evidence, overflow, result, failureFile,
                 workspace, entered>>

Contract == completion \subseteq collected /\ Published \subseteq completion

Publish ==
  /\ at = "publish"
  /\ \/ /\ Contract /\ at' = "clean" /\ result' = completion
        /\ UNCHANGED <<cause, first>>
     \/ /\ ~Contract /\ at' = "fail" /\ Raise("submit")
        /\ UNCHANGED result
  /\ UNCHANGED <<piVars, loopVars, evidence, overflow, collected, failureFile,
                 workspace, entered>>

\* the failure is written, with whatever can still be collected; the manifest
\* of the workspace, a blob or the file may raise in its place
Fail ==
  /\ at = "fail" /\ at' = "clean"
  /\ \/ failureFile' = cause /\ UNCHANGED <<cause, first>>
     \/ Raise("unfiled") /\ UNCHANGED failureFile
  /\ UNCHANGED <<piVars, loopVars, evidence, overflow, collected, result, workspace,
                 entered>>

Clean ==
  /\ at = "clean" /\ at' = "over" /\ workspace' = FALSE
  /\ UNCHANGED <<piVars, loopVars, cause, first, endVars, entered>>

\* KeyboardInterrupt, which "except Exception" lets pass. One that falls into a
\* finally block itself is left out.
InAdapter == {"probe", "prompt", "loop", "record", "answer", "check"}

Interrupt ==
  /\ \/ at \in InAdapter /\ LeaveLoop
     \/ /\ \/ at = "session" /\ at' = "over"
           \/ at \in {"stage", "collect", "publish", "fail"} /\ at' = "clean"
        /\ UNCHANGED <<pipe, chunks, line>>
  /\ Raise("interrupt")
  /\ UNCHANGED <<process, stuffed, reading, heard, completion, endVars, workspace, entered>>

Execute ==
  \/ Prepare \/ ReadSession \/ StageInputs \/ Spawn \/ SendPrompt \/ Timeout \/ Poll
  \/ Take \/ Judge \/ AnswerRequest \/ NextChunk \/ Check \/ Close \/ Collect \/ Publish \/ Fail \/ Clean

TaskInit ==
  /\ at = "start" /\ process = "none" /\ stuffed = FALSE /\ pipe = <<>> /\ chunks = <<>> /\ reading = FALSE
  /\ line = <<>> /\ heard = <<>> /\ completion = None
  /\ cause = None /\ first = None /\ evidence = FALSE /\ overflow = FALSE
  /\ collected = {} /\ result = None /\ failureFile = None
  /\ workspace = FALSE /\ entered = FALSE

TaskNext == Execute \/ Interrupt \/ Listen \/ Write \/ Exit \/ Drain

TaskSpec == TaskInit /\ [][TaskNext]_taskVars

\* The thread that executes the node is scheduled, and time passes; of the
\* agent's process, of what it reads and of its output nothing is assumed.
TaskFairSpec == TaskSpec /\ WF_taskVars(Execute)

-----------------------------------------------------------------------------
\* An artifact comes of one submission only: in what the loop has heard there
\* is the acceptance of the prompt, that submission and the end, no record
\* that refuses the run, no turn beyond the limit; its outputs were collected,
\* they cover what the task publishes, and the evidence is kept
\* (agent-node.md:46-49).
Delivered ==
  result # None =>
    /\ Count("submit") = 1 /\ \A i \in Heard({"submit"}) : heard[i].outputs = result
    /\ Count("accept") > 0 /\ Count("settle") > 0 /\ Count("turn") <= MaxTurns
    /\ Heard(Fatal) = {}
    /\ Published \subseteq result /\ result \subseteq collected
    /\ evidence

\* Whatever happens, an execution that has begun ends with the process dead and
\* the workspace gone. It leaves an artifact, or a failure on file, unless it
\* was interrupted or the failure could not be written; never both. The failure
\* is the first there was, unless evidence over its limit has displaced it
\* (execute_agent_task, PiRpcAdapter.run).
WellEnded ==
  at = "over" /\ entered =>
    /\ process # "running" /\ ~workspace
    /\ result = None => failureFile # None \/ cause \in {"interrupt", "unfiled"}
    /\ result # None => cause = None /\ failureFile = None
    /\ failureFile # None => failureFile = IF overflow THEN "protocol" ELSE first

\* A failure on file, and no workspace, for every execution that made one
\* (agent-node.md:87): it does not hold of one whose session cannot be read,
\* of one that is interrupted, nor when the failure cannot be written.
FailureKept ==
  at = "over" /\ result = None => ~workspace /\ (first # "refused" => failureFile # None)

\* The adapter waits for a process that runs and does not read
Blocked == at \in {"prompt", "answer"} /\ stuffed
=============================================================================
