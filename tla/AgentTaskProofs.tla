-------------------------- MODULE AgentTaskProofs --------------------------
(* Proofs about AgentTask, for any files, failures, limits and any records   *)
(* in any order: what an artifact of an agent comes of, and how an execution *)
(* ends. Of the agent's process nothing is assumed, nor of the thread that   *)
(* drains its output. And about Capsule, for any tree of directories whose   *)
(* resources do not overlap, and any edits.                                  *)
EXTENDS AgentTask, Capsule, WellFoundedInduction, SequenceTheorems, FiniteSetTheorems, TLAPS

\* None is no failure and no set of outputs; a limit is a number (agents.py:129)
Bounds ==
  /\ None \notin SUBSET File
  /\ None \notin Fatal \cup SpawnFailures
                   \cup {"refused", "protocol", "connection", "exit", "timeout", "submit",
                         "policy", "envelope", "config", "interrupt", "unfiled"}
  /\ MaxTurns \in Nat

Places == {"start", "session", "stage", "probe", "prompt", "loop", "record", "answer", "check",
           "close", "collect", "publish", "fail", "clean", "over"}

\* the records that are on their way
Streams ==
  /\ pipe \in Seq(Record) /\ line \in Seq(Record) /\ heard \in Seq(Record)
  /\ chunks \in Seq(Seq(Record))

\* what the loop has heard while nothing has gone wrong and nobody is answered: nothing fatal, no more
\* turns than there may be, and one submission at most, which is the completion
Judged ==
  /\ Heard(Fatal) = {} /\ Count("turn") <= MaxTurns
  /\ IF completion = None THEN Heard({"submit"}) = {}
     ELSE \E i \in DOMAIN heard : Heard({"submit"}) = {i} /\ heard[i].outputs = completion

\* and when it has been settled and checked
Settled == Count("settle") > 0
Checked == Settled /\ Count("accept") > 0 /\ completion # None

Progress ==
  /\ at \in Places
  /\ completion \in (SUBSET File) \cup {None}
  /\ at \in {"start", "session", "stage", "probe", "prompt"} => heard = <<>> /\ completion = None
  /\ cause = None /\ at # "answer" => Judged
  /\ at = "check" => Settled
  /\ at \in {"close", "collect", "publish", "clean"} /\ cause = None => Checked
  /\ at \in {"collect", "publish", "clean"} /\ cause = None => evidence

\* a failure ends it, the first one unless the evidence has displaced it, or
\* the failure is not written
Failing ==
  /\ cause # None => at \in {"close", "fail", "clean", "over"}
  /\ at = "fail" => cause # None
  /\ overflow => at \in {"fail", "clean", "over"} /\ cause # None
  /\ at \notin {"clean", "over"} => cause = IF overflow THEN "protocol" ELSE first

\* what is there in the end
Filed ==
  IF cause = None THEN result # None /\ failureFile = None
  ELSE /\ result = None
       /\ failureFile = None => cause \in {"interrupt", "unfiled"}
       /\ failureFile # None => failureFile = IF overflow THEN "protocol" ELSE first

Ending ==
  /\ process = "running" => at \in {"prompt", "loop", "record", "answer", "check", "close"}
  /\ at \in {"start", "session"} => ~entered
  /\ at = "over" /\ entered => ~workspace
  /\ at \notin {"clean", "over"} => result = None /\ failureFile = None
  /\ at \notin {"start", "session", "over"} => entered
  /\ at = "clean" \/ (entered /\ at = "over") => Filed

IInv == Streams /\ Progress /\ Failing /\ Ending /\ Delivered

-----------------------------------------------------------------------------
LEMMA HeardFinite ==
  ASSUME Streams, NEW K
  PROVE  IsFiniteSet(Heard(K)) /\ Cardinality(Heard(K)) \in Nat
<1>1. DOMAIN heard = 1 .. Len(heard) /\ Len(heard) \in Nat
  BY LenProperties DEF Streams
<1>2. IsFiniteSet(1 .. Len(heard))
  BY <1>1, FS_Interval
<1>3. Heard(K) \in SUBSET (1 .. Len(heard))
  BY <1>1 DEF Heard
<1>4. IsFiniteSet(Heard(K))
  BY <1>2, <1>3, FS_Subset
<1> QED BY <1>4, FS_CardinalityType

\* one more record is heard
LEMMA HeardMore ==
  ASSUME Streams, NEW rec \in Record, heard' = Append(heard, rec)
  PROVE  /\ heard' \in Seq(Record) /\ DOMAIN heard' = DOMAIN heard \cup {Len(heard) + 1}
         /\ Len(heard) + 1 \notin DOMAIN heard
         /\ heard'[Len(heard) + 1] = rec
         /\ \A i \in DOMAIN heard : heard'[i] = heard[i]
         /\ \A K : Heard(K)' = IF rec.kind \in K THEN Heard(K) \cup {Len(heard) + 1} ELSE Heard(K)
<1>1. DOMAIN heard = 1 .. Len(heard) /\ Len(heard) \in Nat
  BY LenProperties DEF Streams
<1>2. /\ heard' \in Seq(Record) /\ Len(heard') = Len(heard) + 1
      /\ heard'[Len(heard) + 1] = rec /\ \A i \in 1 .. Len(heard) : heard'[i] = heard[i]
  BY <1>1, AppendProperties DEF Streams
<1>3. DOMAIN heard' = 1 .. (Len(heard) + 1)
  BY <1>2, LenProperties
<1>4. DOMAIN heard' = DOMAIN heard \cup {Len(heard) + 1} /\ Len(heard) + 1 \notin DOMAIN heard
  BY <1>1, <1>3
<1>5. ASSUME NEW K
      PROVE  Heard(K)' = IF rec.kind \in K THEN Heard(K) \cup {Len(heard) + 1} ELSE Heard(K)
  BY <1>1, <1>2, <1>4, Zenon DEF Heard
<1> QED BY <1>1, <1>2, <1>4, <1>5

LEMMA CountMore ==
  ASSUME Streams, NEW rec \in Record, heard' = Append(heard, rec), NEW k
  PROVE  Count(k)' = IF rec.kind = k THEN Count(k) + 1 ELSE Count(k)
<1>1. /\ Len(heard) + 1 \notin Heard({k})
      /\ Heard({k})' = IF rec.kind = k THEN Heard({k}) \cup {Len(heard) + 1} ELSE Heard({k})
  BY HeardMore, Zenon DEF Heard
<1>2. IsFiniteSet(Heard({k}))
  BY HeardFinite
<1> QED BY <1>1, <1>2, FS_AddElement DEF Count

LEMMA NothingHeard == heard = <<>> => \A K : Heard(K) = {} /\ Cardinality(Heard(K)) = 0
<1>1. heard = <<>> => \A K : Heard(K) = {}
  BY DEF Heard
<1> QED BY <1>1, FS_EmptySet

\* what has been heard stays as it was
LEMMA HeardSame ==
  UNCHANGED heard => \A K : Heard(K)' = Heard(K) /\ \A k : Count(k)' = Count(k)
BY DEF Heard, Count

LEMMA Inits == ASSUME Bounds PROVE TaskInit => IInv
<1>1. ASSUME TaskInit PROVE Streams
  BY <1>1 DEF TaskInit, Streams
<1>2. ASSUME TaskInit PROVE Judged
  BY <1>2, NothingHeard DEF TaskInit, Judged, Count, Bounds
<1>3. ASSUME TaskInit PROVE Progress
  <2>1. at = "start" /\ heard = <<>> /\ completion = None /\ Judged
    BY <1>2, <1>3 DEF TaskInit
  <2>2. at \in Places
    BY <2>1 DEF Places
  <2>3. completion \in (SUBSET File) \cup {None}
    BY <2>1, Zenon
  <2> QED BY <2>1, <2>2, <2>3 DEF Progress
<1>4. ASSUME TaskInit PROVE Failing /\ Ending
  BY <1>4 DEF TaskInit, Failing, Ending, Filed
<1>5. ASSUME TaskInit PROVE Delivered
  BY <1>5 DEF TaskInit, Delivered
<1> QED BY <1>1, <1>3, <1>4, <1>5 DEF IInv

-----------------------------------------------------------------------------
(* The process and its output touch nothing but the streams. *)

LEMMA Outside ==
  ASSUME Bounds, IInv, UNCHANGED <<at, heard, completion, cause, first, endVars, workspace, entered>>,
         Streams', process' = "running" => process = "running"
  PROVE  IInv'
<1>1. \A K : Heard(K)' = Heard(K) /\ \A k : Count(k)' = Count(k)
  BY HeardSame
<1>2. Judged' <=> Judged
  BY <1>1 DEF Judged
<1>3. (Settled' <=> Settled) /\ (Checked' <=> Checked)
  BY <1>1 DEF Settled, Checked
<1>4. Progress'
  BY <1>2, <1>3 DEF IInv, Progress, endVars
<1>5. Delivered'
  BY <1>1 DEF IInv, Delivered, endVars
<1> QED BY <1>4, <1>5 DEF IInv, Failing, Ending, Filed, endVars

LEMMA Process == ASSUME Bounds, IInv, Listen \/ Write \/ Exit \/ Drain PROVE IInv'
<1>1. CASE Write
  <2>1. pipe' \in Seq(Record)
    BY <1>1, AppendProperties DEF Write, IInv, Streams
  <2> QED BY <1>1, <2>1, Outside DEF Write, IInv, Streams, loopVars
<1>2. CASE Exit
  BY <1>2, Outside DEF Exit, IInv, Streams, loopVars
<1>3. CASE Drain
  <2>1. CASE UNCHANGED pipe /\ chunks' = Append(chunks, <<>>)
    <3>1. <<>> \in Seq(Record)
      BY EmptySeq
    <3>2. chunks' \in Seq(Seq(Record))
      BY <2>1, <3>1, AppendProperties DEF IInv, Streams
    <3> QED BY <1>3, <2>1, <3>2, Outside DEF Drain, IInv, Streams, loopVars
  <2>2. ASSUME NEW n \in 1 .. Len(pipe), chunks' = Append(chunks, SubSeq(pipe, 1, n)),
               pipe' = SubSeq(pipe, n + 1, Len(pipe))
        PROVE  IInv'
    <3>1. pipe \in Seq(Record) /\ Len(pipe) \in Nat /\ \A i \in 1 .. Len(pipe) : pipe[i] \in Record
      BY LenProperties, ElementOfSeq DEF IInv, Streams
    <3>2. SubSeq(pipe, 1, n) \in Seq(Record)
      BY <3>1, SubSeqProperties
    <3>3. pipe' \in Seq(Record)
      BY <2>2, <3>1, SubSeqProperties
    <3>4. chunks' \in Seq(Seq(Record))
      BY <2>2, <3>2, AppendProperties DEF IInv, Streams
    <3> QED BY <1>3, <3>3, <3>4, Outside DEF Drain, IInv, Streams, loopVars
  <2> QED BY <1>3, <2>1, <2>2 DEF Drain
<1>4. CASE Listen
  BY <1>4, Outside DEF Listen, IInv, Streams, loopVars
<1> QED BY <1>1, <1>2, <1>3, <1>4

-----------------------------------------------------------------------------
(* The execution. *)

\* nothing has been heard yet, or is any more
LEMMA Silence ==
  ASSUME IInv, UNCHANGED <<heard, completion>>
  PROVE  /\ Judged' <=> Judged
         /\ Settled' <=> Settled
         /\ Checked' <=> Checked
         /\ \A k : Count(k)' = Count(k)
         /\ \A K : Heard(K)' = Heard(K)
BY HeardSame DEF Judged, Settled, Checked

\* the loop is left: nothing is on its way any more
LEMMA Leaves == ASSUME LeaveLoop, heard' \in Seq(Record) PROVE Streams' /\ at' = "close"
BY EmptySeq DEF LeaveLoop, Streams

LEMMA Begins ==
  ASSUME Bounds, IInv, Prepare \/ ReadSession \/ StageInputs \/ Spawn \/ SendPrompt
  PROVE  IInv'
<1> USE DEF IInv
<1>h. UNCHANGED <<heard, completion>> /\ UNCHANGED endVars
  BY DEF Prepare, ReadSession, StageInputs, Spawn, SendPrompt, loopVars
<1>1. Streams'
  <2>1. CASE LeaveLoop
    BY <1>h, <2>1, Leaves DEF Streams
  <2>2. CASE UNCHANGED <<pipe, chunks, line>>
    BY <1>h, <2>2 DEF Streams
  <2> QED BY <2>1, <2>2 DEF Prepare, ReadSession, StageInputs, Spawn, SendPrompt, piVars, loopVars
<1>2. cause = None /\ result = None /\ failureFile = None /\ ~overflow /\ first = None
  BY DEF Prepare, ReadSession, StageInputs, Spawn, SendPrompt, Failing, Ending
<1>3. /\ cause' = None => cause' = first' /\ at' \in {"session", "stage", "probe", "prompt", "loop"}
      /\ cause' # None => cause' = first' /\ at' \in {"over", "fail", "close"}
      /\ at' = "over" => ~entered'
      /\ at' \in {"start", "session"} => ~entered'
      /\ at' \notin {"start", "session", "over"} => entered'
      /\ process' = "running" => at' \in {"prompt", "loop", "close"}
      /\ at' \in {"session", "stage", "probe", "prompt"} => at \in {"start", "session", "stage", "probe"}
  <2>1. CASE Prepare
    BY <1>2, <2>1 DEF Prepare, Raise, Bounds, Ending, piVars
  <2>2. CASE ReadSession
    BY <1>2, <2>2 DEF ReadSession, Raise, Bounds, Ending, piVars
  <2>3. CASE StageInputs
    BY <1>2, <2>3 DEF StageInputs, Raise, Bounds, Ending, piVars
  <2>4. CASE Spawn
    BY <1>2, <2>4 DEF Spawn, Raise, Bounds, Ending, piVars
  <2>5. CASE SendPrompt
    BY <1>2, <2>5 DEF SendPrompt, LeaveLoop, Raise, Bounds, Ending
  <2> QED BY <2>1, <2>2, <2>3, <2>4, <2>5
<1>4. Progress'
  <2>1. at \in {"start", "session", "stage", "probe", "prompt"}
    BY DEF Prepare, ReadSession, StageInputs, Spawn, SendPrompt
  <2> QED BY <1>2, <1>3, <1>h, <2>1, Silence DEF Progress, Places
<1>5. Failing' /\ Delivered'
  BY <1>2, <1>3, <1>h DEF Failing, Delivered, endVars
<1>6. at' # "clean" /\ result' = None /\ failureFile' = None
  BY <1>2, <1>3, <1>h DEF endVars
<1>7. Ending'
  BY <1>3, <1>6 DEF Ending
<1> QED BY <1>1, <1>4, <1>5, <1>7

\* the loop gives up, or takes the next chunk
LEMMA Loops ==
  ASSUME Bounds, IInv, Timeout \/ Poll \/ Take \/ AnswerRequest \/ NextChunk
  PROVE  IInv'
<1> USE DEF IInv
<1>h. UNCHANGED <<heard, completion, process, overflow, workspace, entered>> /\ UNCHANGED endVars
  BY DEF Timeout, Poll, Take, AnswerRequest, NextChunk, loopVars, piVars, endVars
<1>1. Streams'
  <2>1. CASE LeaveLoop
    BY <1>h, <2>1, Leaves DEF Streams
  <2>2. CASE chunks # <<>> /\ chunks' = Tail(chunks) /\ line' = Head(chunks) /\ UNCHANGED pipe
    BY <1>h, <2>2, HeadTailProperties DEF Streams
  <2>3. CASE UNCHANGED <<pipe, chunks, line>>
    BY <1>h, <2>3 DEF Streams
  <2> QED BY <2>1, <2>2, <2>3 DEF Timeout, Poll, Take, AnswerRequest, NextChunk, piVars, loopVars
<1>2. at \in {"loop", "record", "answer"}
  BY DEF Timeout, Poll, Take, AnswerRequest, NextChunk, TimeUp
<1>3. cause = None /\ result = None /\ failureFile = None /\ ~overflow /\ first = None
  BY <1>2 DEF Failing, Ending
<1>4. \/ cause' = None /\ first' = None /\ at' \in {"record", "loop"}
      \/ cause' = None /\ first' = None /\ at' = "check" /\ Settled
      \/ cause' # None /\ cause' = first' /\ at' = "close"
  <2>1. CASE Timeout
    BY <1>3, <2>1 DEF Timeout, LeaveLoop, Raise, Bounds
  <2>2. CASE Poll
    BY <1>3, <2>2 DEF Poll, LeaveLoop, Raise, Bounds
  <2>3. CASE Take
    BY <1>3, <2>3 DEF Take, LeaveLoop, Raise, Bounds
  <2>4. CASE NextChunk
    BY <1>3, <2>4 DEF NextChunk, Settled
  <2>5. CASE AnswerRequest
    BY <1>3, <2>5 DEF AnswerRequest, LeaveLoop, Raise, Bounds
  <2> QED BY <2>1, <2>2, <2>3, <2>4, <2>5
<1>5. at = "answer" => cause' # None
  BY DEF AnswerRequest, Timeout, Poll, Take, NextChunk, TimeUp, Raise, Bounds
<1>6. Progress'
  BY <1>3, <1>4, <1>5, <1>h, Silence DEF Progress, Places
<1>7. Failing' /\ Ending' /\ Delivered'
  BY <1>2, <1>3, <1>4, <1>h DEF Failing, Ending, Filed, Delivered, endVars
<1> QED BY <1>1, <1>6, <1>7

LEMMA Judges == ASSUME Bounds, IInv, Judge PROVE IInv'
<1> USE DEF IInv
<1> DEFINE rec == Head(line)
           n == Len(heard) + 1
<1>1. rec \in Record /\ Tail(line) \in Seq(Record)
  BY HeadTailProperties DEF Judge, Streams
<1> HIDE DEF rec
<1>2. /\ at = "record" /\ heard' = Append(heard, rec)
      /\ completion' = IF rec.kind = "submit" /\ ~SubmittedTwice(rec) THEN rec.outputs ELSE completion
      /\ UNCHANGED <<process, overflow, workspace, entered>> /\ UNCHANGED endVars
  BY DEF Judge, rec, endVars
<1>3. Streams'
  <2>1. CASE LeaveLoop
    BY <1>1, <1>2, <2>1, HeardMore, Leaves
  <2>2. CASE line' = Tail(line) /\ UNCHANGED <<pipe, chunks>>
    BY <1>1, <1>2, <2>2, HeardMore DEF Streams
  <2> QED BY <2>1, <2>2 DEF Judge
<1>4. cause = None /\ result = None /\ failureFile = None /\ ~overflow /\ first = None
  BY <1>2 DEF Failing, Ending
<1>5. \/ /\ cause' # None /\ cause' = first' /\ at' = "close"
      \/ /\ cause' = None /\ first' = None /\ at' = "record"
         /\ rec.kind \notin Fatal /\ ~SubmittedTwice(rec) /\ ~TooManyTurns(rec)
      \/ cause' = None /\ first' = None /\ at' = "answer"
  <2>1. CASE \E f \in Refusals(rec) : Raise(f) /\ LeaveLoop
    <3>1. \A f \in Refusals(rec) : f # None
      BY DEF Refusals, Bounds
    <3> QED BY <1>4, <2>1, <3>1 DEF Raise, LeaveLoop
  <2>2. CASE at' = "answer" /\ UNCHANGED <<cause, first>>
    BY <1>4, <2>2
  <2>3. CASE Refusals(rec) = {} /\ UNCHANGED <<at, cause, first>>
    <3>1. rec.kind \notin Fatal /\ ~SubmittedTwice(rec) /\ ~TooManyTurns(rec)
      BY <2>3 DEF Refusals
    <3> QED BY <1>2, <1>4, <2>3, <3>1
  <2> QED BY <2>1, <2>2, <2>3 DEF Judge, rec
<1>6. completion' \in (SUBSET File) \cup {None}
  BY <1>1, <1>2 DEF Progress, Record
<1>7. ASSUME cause' = None, at' # "answer" PROVE Judged'
  <2>0. rec.kind \notin Fatal /\ ~SubmittedTwice(rec) /\ ~TooManyTurns(rec) /\ Judged
    BY <1>2, <1>4, <1>5, <1>7 DEF Progress
  <2>1. Heard(Fatal)' = {}
    BY <1>1, <1>2, <2>0, HeardMore DEF Judged
  <2>2. Count("turn")' <= MaxTurns
    <3>1. Count("turn") \in Nat /\ Count("turn") <= MaxTurns
      BY <2>0, HeardFinite DEF Judged, Count
    <3>2. Count("turn")' = IF rec.kind = "turn" THEN Count("turn") + 1 ELSE Count("turn")
      BY <1>1, <1>2, CountMore
    <3> QED BY <2>0, <3>1, <3>2 DEF TooManyTurns, Bounds
  <2>3. CASE rec.kind = "submit"
    <3>1. completion = None /\ Heard({"submit"}) = {} /\ completion' = rec.outputs
      BY <1>2, <2>0, <2>3 DEF SubmittedTwice, Judged
    <3>2. Heard({"submit"})' = {n} /\ n \in DOMAIN heard' /\ heard'[n] = rec
      BY <1>1, <1>2, <2>3, <3>1, HeardMore
    <3>3. rec.outputs \in SUBSET File
      BY <1>1 DEF Record
    <3> QED BY <2>1, <2>2, <3>1, <3>2, <3>3 DEF Judged, Bounds
  <2>4. CASE rec.kind # "submit"
    <3>1. completion' = completion /\ Heard({"submit"})' = Heard({"submit"})
      BY <1>1, <1>2, <2>4, HeardMore
    <3>2. ASSUME completion # None
          PROVE  \E i \in DOMAIN heard' : Heard({"submit"})' = {i} /\ heard'[i].outputs = completion
      <4>1. PICK i \in DOMAIN heard : Heard({"submit"}) = {i} /\ heard[i].outputs = completion
        BY <2>0, <3>2 DEF Judged
      <4>2. i \in DOMAIN heard' /\ heard'[i] = heard[i]
        BY <1>1, <1>2, HeardMore
      <4> QED BY <3>1, <4>1, <4>2
    <3> QED BY <2>0, <2>1, <2>2, <3>1, <3>2 DEF Judged
  <2> QED BY <2>3, <2>4
<1>8. Progress'
  BY <1>2, <1>4, <1>5, <1>6, <1>7 DEF Progress, Places
<1>9. Failing' /\ Ending' /\ Delivered'
  BY <1>2, <1>4, <1>5 DEF Failing, Ending, Filed, Delivered, endVars
<1> QED BY <1>3, <1>8, <1>9

\* the checks after the loop, the collection and the publication
LEMMA Concludes ==
  ASSUME Bounds, IInv, Check \/ Collect \/ Publish
  PROVE  IInv'
<1> USE DEF IInv
<1>h. /\ UNCHANGED <<heard, completion, process>>
      /\ UNCHANGED <<evidence, overflow, failureFile, workspace, entered>>
  BY DEF Check, Collect, Publish, loopVars, piVars, endVars
<1>1. Streams'
  <2>1. CASE LeaveLoop
    BY <1>h, <2>1, Leaves DEF Streams
  <2>2. CASE UNCHANGED <<pipe, chunks, line>>
    BY <1>h, <2>2 DEF Streams
  <2> QED BY <2>1, <2>2 DEF Check, Collect, Publish, loopVars, piVars
<1>2. result = None /\ failureFile = None
  BY DEF Ending, Check, Collect, Publish
<1>3. CASE Check
  <2>1. /\ cause = None /\ first = None /\ ~overflow /\ at' = "close" /\ result' = result
        /\ Settled /\ at = "check"
    BY <1>3 DEF Check, LeaveLoop, Failing, Progress, endVars
  <2>2. \/ cause' # None /\ cause' = first'
        \/ cause' = None /\ first' = None /\ Checked
    BY <1>3, <2>1 DEF Check, Raise, Bounds, Checked
  <2>3. Progress'
    BY <1>h, <2>1, <2>2, Silence DEF Progress, Places
  <2> QED BY <1>1, <1>2, <1>h, <2>1, <2>2, <2>3 DEF Failing, Ending, Filed, Delivered
<1>4. CASE Collect
  <2>1. at = "collect" /\ ~overflow /\ cause = first /\ result' = result
    BY <1>4 DEF Collect, Failing
  <2>2. \/ cause' # None /\ (cause = None => cause' = first') /\ at' = "fail"
        \/ cause' = cause /\ first' = first /\ at' = "publish"
    BY <1>4, <2>1 DEF Collect, Raise, Bounds
  <2>3. cause = None
    BY <2>1 DEF Failing
  <2>4. Progress'
    BY <1>h, <2>1, <2>2, <2>3, Silence DEF Progress, Places
  <2> QED BY <1>1, <1>2, <1>h, <2>1, <2>2, <2>3, <2>4 DEF Failing, Ending, Filed, Delivered
<1>5. CASE Publish
  <2>1. at = "publish" /\ ~overflow /\ cause = first /\ cause = None /\ Checked /\ evidence /\ Judged
        /\ completion # None /\ process # "running" /\ collected' = collected
    BY <1>5 DEF Publish, Failing, Progress, Checked, Ending
  <2>2. CASE ~Contract
    <3>1. cause' # None /\ cause' = first' /\ at' = "fail" /\ result' = None
      BY <1>2, <1>5, <2>1, <2>2 DEF Publish, Raise, Bounds
    <3>2. Progress'
      BY <1>h, <2>1, <3>1, Silence DEF Progress, Places
    <3> QED BY <1>1, <1>2, <1>h, <2>1, <3>1, <3>2 DEF Failing, Ending, Filed, Delivered
  <2>3. CASE Contract
    <3>1. cause' = None /\ cause' = first' /\ at' = "clean" /\ result' = completion
      BY <1>5, <2>1, <2>3 DEF Publish
    <3>2. Progress'
      BY <1>h, <2>1, <3>1, Silence DEF Progress, Places
    <3>3. PICK i \in DOMAIN heard : Heard({"submit"}) = {i} /\ heard[i].outputs = completion
      BY <2>1 DEF Judged
    <3>4. Count("submit") = 1
      BY <3>3, FS_Singleton DEF Count
    <3>5. /\ Count("submit") = 1 /\ \A j \in Heard({"submit"}) : heard[j].outputs = completion
          /\ Count("accept") > 0 /\ Count("settle") > 0 /\ Count("turn") <= MaxTurns
          /\ Heard(Fatal) = {}
          /\ Published \subseteq completion /\ completion \subseteq collected
          /\ evidence
      BY <2>1, <2>3, <3>3, <3>4 DEF Checked, Settled, Judged, Contract
    <3>6. Delivered'
      BY <1>h, <2>1, <3>1, <3>5, HeardSame DEF Delivered
    <3>7. entered
      BY <2>1 DEF Ending
    <3> QED BY <1>1, <1>2, <1>h, <2>1, <3>1, <3>2, <3>6, <3>7 DEF Failing, Ending, Filed
  <2> QED BY <2>2, <2>3
<1> QED BY <1>3, <1>4, <1>5

\* the process is dead, whatever was on its way
LEMMA Closes == ASSUME Bounds, IInv, Close PROVE IInv'
<1> USE DEF IInv
<1>1. /\ at = "close" /\ process' # "running" /\ ~overflow /\ cause = first
      /\ UNCHANGED <<heard, completion, collected, result, failureFile, workspace, entered>>
      /\ result = None /\ failureFile = None /\ entered
  BY DEF Close, Terminated, Failing, Ending, loopVars
<1>2. Streams'
  BY <1>1 DEF Close, Streams, loopVars
<1>3. CASE evidence' = TRUE /\ UNCHANGED <<overflow, cause, first>>
            /\ at' = IF cause = None THEN "collect"
                     ELSE IF cause = "interrupt" THEN "clean" ELSE "fail"
  <2>1. Progress'
    BY <1>1, <1>3, Silence DEF Progress, Places
  <2> QED BY <1>1, <1>2, <1>3, <2>1 DEF Failing, Ending, Filed, Delivered
<1>4. CASE overflow' = TRUE /\ at' = "fail" /\ Raise("protocol") /\ UNCHANGED evidence
  <2>1. cause' = "protocol" /\ "protocol" # None
    BY <1>4 DEF Raise, Bounds
  <2>2. Progress'
    BY <1>1, <1>4, <2>1, Silence DEF Progress, Places
  <2> QED BY <1>1, <1>2, <1>4, <2>1, <2>2 DEF Failing, Ending, Filed, Delivered
<1> QED BY <1>3, <1>4 DEF Close

LEMMA Finishes == ASSUME Bounds, IInv, Fail \/ Clean PROVE IInv'
<1> USE DEF IInv
<1>1. UNCHANGED <<heard, completion, process, pipe, line, chunks, evidence, overflow, result, entered>>
  BY DEF Fail, Clean, loopVars, piVars, endVars
<1>2. Streams'
  BY <1>1 DEF Streams
<1>3. CASE Fail
  <2>1. /\ at = "fail" /\ at' = "clean" /\ cause # None /\ result = None /\ failureFile = None /\ entered
        /\ cause = IF overflow THEN "protocol" ELSE first
        /\ process # "running"
    BY <1>3 DEF Fail, Failing, Ending
  <2>2. \/ failureFile' = cause /\ UNCHANGED <<cause, first>>
        \/ cause' = "unfiled" /\ cause' # None /\ failureFile' = None
    BY <1>3, <2>1 DEF Fail, Raise, Bounds
  <2>3. Progress'
    BY <1>1, <2>1, <2>2, Silence DEF Progress, Places
  <2>4. Filed'
    BY <1>1, <2>1, <2>2 DEF Filed
  <2> QED BY <1>1, <1>2, <2>1, <2>2, <2>3, <2>4 DEF Failing, Ending, Delivered
<1>4. CASE Clean
  <2>1. /\ at = "clean" /\ at' = "over" /\ ~workspace' /\ entered
        /\ UNCHANGED <<failureFile, collected, cause, first>>
    BY <1>4 DEF Clean, Ending, endVars
  <2>2. Progress'
    BY <1>1, <2>1, Silence DEF Progress, Places
  <2>3. Delivered'
    BY <1>1, <2>1, HeardSame DEF Delivered
  <2>4. Failing'
    BY <1>1, <2>1 DEF Failing
  <2>5. Ending'
    <3>1. process' # "running"
      BY <1>1, <2>1 DEF Ending
    <3>2. Filed'
      BY <1>1, <2>1 DEF Ending, Filed
    <3> QED BY <2>1, <3>1, <3>2 DEF Ending
  <2> QED BY <1>2, <2>2, <2>3, <2>4, <2>5
<1> QED BY <1>3, <1>4

\* an interrupt is not filed
LEMMA Interrupts == ASSUME Bounds, IInv, Interrupt PROVE IInv'
<1> USE DEF IInv
<1>1. /\ UNCHANGED <<heard, completion, process, evidence, overflow, collected, result, failureFile>>
      /\ UNCHANGED <<workspace, entered>>
      /\ result = None /\ failureFile = None /\ cause' = "interrupt" /\ cause' # None
      /\ first' = IF first = None THEN "interrupt" ELSE first
  BY DEF Interrupt, endVars, Raise, Bounds, Ending, InAdapter
<1>2. Streams'
  <2>1. CASE LeaveLoop
    BY <1>1, <2>1, Leaves DEF Streams
  <2>2. CASE UNCHANGED <<pipe, chunks, line>>
    BY <1>1, <2>2 DEF Streams
  <2> QED BY <2>1, <2>2 DEF Interrupt
<1>3. \/ /\ at \in InAdapter /\ at' = "close" /\ cause' = first' /\ ~overflow /\ entered
      \/ at = "session" /\ at' = "over" /\ ~entered /\ process # "running"
      \/ /\ at \in {"stage", "collect", "publish", "fail"} /\ at' = "clean" /\ entered
         /\ process # "running"
  BY <1>1 DEF Interrupt, LeaveLoop, Failing, Ending, InAdapter
<1>4. Progress'
  BY <1>1, <1>3, Silence DEF Progress, Places
<1>5. Failing' /\ Ending' /\ Delivered'
  BY <1>1, <1>3 DEF Failing, Ending, Filed, Delivered
<1> QED BY <1>2, <1>4, <1>5

LEMMA NextKeeps == ASSUME Bounds, IInv, [TaskNext]_taskVars PROVE IInv'
<1>1. CASE UNCHANGED taskVars
  BY <1>1, Outside DEF taskVars, endVars, IInv, Streams
<1> QED BY <1>1, Process, Begins, Loops, Judges, Concludes, Closes, Finishes,
          Interrupts DEF TaskNext, Execute

THEOREM TaskSound == ASSUME Bounds PROVE TaskSpec => []IInv
<1>1. TaskInit => IInv
  BY Inits
<1>2. IInv /\ [TaskNext]_taskVars => IInv'
  BY NextKeeps
<1> QED BY <1>1, <1>2, PTL DEF TaskSpec

\* An artifact comes of one submission only, and of nothing that refuses the
\* run, whatever the process has written and in which pieces it was read
\* (pi.py, PiRpcAdapter.run).
THEOREM ArtifactsAreDelivered == ASSUME Bounds PROVE TaskSpec => []Delivered
<1>1. IInv => Delivered
  BY DEF IInv
<1> QED BY <1>1, TaskSound, PTL

\* An execution that has begun ends with the process dead and the workspace
\* gone. There is an artifact, or the first failure is on file, unless the
\* execution was interrupted or its failure could not be written (agents.py,
\* execute_agent_task).
THEOREM TasksEndWell == ASSUME Bounds PROVE TaskSpec => []WellEnded
<1>1. IInv => WellEnded
  BY DEF IInv, Failing, Ending, Filed, WellEnded
<1> QED BY <1>1, TaskSound, PTL

-----------------------------------------------------------------------------
(* Capsule: a skill is loaded as it was at one moment.                       *)
(*                                                                           *)
(* The argument: what the loader has still to come to lies neither in        *)
(* something else that is to come nor is it, or does it have in it, a        *)
(* directory that it is in. So nothing is read twice, and of a directory     *)
(* whose stamp is what it was when the loader entered it, all files that     *)
(* have had their turn were read as they are now. When it is left like that, *)
(* what was read of it is what it holds, and nobody reads of it any more.    *)

LEMMA LeastNumber ==
  ASSUME NEW T, T \subseteq Nat, T # {}
  PROVE  \E n \in T : \A m \in T : n <= m
<1>1. \E n \in T : \A m \in T : <<m, n>> \notin OpToRel(<, Nat)
  BY NatLessThanWellFounded, WFMin
<1>2. \A x, y \in Nat : <<x, y>> \in OpToRel(<, Nat) <=> x < y
  BY SMT DEF OpToRel
<1>3. PICK n \in T : \A m \in T : <<m, n>> \notin OpToRel(<, Nat)
  BY <1>1
<1>4. ASSUME NEW m \in T PROVE n <= m
  <2>1. n \in Nat /\ m \in Nat
    OBVIOUS
  <2>2. ~(m < n)
    BY <1>2, <1>3, <2>1
  <2> QED BY <2>1, <2>2
<1> QED BY <1>3, <1>4

Names == Dir \cup CapsuleFile
FilesIn(d) == ToSet(Content[d]) \cap CapsuleFile

Closed(S) == \A d \in S \cap Dir : ToSet(Content[d]) \subseteq S

LEMMA WithinIs ==
  ASSUME NEW n
  PROVE  Within(n) = {m \in Names : \A S \in SUBSET Names : n \in S /\ Closed(S) => m \in S}
  BY DEF Within, Names, Closed

\* What lies in n is closed, and is in every set that is and has n.
LEMMA WithinFacts ==
  ASSUME NEW n \in Names
  PROVE  /\ n \in Within(n) /\ Within(n) \subseteq Names
         /\ Closed(Within(n))
         /\ \A S \in SUBSET Names : n \in S /\ Closed(S) => Within(n) \subseteq S
<1>1. \A d \in Dir : ToSet(Content[d]) \subseteq Names
  <2> SUFFICES ASSUME NEW d \in Dir PROVE ToSet(Content[d]) \subseteq Names
    OBVIOUS
  <2>1. Content[d] \in Seq(Names)
    BY CapsuleAssumption DEF Names
  <2> QED BY <2>1, ElementOfSeq, LenProperties DEF ToSet
<1>2. Closed(Within(n))
  <2> SUFFICES ASSUME NEW d \in Within(n) \cap Dir, NEW m \in ToSet(Content[d]),
                      NEW S \in SUBSET Names, n \in S, Closed(S)
               PROVE  m \in S /\ m \in Names
    BY <1>1, WithinIs DEF Closed
  <2>1. d \in S
    BY WithinIs
  <2> QED BY <1>1, <2>1 DEF Closed
<1> QED BY <1>2, WithinIs

LEMMA ContentNamed ==
  ASSUME NEW d \in Dir
  PROVE  ToSet(Content[d]) \subseteq Names
<1>1. Content[d] \in Seq(Names)
  BY CapsuleAssumption DEF Names
<1> QED BY <1>1, ElementOfSeq, LenProperties DEF ToSet

\* What is in n, and not n, is the content of a directory in n.
LEMMA HasParent ==
  ASSUME NEW n \in Names, NEW m \in Within(n), m # n
  PROVE  \E d \in Within(n) \cap Dir : m \in ToSet(Content[d])
<1> DEFINE S == {x \in Within(n) : x = n \/ \E d \in Within(n) \cap Dir : x \in ToSet(Content[d])}
<1>1. S \in SUBSET Names /\ n \in S
  BY WithinFacts
<1>2. Closed(S)
  BY WithinFacts DEF Closed
<1>3. Within(n) \subseteq S
  BY <1>1, <1>2, WithinFacts
<1> QED BY <1>3

\* what is in something that is in n
LEMMA WithinDeeper ==
  ASSUME NEW n \in Names, NEW m \in Within(n)
  PROVE  m \in Names /\ Within(m) \subseteq Within(n)
  BY WithinFacts

LEMMA FileAlone ==
  ASSUME NEW f \in CapsuleFile
  PROVE  Within(f) = {f}
<1>1. f \in Names /\ f \notin Dir
  BY CapsuleAssumption DEF Names
<1>2. {f} \in SUBSET Names /\ Closed({f})
  BY <1>1 DEF Closed
<1> QED BY <1>1, <1>2, WithinFacts

\* a directory, and what is in its content
LEMMA WithinDirectory ==
  ASSUME NEW d \in Dir
  PROVE  /\ d \in Names
         /\ Within(d) = {d} \cup UNION {Within(n) : n \in ToSet(Content[d])}
<1>1. d \in Names
  BY DEF Names
<1> DEFINE S == {d} \cup UNION {Within(n) : n \in ToSet(Content[d])}
<1>2. ToSet(Content[d]) \subseteq Within(d) /\ d \in Within(d)
  BY <1>1, WithinFacts DEF Closed
<1>3. S \subseteq Within(d)
  BY <1>1, <1>2, WithinDeeper
<1>4. \A n \in ToSet(Content[d]) : n \in Within(n) /\ Closed(Within(n)) /\ n \in Names
  BY ContentNamed, WithinFacts
<1>5. Closed(S)
  BY <1>4 DEF Closed
<1>6. S \in SUBSET Names /\ d \in S
  BY <1>1, <1>3, WithinFacts
<1>7. Within(d) \subseteq S
  BY <1>1, <1>5, <1>6, WithinFacts
<1> QED BY <1>1, <1>3, <1>7

-----------------------------------------------------------------------------
(* What is still to come, of a walk w and the resources from the k-th on.    *)

Coming(frame) == IF frame.names = Missing THEN ToSet(Content[frame.dir]) ELSE frame.names

FromStack(w) == UNION {Coming(w[i]) : i \in DOMAIN w}
FromResources(k) == {Resources[j] : j \in k..Len(Resources)}

ToCome(w, k) == FromStack(w) \cup FromResources(k)

Pending(w, k) == {m \in Names : \E n \in ToCome(w, k) : m \in Within(n)}

Frame == [dir : Dir, before : Nat, names : (SUBSET Names) \cup {Missing}]

\* Nothing that is to come, and no directory on the way, lies in another thing
\* that is to come.
Apart(T, D) ==
  /\ T \subseteq Names /\ D \subseteq Dir
  /\ \A n \in T : /\ \A m \in T : m \in Within(n) => m = n
                  /\ \A d \in D : d \notin Within(n)

LEMMA ApartLess ==
  ASSUME NEW T, NEW D, Apart(T, D), NEW U, NEW E, U \subseteq T, E \subseteq D
  PROVE  Apart(U, E)
  BY DEF Apart

\* It stays so when a directory is entered.
LEMMA ApartInto ==
  ASSUME NEW T, NEW D, Apart(T, D), NEW n \in T, n \in Dir
  PROVE  Apart((T \ {n}) \cup ToSet(Content[n]), D \cup {n})
<1> DEFINE C == ToSet(Content[n])
           U == (T \ {n}) \cup C
<1>1. n \in Names /\ C \subseteq Within(n) /\ C \subseteq Names /\ T \subseteq Names
  BY WithinFacts, ContentNamed DEF Apart, Names, Closed
<1>2. \A c \in C : Within(c) \subseteq Within(n) /\ n \notin Within(c)
  BY <1>1, WithinDeeper, CapsuleAssumption
\* whose content has a child is its directory
<1>3. ASSUME NEW x \in Names, NEW c \in C, c \in Within(x), c # x PROVE n \in Within(x)
  <2>1. PICK d \in Within(x) \cap Dir : c \in ToSet(Content[d])
    BY <1>3, HasParent
  <2>2. d = n
    BY <2>1, CapsuleAssumption
  <2> QED BY <2>1, <2>2
<1>4. ASSUME NEW x \in U, NEW m \in U, m \in Within(x) PROVE m = x
  <2>1. CASE x \in T \ {n} /\ m \in T \ {n}
    BY <1>4, <2>1 DEF Apart
  <2>2. CASE x \in C /\ m \in T \ {n}
    <3>1. m \in Within(n)
      BY <1>2, <1>4, <2>2
    <3> QED BY <2>2, <3>1 DEF Apart
  <2>3. CASE x \in T \ {n} /\ m \in C
    <3>1. ASSUME m # x PROVE FALSE
      <4>1. n \in Within(x)
        BY <1>1, <1>3, <1>4, <2>3, <3>1
      <4> QED BY <2>3, <4>1 DEF Apart
    <3> QED BY <3>1
  <2>4. CASE x \in C /\ m \in C
    <3>1. ASSUME m # x PROVE FALSE
      <4>1. n \in Within(x)
        BY <1>1, <1>3, <1>4, <2>4, <3>1
      <4> QED BY <1>2, <2>4, <4>1
    <3> QED BY <3>1
  <2> QED BY <2>1, <2>2, <2>3, <2>4
<1>5. ASSUME NEW x \in U, NEW d \in D \cup {n} PROVE d \notin Within(x)
  <2>1. CASE x \in C
    <3>1. n \notin Within(x)
      BY <1>2, <2>1
    <3>2. d \in D => d \notin Within(n)
      BY DEF Apart
    <3> QED BY <1>2, <2>1, <3>1, <3>2
  <2>2. CASE x \in T \ {n}
    BY <2>2 DEF Apart
  <2> QED BY <2>1, <2>2
<1>6. U \subseteq Names /\ D \cup {n} \subseteq Dir
  BY <1>1 DEF Apart
<1> QED BY <1>4, <1>5, <1>6 DEF Apart

-----------------------------------------------------------------------------
(* The stack of directories on the way.                                      *)

\* the head of a stack is changed, or another directory put upon it
LEMMA Stacks ==
  ASSUME NEW F, NEW w \in Seq(F)
  PROVE  /\ Len(w) \in Nat /\ DOMAIN w = 1..Len(w) /\ \A i \in DOMAIN w : w[i] \in F
         /\ w = <<>> <=> Len(w) = 0
         /\ w # <<>> =>
              /\ Head(w) = w[1] /\ 1 \in DOMAIN w
              /\ Tail(w) \in Seq(F) /\ DOMAIN Tail(w) = 1..(Len(w) - 1)
              /\ \A i \in 1..(Len(w) - 1) : Tail(w)[i] = w[i + 1]
         /\ \A x \in F :
              /\ <<x>> \o w \in Seq(F) /\ DOMAIN (<<x>> \o w) = 1..(Len(w) + 1)
              /\ (<<x>> \o w)[1] = x
              /\ \A i \in 1..Len(w) : (<<x>> \o w)[i + 1] = w[i]
<1>1. /\ Len(w) \in Nat /\ DOMAIN w = 1..Len(w) /\ \A i \in DOMAIN w : w[i] \in F
      /\ w = <<>> <=> Len(w) = 0
  BY LenProperties, ElementOfSeq, EmptySeq
<1>2. ASSUME w # <<>>
      PROVE  /\ Head(w) = w[1] /\ 1 \in DOMAIN w
             /\ Tail(w) \in Seq(F) /\ DOMAIN Tail(w) = 1..(Len(w) - 1)
             /\ \A i \in 1..(Len(w) - 1) : Tail(w)[i] = w[i + 1]
  <2>1. Tail(w) \in Seq(F) /\ Len(Tail(w)) = Len(w) - 1
        /\ \A i \in 1..Len(Tail(w)) : Tail(w)[i] = w[i + 1]
    BY <1>1, <1>2, HeadTailProperties
  <2>2. Head(w) = w[1] /\ 1 \in DOMAIN w
    BY <1>1, <1>2
  <2> QED BY <2>1, <2>2, LenProperties
<1>3. ASSUME NEW x \in F
      PROVE  /\ <<x>> \o w \in Seq(F) /\ DOMAIN (<<x>> \o w) = 1..(Len(w) + 1)
             /\ (<<x>> \o w)[1] = x
             /\ \A i \in 1..Len(w) : (<<x>> \o w)[i + 1] = w[i]
  BY <1>1
<1> QED BY <1>1, <1>2, <1>3

Dirs(w) == {w[i].dir : i \in DOMAIN w}

\* w, with other names for the head
Renamed(w, S) == <<[Head(w) EXCEPT !.names = S]>> \o Tail(w)

\* w, when n has been entered
Into(n, b, w) == <<[dir |-> n, before |-> b, names |-> Missing]>> \o w

Behind(w) == Tail(w)

OnTheWay(w, k) ==
  /\ w \in Seq(Frame) /\ k \in 1..(Len(Resources) + 1)
  /\ \A i \in DOMAIN w : w[i].names # Missing => w[i].names \subseteq ToSet(Content[w[i].dir])
  /\ \A i, j \in DOMAIN w : w[i].dir = w[j].dir => i = j
  /\ w # <<>> => k > 1 /\ Dirs(w) \subseteq Within(Resources[k-1])
  /\ Apart(ToCome(w, k), Dirs(w))

LEMMA ResourcesAre ==
  /\ Len(Resources) \in Nat /\ DOMAIN Resources = 1..Len(Resources)
  /\ \A j \in 1..Len(Resources) : Resources[j] \in Names /\ Resources[j] \in Within(Resources[j])
  /\ \A i, j \in 1..Len(Resources) : Within(Resources[i]) \cap Within(Resources[j]) # {} => i = j
<1>1. /\ Len(Resources) \in Nat /\ DOMAIN Resources = 1..Len(Resources)
      /\ \A j \in 1..Len(Resources) : Resources[j] \in Names
  BY CapsuleAssumption, LenProperties, ElementOfSeq DEF Names
<1> QED BY <1>1, CapsuleAssumption, WithinFacts

\* What comes from the head comes from nowhere else.
LEMMA Sole ==
  ASSUME NEW w, NEW k, OnTheWay(w, k), w # <<>>, NEW n \in Coming(w[1])
  PROVE  /\ n \in ToSet(Content[w[1].dir]) /\ n \in Within(Resources[k-1])
         /\ \A i \in DOMAIN w \ {1} : n \notin Coming(w[i])
         /\ \A j \in k..Len(Resources) : n # Resources[j]
<1>1. 1 \in DOMAIN w /\ \A i \in DOMAIN w : w[i] \in Frame /\ w[i].dir \in Dir
  <2>1. w \in Seq(Frame)
    BY DEF OnTheWay
  <2>2. 1 \in DOMAIN w /\ \A i \in DOMAIN w : w[i] \in Frame
    BY <2>1, Stacks
  <2> QED BY <2>2 DEF Frame
<1>2. \A i \in DOMAIN w : Coming(w[i]) \subseteq ToSet(Content[w[i].dir])
  BY DEF OnTheWay, Coming
<1>3. ASSUME NEW i \in DOMAIN w \ {1}, n \in Coming(w[i]) PROVE FALSE
  <2>1. w[i].dir = w[1].dir
    BY <1>1, <1>2, <1>3, CapsuleAssumption
  <2> QED BY <1>1, <1>3, <2>1 DEF OnTheWay
<1>4. k - 1 \in 1..Len(Resources) /\ k - 1 < k /\ Resources[k-1] \in Names
  BY ResourcesAre DEF OnTheWay
<1>5. n \in Within(Resources[k-1])
  <2>1. w[1].dir \in Within(Resources[k-1])
    BY <1>1 DEF OnTheWay, Dirs
  <2> QED BY <1>1, <1>2, <1>4, <2>1, WithinFacts DEF Closed
<1>6. ASSUME NEW j \in k..Len(Resources), n = Resources[j] PROVE FALSE
  <2>1. j \in 1..Len(Resources) /\ j # k - 1
    BY <1>4, ResourcesAre DEF OnTheWay
  <2>2. n \in Within(Resources[j])
    BY <1>6, <2>1, ResourcesAre
  <2> QED BY <1>4, <1>5, <2>1, <2>2, ResourcesAre
<1> QED BY <1>1, <1>2, <1>3, <1>5, <1>6

\* The head has fewer names.
LEMMA Fewer ==
  ASSUME NEW w, NEW k, OnTheWay(w, k), w # <<>>, NEW S \in SUBSET Coming(w[1]),
         NEW v, v = Renamed(w, S)
  PROVE  /\ OnTheWay(v, k) /\ v # <<>> /\ Dirs(v) = Dirs(w) /\ DOMAIN v = DOMAIN w
         /\ v[1] = [dir |-> w[1].dir, before |-> w[1].before, names |-> S]
         /\ \A i \in DOMAIN w \ {1} : v[i] = w[i]
         /\ ToCome(v, k) = (ToCome(w, k) \ Coming(w[1])) \cup S
<1> DEFINE x == [Head(w) EXCEPT !.names = S]
<1>0. v = <<x>> \o Tail(w)
  BY DEF Renamed
<1>1. /\ w \in Seq(Frame) /\ Head(w) = w[1] /\ 1 \in DOMAIN w /\ Len(w) \in Nat
      /\ DOMAIN w = 1..Len(w) /\ w[1] \in Frame
      /\ Tail(w) \in Seq(Frame) /\ DOMAIN Tail(w) = 1..(Len(w) - 1) /\ Len(Tail(w)) = Len(w) - 1
      /\ \A i \in 1..(Len(w) - 1) : Tail(w)[i] = w[i + 1]
  BY Stacks, LenProperties DEF OnTheWay
<1>2. S \subseteq ToSet(Content[w[1].dir]) /\ S \subseteq Names
  BY <1>1, Sole, ContentNamed DEF Frame
<1>3. x = [dir |-> w[1].dir, before |-> w[1].before, names |-> S] /\ x \in Frame
  BY <1>1, <1>2 DEF Frame
<1> HIDE DEF x
<1>4. v \in Seq(Frame) /\ DOMAIN v = DOMAIN w /\ v[1] = x
      /\ \A i \in 1..(Len(w) - 1) : v[i + 1] = w[i + 1]
  BY <1>0, <1>1, <1>3, Stacks
<1>5. \A i \in DOMAIN w \ {1} : v[i] = w[i]
  <2> SUFFICES ASSUME NEW i \in DOMAIN w \ {1} PROVE v[i] = w[i]
    OBVIOUS
  <2>1. i - 1 \in 1..(Len(w) - 1) /\ i = (i - 1) + 1
    BY <1>1
  <2> QED BY <1>4, <2>1
<1>6. v # <<>>
  BY <1>1, <1>4
<1>7. \A i \in DOMAIN w : v[i].dir = w[i].dir
  BY <1>1, <1>3, <1>4, <1>5
<1>8. Dirs(v) = Dirs(w)
  BY <1>4, <1>7 DEF Dirs
<1>9. S # Missing /\ Coming(v[1]) = S
  BY <1>2, <1>3, <1>4, CapsuleAssumption DEF Coming, Names
<1>10. ToCome(v, k) = (ToCome(w, k) \ Coming(w[1])) \cup S
  <2>1. \A i \in DOMAIN w \ {1} : Coming(v[i]) = Coming(w[i])
    BY <1>5
  <2>2. \A n \in Coming(w[1]) : /\ \A i \in DOMAIN w \ {1} : n \notin Coming(w[i])
                                /\ \A j \in k..Len(Resources) : n # Resources[j]
    BY Sole
  <2> DEFINE A == UNION {Coming(w[i]) : i \in DOMAIN w \ {1}}
             E == UNION {Coming(v[i]) : i \in DOMAIN w \ {1}}
             B == FromResources(k)
  <2>3. A \cap Coming(w[1]) = {}
    BY <2>2
  <2>4. B \cap Coming(w[1]) = {}
    BY <2>2 DEF FromResources
  <2>5. ToCome(w, k) = (Coming(w[1]) \cup A) \cup B
    <3>1. FromStack(w) = Coming(w[1]) \cup A
      BY <1>1, Zenon DEF FromStack
    <3> QED BY <3>1 DEF ToCome
  <2>6. ToCome(v, k) = (Coming(v[1]) \cup E) \cup B
    <3>1. FromStack(v) = Coming(v[1]) \cup E
      BY <1>1, <1>4, Zenon DEF FromStack
    <3> QED BY <3>1 DEF ToCome
  <2>7. E = A
    BY <2>1
  <2> HIDE DEF A, B, E
  <2> QED BY <1>9, <2>3, <2>4, <2>5, <2>6, <2>7
<1>11. Apart(ToCome(v, k), Dirs(v))
  <2>1. Coming(w[1]) \subseteq ToCome(w, k)
    BY <1>1 DEF ToCome, FromStack
  <2>2. ToCome(v, k) \subseteq ToCome(w, k)
    BY <1>10, <2>1
  <2> QED BY <1>8, <2>2, ApartLess DEF OnTheWay
<1>12. \A i \in DOMAIN v : v[i].names # Missing => v[i].names \subseteq ToSet(Content[v[i].dir])
  BY <1>2, <1>3, <1>4, <1>5 DEF OnTheWay
<1>13. OnTheWay(v, k)
  BY <1>4, <1>6, <1>7, <1>8, <1>11, <1>12 DEF OnTheWay
<1> QED BY <1>3, <1>4, <1>5, <1>6, <1>8, <1>10, <1>13 DEF x

\* The head is done.
LEMMA Popped ==
  ASSUME NEW w, NEW k, OnTheWay(w, k), w # <<>>, Coming(w[1]) = {}, NEW v, v = Behind(w)
  PROVE  /\ OnTheWay(v, k) /\ ToCome(v, k) = ToCome(w, k)
         /\ Dirs(w) \subseteq Dirs(v) \cup {w[1].dir}
         /\ \A i \in DOMAIN v : i + 1 \in DOMAIN w /\ v[i] = w[i + 1]
<1>1. /\ w \in Seq(Frame) /\ 1 \in DOMAIN w /\ Len(w) \in Nat /\ DOMAIN w = 1..Len(w)
      /\ v \in Seq(Frame) /\ DOMAIN v = 1..(Len(w) - 1)
      /\ \A i \in 1..(Len(w) - 1) : v[i] = w[i + 1]
  BY Stacks DEF OnTheWay, Behind
<1>2. \A i \in DOMAIN v : i + 1 \in DOMAIN w /\ v[i] = w[i + 1]
  BY <1>1
<1>3. \A i \in DOMAIN w \ {1} : i - 1 \in DOMAIN v /\ v[i - 1] = w[i]
  BY <1>1
<1>4. ToCome(v, k) = ToCome(w, k)
  <2>1. FromStack(w) = FromStack(v)
    BY <1>1, <1>2, <1>3 DEF FromStack
  <2> QED BY <2>1 DEF ToCome
<1>5. Dirs(w) \subseteq Dirs(v) \cup {w[1].dir} /\ Dirs(v) \subseteq Dirs(w)
  BY <1>2, <1>3 DEF Dirs
<1>6. Apart(ToCome(v, k), Dirs(v))
  BY <1>4, <1>5, ApartLess DEF OnTheWay
<1>7. \A i, j \in DOMAIN v : v[i].dir = v[j].dir => i = j
  <2> SUFFICES ASSUME NEW i \in DOMAIN v, NEW j \in DOMAIN v, v[i].dir = v[j].dir PROVE i = j
    OBVIOUS
  <2>1. i + 1 \in DOMAIN w /\ j + 1 \in DOMAIN w /\ w[i + 1].dir = w[j + 1].dir
    BY <1>2
  <2>2. i + 1 = j + 1
    BY <2>1 DEF OnTheWay
  <2> QED BY <1>1, <2>2
<1>8. OnTheWay(v, k)
  BY <1>1, <1>2, <1>5, <1>6, <1>7 DEF OnTheWay
<1> QED BY <1>2, <1>4, <1>5, <1>8

\* From u the directory n is entered, which was b before, and that is v.
Deeper(v, u, k, n, b) ==
  /\ OnTheWay(v, k) /\ v # <<>> /\ Dirs(v) = Dirs(u) \cup {n}
  /\ 1 \in DOMAIN v /\ v[1] = [dir |-> n, before |-> b, names |-> Missing]
  /\ \A i \in DOMAIN v \ {1} : i - 1 \in DOMAIN u /\ v[i] = u[i - 1]
  /\ ToCome(v, k) = ToCome(u, k) \cup ToSet(Content[n])

\* Another directory is entered.
LEMMA Pushed ==
  ASSUME NEW u, NEW k, OnTheWay(u, k), NEW n \in Dir, n \notin ToCome(u, k),
         Apart(ToCome(u, k) \cup {n}, Dirs(u)), k > 1, n \in Within(Resources[k-1]),
         NEW b \in Nat, NEW v, v = Into(n, b, u)
  PROVE  Deeper(v, u, k, n, b)
<1> DEFINE x == [dir |-> n, before |-> b, names |-> Missing]
<1>0. v = <<x>> \o u
  BY DEF Into
<1>1. u \in Seq(Frame) /\ k \in 1..(Len(Resources) + 1)
  BY DEF OnTheWay
<1>2. x \in Frame
  BY DEF Frame
<1>3. Len(u) \in Nat /\ DOMAIN u = 1..Len(u)
  BY <1>1, Stacks
<1> HIDE DEF x
<1>4. /\ v \in Seq(Frame) /\ DOMAIN v = 1..(Len(u) + 1) /\ v[1] = x
      /\ \A i \in 1..Len(u) : v[i + 1] = u[i]
  BY <1>0, <1>1, <1>2, Stacks
<1>5. 1 \in DOMAIN v /\ v # <<>>
  BY <1>3, <1>4
<1>6. \A i \in DOMAIN v \ {1} : i - 1 \in DOMAIN u /\ v[i] = u[i - 1]
  <2> SUFFICES ASSUME NEW i \in DOMAIN v \ {1} PROVE i - 1 \in DOMAIN u /\ v[i] = u[i - 1]
    OBVIOUS
  <2>1. i - 1 \in 1..Len(u) /\ i = (i - 1) + 1
    BY <1>3, <1>4
  <2> QED BY <1>3, <1>4, <2>1
<1>7. \A i \in DOMAIN u : i + 1 \in DOMAIN v \ {1} /\ v[i + 1] = u[i]
  BY <1>3, <1>4
<1>8. x.dir = n /\ x.names = Missing /\ Coming(x) = ToSet(Content[n])
  BY DEF x, Coming
<1>9. Dirs(v) = Dirs(u) \cup {n}
  <2>1. \A i \in DOMAIN v : v[i].dir \in Dirs(u) \cup {n}
    <3> SUFFICES ASSUME NEW i \in DOMAIN v, i # 1 PROVE v[i].dir \in Dirs(u)
      BY <1>4, <1>8
    <3> QED BY <1>6 DEF Dirs
  <2>2. \A d \in Dirs(u) \cup {n} : \E i \in DOMAIN v : v[i].dir = d
    <3> SUFFICES ASSUME NEW d \in Dirs(u) PROVE \E i \in DOMAIN v : v[i].dir = d
      BY <1>4, <1>5, <1>8
    <3>1. PICK i \in DOMAIN u : u[i].dir = d
      BY DEF Dirs
    <3> QED BY <1>7, <3>1
  <2>3. Dirs(v) = {v[i].dir : i \in DOMAIN v}
    BY DEF Dirs
  <2> QED BY <2>1, <2>2, <2>3
<1>10. FromStack(v) = FromStack(u) \cup ToSet(Content[n])
  <2>1. \A m : m \in FromStack(v) <=> \E i \in DOMAIN v : m \in Coming(v[i])
    BY DEF FromStack
  <2>2. \A m : m \in FromStack(u) <=> \E i \in DOMAIN u : m \in Coming(u[i])
    BY DEF FromStack
  <2>3. \A m \in FromStack(v) : m \in FromStack(u) \cup ToSet(Content[n])
    <3> SUFFICES ASSUME NEW m, NEW i \in DOMAIN v, m \in Coming(v[i])
                 PROVE  m \in FromStack(u) \cup ToSet(Content[n])
      BY <2>1
    <3> QED BY <1>4, <1>6, <1>8, <2>2
  <2>4. \A m \in FromStack(u) \cup ToSet(Content[n]) : m \in FromStack(v)
    <3>1. \A m \in FromStack(u) : m \in FromStack(v)
      BY <1>7, <2>1, <2>2
    <3>2. \A m \in ToSet(Content[n]) : m \in FromStack(v)
      BY <1>4, <1>5, <1>8, <2>1
    <3> QED BY <3>1, <3>2
  <2> QED BY <2>3, <2>4
<1>11. ToCome(v, k) = ToCome(u, k) \cup ToSet(Content[n])
  BY <1>10 DEF ToCome
<1>12. Apart(ToCome(v, k), Dirs(v))
  <2>1. (ToCome(u, k) \cup {n}) \ {n} = ToCome(u, k)
    OBVIOUS
  <2>2. n \in ToCome(u, k) \cup {n}
    OBVIOUS
  <2>3. Apart(((ToCome(u, k) \cup {n}) \ {n}) \cup ToSet(Content[n]), Dirs(u) \cup {n})
    BY <2>2, ApartInto
  <2> QED BY <1>9, <1>11, <2>1, <2>3
<1>13. n \notin Dirs(u)
  <2>1. \A d \in Dirs(u) : d \notin Within(n)
    BY DEF Apart
  <2>2. n \in Within(n)
    BY WithinFacts DEF Names
  <2> QED BY <2>1, <2>2
<1>14. \A i, j \in DOMAIN v : v[i].dir = v[j].dir => i = j
  <2> SUFFICES ASSUME NEW i \in DOMAIN v, NEW j \in DOMAIN v, v[i].dir = v[j].dir PROVE i = j
    OBVIOUS
  <2>1. \A a \in DOMAIN v \ {1} : v[a].dir # n
    BY <1>6, <1>13 DEF Dirs
  <2>2. CASE i = 1 \/ j = 1
    BY <1>4, <1>8, <2>1, <2>2
  <2>3. CASE i # 1 /\ j # 1
    <3>1. /\ i - 1 \in DOMAIN u /\ j - 1 \in DOMAIN u
          /\ u[i - 1].dir = u[j - 1].dir
      BY <1>6, <2>3
    <3>2. i - 1 = j - 1
      BY <3>1 DEF OnTheWay
    <3> QED BY <1>4, <3>2
  <2> QED BY <2>2, <2>3
<1>15. \A i \in DOMAIN v : v[i].names # Missing => v[i].names \subseteq ToSet(Content[v[i].dir])
  <2> SUFFICES ASSUME NEW i \in DOMAIN v, v[i].names # Missing
               PROVE  v[i].names \subseteq ToSet(Content[v[i].dir])
    OBVIOUS
  <2>1. i # 1
    BY <1>4, <1>8
  <2> QED BY <1>6, <2>1 DEF OnTheWay
<1>16. Dirs(v) \subseteq Within(Resources[k-1])
  <2>1. u # <<>> => Dirs(u) \subseteq Within(Resources[k-1])
    BY DEF OnTheWay
  <2>2. u = <<>> => Dirs(u) = {}
    BY DEF Dirs
  <2> QED BY <1>9, <2>1, <2>2
<1>17. OnTheWay(v, k)
  BY <1>1, <1>4, <1>12, <1>14, <1>15, <1>16 DEF OnTheWay
<1> QED BY <1>4, <1>5, <1>6, <1>9, <1>11, <1>17 DEF x, Deeper

\* Of the resources one is the next.
LEMMA NextResource ==
  ASSUME NEW k \in 1..Len(Resources), OnTheWay(<<>>, k)
  PROVE  /\ ToCome(<<>>, k) = FromResources(k)
         /\ FromResources(k) = FromResources(k+1) \cup {Resources[k]}
         /\ Resources[k] \notin FromResources(k+1)
         /\ OnTheWay(<<>>, k+1) /\ ToCome(<<>>, k+1) = FromResources(k+1)
         /\ Dirs(<<>>) = {}
<1>1. Len(Resources) \in Nat
  BY ResourcesAre
<1>2. \A j : ToCome(<<>>, j) = FromResources(j)
  BY DEF ToCome, FromStack
<1>3. FromResources(k) = FromResources(k+1) \cup {Resources[k]}
  <2>1. k..Len(Resources) = ((k+1)..Len(Resources)) \cup {k}
    BY <1>1
  <2> QED BY <2>1 DEF FromResources
<1>4. Resources[k] \notin FromResources(k+1)
  <2> SUFFICES ASSUME NEW j \in (k+1)..Len(Resources), Resources[j] = Resources[k] PROVE FALSE
    BY DEF FromResources
  <2>1. j \in 1..Len(Resources) /\ j # k
    BY <1>1
  <2> QED BY <2>1, ResourcesAre
<1>5. Dirs(<<>>) = {}
  BY DEF Dirs
<1>6. Apart(FromResources(k+1), Dirs(<<>>))
  <2>1. Apart(ToCome(<<>>, k), Dirs(<<>>))
    BY DEF OnTheWay
  <2> QED BY <1>2, <1>3, <2>1, ApartLess
<1>7. OnTheWay(<<>>, k+1)
  BY <1>1, <1>2, <1>6 DEF OnTheWay
<1> QED BY <1>2, <1>3, <1>4, <1>5, <1>7

-----------------------------------------------------------------------------
(* What was read of the directories: w and k are where the loader is, got    *)
(* what it has read; t, st and h are tree, stamp and held.                   *)

\* of a frame whose directory has not moved all that has its turn behind it is
\* what it is in the tree
Kept(frame, got, t, st, ow) ==
  /\ frame.before <= st[frame.dir]
  /\ frame.names # Missing /\ ~ow /\ frame.before = st[frame.dir]
       => \A f \in FilesIn(frame.dir) \ frame.names : got[f] = t[f]

Walked(w, k, got, t, st, h, ow) ==
  /\ OnTheWay(w, k)
  /\ \A f \in CapsuleFile \cap Pending(w, k) : got[f] = Missing
  /\ \A i \in DOMAIN w : Kept(w[i], got, t, st, ow)
  /\ \A d \in Skill \ (Pending(w, k) \cup Dirs(w)) : ~ow => Listing(d, got) \in h[d]

LEMMA Frames ==
  ASSUME NEW w, NEW k, OnTheWay(w, k), NEW i \in DOMAIN w
  PROVE  /\ w[i] \in Frame /\ w[i].dir \in Dir /\ w[i].before \in Nat /\ w[i].dir \in Dirs(w)
         /\ w[i].names # Missing => w[i].names \in SUBSET Names
         /\ Coming(w[i]) \subseteq ToCome(w, k) /\ ToCome(w, k) \subseteq Names
<1>1. w \in Seq(Frame)
  BY DEF OnTheWay
<1>2. w[i] \in Frame
  BY <1>1, Stacks
<1> QED BY <1>2 DEF Frame, Dirs, ToCome, FromStack, OnTheWay, Apart

LEMMA SkillsAre ==
  /\ Skill \subseteq Dir
  /\ \A d \in Skill : \E i \in 1..Len(Resources) : d \in Within(Resources[i])
BY CapsuleAssumption, ResourcesAre

LEMMA FilesInFacts ==
  /\ \A d \in Dir : \A f \in FilesIn(d) : f \in CapsuleFile /\ f \notin Dir /\ f \in Names
  /\ \A d, e \in Dir : \A f \in FilesIn(d) \cap FilesIn(e) : d = e
BY CapsuleAssumption DEF FilesIn, Names

LEMMA ListingsAlike ==
  ASSUME NEW d, NEW t, NEW u, \A f \in FilesIn(d) : t[f] = u[f]
  PROVE  Listing(d, t) = Listing(d, u)
BY DEF Listing, FilesIn

\* An edit of f is told by the stamp, or was made in place.
Told(f, st, su, ow, ou) ==
  \/ su = [st EXCEPT ![Home(f)] = @ + 1] /\ ou = ow
  \/ su = st /\ ou

\* The tree is edited.
LEMMA Edited ==
  ASSUME NEW w, NEW k, NEW got, NEW t, NEW st \in [Dir -> Nat], NEW h, NEW ow \in BOOLEAN,
         Walked(w, k, got, t, st, h, ow),
         NEW f \in CapsuleFile, NEW u, \A g \in CapsuleFile \ {f} : u[g] = t[g],
         NEW su, NEW hu, \A d \in Dir : h[d] \subseteq hu[d], NEW ou \in BOOLEAN,
         Told(f, st, su, ow, ou)
  PROVE  Walked(w, k, got, u, su, hu, ou)
<1>1. OnTheWay(w, k)
  BY DEF Walked
<1>2. \A d \in Dir : st[d] \in Nat /\ su[d] \in Nat /\ st[d] <= su[d]
  BY DEF Told
<1>3. ~ou => ~ow /\ \A d \in Dir : f \in FilesIn(d) => su[d] # st[d]
  <2> SUFFICES ASSUME ~ou, NEW d \in Dir, f \in FilesIn(d) PROVE su[d] # st[d]
    BY DEF Told
  <2>1. f \in ToSet(Content[d])
    BY DEF FilesIn
  <2>2. Home(f) = d
    BY <2>1, CapsuleAssumption DEF Home
  <2> QED BY <2>2 DEF Told
<1>4. ASSUME NEW i \in DOMAIN w PROVE Kept(w[i], got, u, su, ou)
  <2>1. w[i].dir \in Dir /\ w[i].before \in Nat
    BY <1>1, Frames
  <2>2. Kept(w[i], got, t, st, ow)
    BY DEF Walked
  <2>3. w[i].before <= su[w[i].dir]
    BY <1>2, <2>1, <2>2 DEF Kept
  <2>4. ASSUME w[i].names # Missing, ~ou, w[i].before = su[w[i].dir],
               NEW g \in FilesIn(w[i].dir) \ w[i].names
        PROVE  got[g] = u[g]
    <3>1. w[i].before = st[w[i].dir] /\ su[w[i].dir] = st[w[i].dir]
      BY <1>2, <2>1, <2>2, <2>4 DEF Kept
    <3>2. g # f
      BY <1>3, <2>1, <2>4, <3>1
    <3>3. got[g] = t[g]
      BY <1>3, <2>2, <2>4, <3>1 DEF Kept
    <3> QED BY <2>1, <3>2, <3>3, FilesInFacts
  <2> QED BY <2>3, <2>4 DEF Kept
<1>5. \A d \in Skill \ (Pending(w, k) \cup Dirs(w)) : ~ou => Listing(d, got) \in hu[d]
  <2> SUFFICES ASSUME NEW d \in Skill \ (Pending(w, k) \cup Dirs(w)), ~ou
               PROVE  Listing(d, got) \in hu[d]
    OBVIOUS
  <2>1. d \in Dir /\ Listing(d, got) \in h[d]
    BY <1>3, SkillsAre DEF Walked
  <2> QED BY <2>1
<1> QED BY <1>1, <1>4, <1>5 DEF Walked

\* The names of the head are listed.
LEMMA Listed ==
  ASSUME NEW w, NEW k, NEW got, NEW t, NEW st, NEW h, NEW ow,
         Walked(w, k, got, t, st, h, ow), w # <<>>, w[1].names = Missing,
         NEW S \in SUBSET ToSet(Content[w[1].dir]),
         \A n \in ToSet(Content[w[1].dir]) : n \in S <=> n \in Dir \/ t[n] # Missing,
         NEW v, v = Renamed(w, S)
  PROVE  Walked(v, k, got, t, st, h, ow)
<1>1. OnTheWay(w, k) /\ Coming(w[1]) = ToSet(Content[w[1].dir]) /\ S \in SUBSET Coming(w[1])
  BY DEF Walked, Coming
<1>2. 1 \in DOMAIN w
  BY <1>1, Stacks DEF OnTheWay
<1>3. /\ OnTheWay(v, k) /\ v # <<>> /\ Dirs(v) = Dirs(w) /\ DOMAIN v = DOMAIN w
      /\ v[1] = [dir |-> w[1].dir, before |-> w[1].before, names |-> S]
      /\ \A i \in DOMAIN w \ {1} : v[i] = w[i]
      /\ ToCome(v, k) = (ToCome(w, k) \ Coming(w[1])) \cup S
  BY <1>1, Fewer
<1>4. Coming(w[1]) \subseteq ToCome(w, k) /\ ToCome(w, k) \subseteq Names
  BY <1>1, <1>2, Frames
<1>5. Pending(v, k) \subseteq Pending(w, k)
  BY <1>1, <1>3, <1>4 DEF Pending
<1>6. \A f \in CapsuleFile \cap Coming(w[1]) : got[f] = Missing
  <2>1. \A f \in Coming(w[1]) : f \in Pending(w, k)
    BY <1>4, WithinFacts DEF Pending
  <2> QED BY <2>1 DEF Walked
<1>7. ASSUME NEW i \in DOMAIN v PROVE Kept(v[i], got, t, st, ow)
  <2>1. CASE i = 1
    <3>1. Kept(w[1], got, t, st, ow)
      BY <1>2 DEF Walked
    <3>2. \A f \in FilesIn(w[1].dir) \ S : got[f] = t[f]
      <4>1. w[1].dir \in Dir
        BY <1>1, <1>2, Frames
      <4> QED BY <1>1, <1>6, <4>1, FilesInFacts DEF FilesIn
    <3>3. v[1].dir = w[1].dir /\ v[1].before = w[1].before /\ v[1].names = S
      BY <1>3
    <3> QED BY <2>1, <3>1, <3>2, <3>3 DEF Kept
  <2>2. CASE i # 1
    BY <1>3, <2>2 DEF Walked
  <2> QED BY <2>1, <2>2
<1>8. ASSUME NEW d \in Skill, d \in Pending(w, k) PROVE d \in Pending(v, k)
  <2>1. PICK n \in ToCome(w, k) : d \in Within(n)
    BY <1>8 DEF Pending
  <2>2. d \in Dir /\ d \in Names /\ n \in Names
    BY <1>4, SkillsAre DEF Names
  <2>3. CASE n \in ToCome(v, k)
    BY <2>1, <2>2, <2>3 DEF Pending
  <2>4. CASE n \notin ToCome(v, k)
    <3>1. n \in Coming(w[1]) /\ n \notin S
      BY <1>3, <2>4
    <3>2. n \notin Dir
      BY <1>1, <3>1
    <3>3. n \in CapsuleFile
      BY <2>2, <3>2 DEF Names
    <3>4. d = n
      BY <2>1, <3>3, FileAlone
    <3> QED BY <2>2, <3>2, <3>4
  <2> QED BY <2>3, <2>4
<1>9. \A d \in Skill \ (Pending(v, k) \cup Dirs(v)) : ~ow => Listing(d, got) \in h[d]
  BY <1>3, <1>8 DEF Walked
<1>10. \A f \in CapsuleFile \cap Pending(v, k) : got[f] = Missing
  BY <1>5 DEF Walked
<1> QED BY <1>3, <1>7, <1>9, <1>10 DEF Walked

\* The head is through, and its directory has not moved.
LEMMA Through ==
  ASSUME NEW w, NEW k, NEW got, NEW t, NEW st, NEW h, NEW ow \in BOOLEAN,
         Walked(w, k, got, t, st, h, ow), w # <<>>, w[1].names = {},
         w[1].before = st[w[1].dir], \A d \in Dir : Listing(d, t) \in h[d],
         NEW v, v = Behind(w)
  PROVE  Walked(v, k, got, t, st, h, ow)
<1>1. OnTheWay(w, k) /\ {} # Missing /\ Coming(w[1]) = {}
  BY CapsuleAssumption DEF Walked, Coming
<1>2. 1 \in DOMAIN w
  BY <1>1, Stacks DEF OnTheWay
<1>3. /\ OnTheWay(v, k) /\ ToCome(v, k) = ToCome(w, k)
      /\ Dirs(w) \subseteq Dirs(v) \cup {w[1].dir}
      /\ \A i \in DOMAIN v : i + 1 \in DOMAIN w /\ v[i] = w[i + 1]
  BY <1>1, Popped
<1>4. Pending(v, k) = Pending(w, k)
  BY <1>3 DEF Pending
<1>5. \A i \in DOMAIN v : Kept(v[i], got, t, st, ow)
  BY <1>3 DEF Walked
<1>6. ASSUME ~ow PROVE Listing(w[1].dir, got) \in h[w[1].dir]
  <2>1. w[1].dir \in Dir /\ Kept(w[1], got, t, st, ow)
    BY <1>1, <1>2, Frames DEF Walked
  <2>2. \A f \in FilesIn(w[1].dir) : got[f] = t[f]
    BY <1>1, <1>6, <2>1 DEF Kept
  <2>3. Listing(w[1].dir, got) = Listing(w[1].dir, t)
    BY <2>2, ListingsAlike
  <2> QED BY <2>1, <2>3
<1>7. \A d \in Skill \ (Pending(v, k) \cup Dirs(v)) : ~ow => Listing(d, got) \in h[d]
  BY <1>3, <1>4, <1>6 DEF Walked
<1> QED BY <1>3, <1>4, <1>5, <1>7 DEF Walked

\* n is taken from the head of w, S is left, and that is v.
Taken(v, w, k, n, S) ==
  /\ OnTheWay(v, k) /\ v # <<>> /\ Dirs(v) = Dirs(w) /\ DOMAIN v = DOMAIN w /\ 1 \in DOMAIN w
  /\ v[1].dir = w[1].dir /\ v[1].before = w[1].before /\ v[1].names = S
  /\ \A i \in DOMAIN w \ {1} : v[i] = w[i]
  /\ ToCome(w, k) = ToCome(v, k) \cup {n} /\ n \notin ToCome(v, k)
  /\ n \in ToSet(Content[w[1].dir]) /\ n \in Names /\ n \in Within(Resources[k-1])
  /\ Apart(ToCome(v, k) \cup {n}, Dirs(v))

LEMMA NameTaken ==
  ASSUME NEW w, NEW k, OnTheWay(w, k), w # <<>>, w[1].names # Missing, NEW n \in w[1].names,
         NEW S \in SUBSET w[1].names, n \notin S, w[1].names \subseteq S \cup {n},
         NEW v, v = Renamed(w, S)
  PROVE  Taken(v, w, k, n, S)
<1>1. 1 \in DOMAIN w
  BY Stacks DEF OnTheWay
<1>2. Coming(w[1]) = w[1].names
  BY DEF Coming
<1>3. S \in SUBSET Coming(w[1])
  BY <1>2
<1>4. /\ OnTheWay(v, k) /\ v # <<>> /\ Dirs(v) = Dirs(w) /\ DOMAIN v = DOMAIN w
      /\ v[1] = [dir |-> w[1].dir, before |-> w[1].before, names |-> S]
      /\ \A i \in DOMAIN w \ {1} : v[i] = w[i]
      /\ ToCome(v, k) = (ToCome(w, k) \ Coming(w[1])) \cup S
  BY <1>3, Fewer
<1>5. v[1].dir = w[1].dir /\ v[1].before = w[1].before /\ v[1].names = S
  BY <1>4
<1>6. Coming(w[1]) \subseteq ToCome(w, k) /\ ToCome(w, k) \subseteq Names
  BY <1>1, Frames
<1>7. ToCome(w, k) = ToCome(v, k) \cup {n} /\ n \notin ToCome(v, k)
  BY <1>2, <1>4, <1>6
<1>8. n \in ToSet(Content[w[1].dir]) /\ n \in Within(Resources[k-1])
  BY <1>2, Sole
<1>9. Apart(ToCome(v, k) \cup {n}, Dirs(v))
  BY <1>4, <1>7 DEF OnTheWay
<1> QED BY <1>1, <1>2, <1>4, <1>5, <1>6, <1>7, <1>8, <1>9 DEF Taken

LEMMA PendingTaken ==
  ASSUME NEW v, NEW w, NEW k, OnTheWay(w, k), NEW n, NEW S, Taken(v, w, k, n, S)
  PROVE  /\ \A m : m \in Pending(w, k) <=> m \in Pending(v, k) \/ m \in Within(n)
         /\ n \notin Pending(v, k)
<1>1. ToCome(w, k) = ToCome(v, k) \cup {n} /\ n \notin ToCome(v, k) /\ n \in Names
  BY DEF Taken
<1>2. Within(n) \subseteq Names
  BY <1>1, WithinFacts
<1>3. \A m : m \in Pending(w, k) <=> m \in Pending(v, k) \/ m \in Within(n)
  BY <1>1, <1>2 DEF Pending
<1>4. Apart(ToCome(w, k), Dirs(w))
  BY DEF OnTheWay
<1>5. n \notin Pending(v, k)
  BY <1>1, <1>4 DEF Pending, Apart
<1> QED BY <1>3, <1>5

\* A file is read: it was the next of the head.
LEMMA FileRead ==
  ASSUME NEW w, NEW k, NEW got, NEW t, NEW st, NEW h, NEW ow,
         Walked(w, k, got, t, st, h, ow), w # <<>>, w[1].names # Missing,
         NEW n \in w[1].names, n \notin Dir,
         NEW g, g[n] = t[n], \A f \in CapsuleFile \ {n} : g[f] = got[f],
         NEW S \in SUBSET w[1].names, n \notin S, w[1].names \subseteq S \cup {n},
         NEW v, v = Renamed(w, S)
  PROVE  Walked(v, k, g, t, st, h, ow)
<1>1. OnTheWay(w, k)
  BY DEF Walked
<1>2. /\ OnTheWay(v, k) /\ v # <<>> /\ Dirs(v) = Dirs(w) /\ DOMAIN v = DOMAIN w /\ 1 \in DOMAIN w
      /\ v[1].dir = w[1].dir /\ v[1].before = w[1].before /\ v[1].names = S
      /\ \A i \in DOMAIN w \ {1} : v[i] = w[i]
      /\ ToCome(w, k) = ToCome(v, k) \cup {n} /\ n \notin ToCome(v, k)
      /\ n \in ToSet(Content[w[1].dir]) /\ n \in Names
  <2>1. Taken(v, w, k, n, S)
    BY <1>1, NameTaken
  <2> QED BY <2>1 DEF Taken
<1>3. n \in CapsuleFile /\ Within(n) = {n}
  BY <1>2, FileAlone DEF Names
<1>4. Pending(w, k) = Pending(v, k) \cup {n} /\ n \notin Pending(v, k)
  <2>1. Taken(v, w, k, n, S)
    BY <1>1, NameTaken
  <2>2. /\ \A m : m \in Pending(w, k) <=> m \in Pending(v, k) \/ m \in Within(n)
        /\ n \notin Pending(v, k)
    BY <1>1, <2>1, PendingTaken
  <2> QED BY <1>3, <2>2
<1>5. \A i \in DOMAIN w : w[i].dir \in Dir /\ w[i].dir \in Dirs(w) /\ Kept(w[i], got, t, st, ow)
  BY <1>1, Frames DEF Walked
<1>6. n \in FilesIn(w[1].dir)
  BY <1>2, <1>3 DEF FilesIn
<1>7. \A d \in Dir : n \in FilesIn(d) => d = w[1].dir
  BY <1>2, <1>5, <1>6, FilesInFacts
<1>8. ASSUME NEW i \in DOMAIN v PROVE Kept(v[i], g, t, st, ow)
  <2>1. CASE i = 1
    <3>1. S # Missing
      <4>1. w[1].names \in SUBSET Names
        BY <1>1, <1>2, Frames
      <4> QED BY <4>1, CapsuleAssumption DEF Names
    <3>2. ASSUME ~ow, w[1].before = st[w[1].dir], NEW f \in FilesIn(w[1].dir) \ S
          PROVE  g[f] = t[f]
      <4>1. CASE f = n
        BY <4>1
      <4>2. CASE f # n
        <5>1. got[f] = t[f]
          BY <1>2, <1>5, <3>2, <4>2 DEF Kept
        <5> QED BY <1>2, <1>5, <4>2, <5>1, FilesInFacts
      <4> QED BY <4>1, <4>2
    <3>3. w[1].before <= st[w[1].dir]
      BY <1>2, <1>5 DEF Kept
    <3> QED BY <1>2, <2>1, <3>2, <3>3 DEF Kept
  <2>2. CASE i # 1
    <3>1. i \in DOMAIN w /\ v[i] = w[i] /\ w[i].dir # w[1].dir
      BY <1>1, <1>2, <2>2 DEF OnTheWay
    <3>2. \A f \in FilesIn(w[i].dir) : g[f] = got[f]
      BY <1>5, <1>7, <3>1, FilesInFacts
    <3> QED BY <1>5, <3>1, <3>2 DEF Kept
  <2> QED BY <2>1, <2>2
<1>9. \A f \in CapsuleFile \cap Pending(v, k) : g[f] = Missing
  BY <1>4 DEF Walked
<1>10. \A d \in Skill \ (Pending(v, k) \cup Dirs(v)) : ~ow => Listing(d, g) \in h[d]
  <2> SUFFICES ASSUME NEW d \in Skill \ (Pending(v, k) \cup Dirs(v)), ~ow
               PROVE  Listing(d, g) \in h[d]
    OBVIOUS
  <2>1. d \in Dir /\ d # n
    BY SkillsAre
  <2>2. Listing(d, got) \in h[d]
    BY <1>2, <1>4, <2>1 DEF Walked
  <2>3. n \notin FilesIn(d)
    BY <1>2, <1>5, <1>7, <2>1
  <2>4. \A f \in FilesIn(d) : g[f] = got[f]
    BY <2>1, <2>3, FilesInFacts
  <2> QED BY <2>2, <2>4, ListingsAlike
<1> QED BY <1>2, <1>8, <1>9, <1>10 DEF Walked

\* What is in n is in its content, or is n.
LEMMA PendingDeeper ==
  ASSUME NEW v, NEW u, NEW k, NEW n \in Dir, NEW b, Deeper(v, u, k, n, b)
  PROVE  \A m : /\ m \in Pending(v, k) => m \in Pending(u, k) \/ m \in Within(n)
                /\ m \in Pending(u, k) \/ m \in Within(n) => m \in Pending(v, k) \/ m = n
<1>1. \A m : m \in ToCome(v, k) <=> m \in ToCome(u, k) \/ m \in ToSet(Content[n])
  BY DEF Deeper
<1>2. \A m : m \in Within(n) <=> m = n \/ \E c \in ToSet(Content[n]) : m \in Within(c)
  BY WithinDirectory
<1>3. Within(n) \subseteq Names
  BY WithinFacts DEF Names
<1> QED BY <1>1, <1>2, <1>3 DEF Pending

\* A directory is entered: it has the stamp it has now, and nothing of it has
\* been read.
LEMMA DirectoryEntered ==
  ASSUME NEW u, NEW k, NEW got, NEW t, NEW st \in [Dir -> Nat], NEW h, NEW ow, NEW n \in Dir,
         \A f \in CapsuleFile : f \in Pending(u, k) \/ f \in Within(n) => got[f] = Missing,
         \A i \in DOMAIN u : Kept(u[i], got, t, st, ow),
         \A d \in Skill \ Dirs(u) :
           ~(d \in Pending(u, k) \/ d \in Within(n)) /\ ~ow => Listing(d, got) \in h[d],
         NEW v, Deeper(v, u, k, n, st[n])
  PROVE  Walked(v, k, got, t, st, h, ow)
<1>1. \A m : /\ m \in Pending(v, k) => m \in Pending(u, k) \/ m \in Within(n)
             /\ m \in Pending(u, k) \/ m \in Within(n) => m \in Pending(v, k) \/ m = n
  BY PendingDeeper
<1>2. /\ OnTheWay(v, k) /\ Dirs(v) = Dirs(u) \cup {n}
      /\ v[1].dir = n /\ v[1].before = st[n] /\ v[1].names = Missing
      /\ \A i \in DOMAIN v \ {1} : i - 1 \in DOMAIN u /\ v[i] = u[i - 1]
  BY DEF Deeper
<1>3. ASSUME NEW i \in DOMAIN v PROVE Kept(v[i], got, t, st, ow)
  <2>1. CASE i = 1
    <3>1. st[n] \in Nat
      OBVIOUS
    <3> QED BY <1>2, <2>1, <3>1 DEF Kept
  <2>2. CASE i # 1
    BY <1>2, <2>2
  <2> QED BY <2>1, <2>2
<1>4. \A f \in CapsuleFile \cap Pending(v, k) : got[f] = Missing
  BY <1>1
<1>5. \A d \in Skill \ (Pending(v, k) \cup Dirs(v)) : ~ow => Listing(d, got) \in h[d]
  BY <1>1, <1>2
<1> QED BY <1>2, <1>3, <1>4, <1>5 DEF Walked

\* It was the next of the head.
LEMMA Descended ==
  ASSUME NEW w, NEW k, NEW got, NEW t, NEW st \in [Dir -> Nat], NEW h, NEW ow,
         Walked(w, k, got, t, st, h, ow), w # <<>>, w[1].names # Missing,
         NEW n \in w[1].names, n \in Dir,
         NEW S \in SUBSET w[1].names, n \notin S, w[1].names \subseteq S \cup {n},
         NEW u, u = Renamed(w, S), NEW v, v = Into(n, st[n], u)
  PROVE  Walked(v, k, got, t, st, h, ow)
<1>1. OnTheWay(w, k) /\ k > 1
  BY DEF Walked, OnTheWay
<1>2. Taken(u, w, k, n, S)
  BY <1>1, NameTaken
<1>3. \A m : m \in Pending(w, k) <=> m \in Pending(u, k) \/ m \in Within(n)
  BY <1>1, <1>2, PendingTaken
<1>4. Deeper(v, u, k, n, st[n])
  <2>1. OnTheWay(u, k) /\ n \notin ToCome(u, k) /\ Apart(ToCome(u, k) \cup {n}, Dirs(u))
        /\ n \in Within(Resources[k-1]) /\ st[n] \in Nat
    BY <1>2 DEF Taken
  <2> QED BY <1>1, <2>1, Pushed
<1>5. /\ Dirs(u) = Dirs(w) /\ DOMAIN u = DOMAIN w /\ 1 \in DOMAIN w
      /\ u[1].dir = w[1].dir /\ u[1].before = w[1].before /\ u[1].names = S
      /\ \A i \in DOMAIN w \ {1} : u[i] = w[i]
  BY <1>2 DEF Taken
<1>6. \A i \in DOMAIN w : w[i].dir \in Dir /\ Kept(w[i], got, t, st, ow)
  BY <1>1, Frames DEF Walked
<1>7. ASSUME NEW i \in DOMAIN u PROVE Kept(u[i], got, t, st, ow)
  <2>1. CASE i = 1
    <3>1. \A f \in FilesIn(w[1].dir) \ S : f \in FilesIn(w[1].dir) \ w[1].names
      BY <1>5, <1>6, FilesInFacts
    <3> QED BY <1>5, <1>6, <2>1, <3>1 DEF Kept
  <2>2. CASE i # 1
    BY <1>5, <1>6, <2>2
  <2> QED BY <2>1, <2>2
<1>8. \A f \in CapsuleFile : f \in Pending(u, k) \/ f \in Within(n) => got[f] = Missing
  BY <1>3 DEF Walked
<1>9. \A d \in Skill \ Dirs(u) :
        ~(d \in Pending(u, k) \/ d \in Within(n)) /\ ~ow => Listing(d, got) \in h[d]
  BY <1>3, <1>5 DEF Walked
<1> QED BY <1>4, <1>7, <1>8, <1>9, DirectoryEntered

\* What lies in the next resource is all that is not to come after it.
LEMMA PendingResource ==
  ASSUME NEW k \in 1..Len(Resources), OnTheWay(<<>>, k)
  PROVE  /\ \A m : m \in Pending(<<>>, k) <=> m \in Pending(<<>>, k+1) \/ m \in Within(Resources[k])
         /\ Resources[k] \notin Pending(<<>>, k+1)
<1>1. /\ ToCome(<<>>, k) = ToCome(<<>>, k+1) \cup {Resources[k]}
      /\ Resources[k] \notin ToCome(<<>>, k+1)
  BY NextResource
<1>2. Resources[k] \in Names /\ Within(Resources[k]) \subseteq Names
  BY ResourcesAre, WithinFacts
<1>3. Apart(ToCome(<<>>, k), Dirs(<<>>))
  BY DEF OnTheWay
<1>4. Resources[k] \notin Pending(<<>>, k+1)
  BY <1>1, <1>3 DEF Pending, Apart
<1> QED BY <1>1, <1>2, <1>4 DEF Pending

LEMMA ResourceRead ==
  ASSUME NEW k \in 1..Len(Resources), NEW got, NEW t, NEW st, NEW h, NEW ow,
         Walked(<<>>, k, got, t, st, h, ow), Resources[k] \notin Dir,
         NEW g, \A f \in CapsuleFile \ {Resources[k]} : g[f] = got[f]
  PROVE  Walked(<<>>, k+1, g, t, st, h, ow)
<1>1. OnTheWay(<<>>, k) /\ OnTheWay(<<>>, k+1) /\ Dirs(<<>>) = {}
  BY NextResource DEF Walked
<1>2. Resources[k] \in CapsuleFile /\ Within(Resources[k]) = {Resources[k]}
  BY ResourcesAre, FileAlone DEF Names
<1>3. /\ \A m : m \in Pending(<<>>, k) <=> m \in Pending(<<>>, k+1) \/ m \in Within(Resources[k])
      /\ Resources[k] \notin Pending(<<>>, k+1)
  BY <1>1, PendingResource
<1>4. \A f \in CapsuleFile \cap Pending(<<>>, k+1) : g[f] = Missing
  BY <1>3 DEF Walked
<1>5. \A d \in Skill : Resources[k] \notin FilesIn(d)
  <2> SUFFICES ASSUME NEW d \in Skill, Resources[k] \in FilesIn(d) PROVE FALSE
    OBVIOUS
  <2>1. PICK i \in 1..Len(Resources) : d \in Within(Resources[i])
    BY SkillsAre
  <2>2. Resources[k] \in Within(Resources[i])
    BY <2>1, SkillsAre, ResourcesAre, WithinFacts DEF FilesIn, Closed
  <2>3. i = k
    BY <1>2, <2>2, ResourcesAre
  <2> QED BY <1>2, <2>1, <2>3, SkillsAre
<1>6. \A d \in Skill \ (Pending(<<>>, k+1) \cup Dirs(<<>>)) : ~ow => Listing(d, g) \in h[d]
  <2> SUFFICES ASSUME NEW d \in Skill \ Pending(<<>>, k+1), ~ow
               PROVE  Listing(d, g) \in h[d]
    OBVIOUS
  <2>1. d \in Dir /\ d # Resources[k]
    BY SkillsAre
  <2>2. Listing(d, got) \in h[d]
    BY <1>1, <1>2, <1>3, <2>1 DEF Walked
  <2>3. \A f \in FilesIn(d) : g[f] = got[f]
    BY <1>5, <2>1, FilesInFacts
  <2> QED BY <2>2, <2>3, ListingsAlike
<1>7. \A i \in DOMAIN <<>> : FALSE
  OBVIOUS
<1> QED BY <1>1, <1>4, <1>6, <1>7 DEF Walked

LEMMA ResourceEntered ==
  ASSUME NEW k \in 1..Len(Resources), NEW got, NEW t, NEW st \in [Dir -> Nat], NEW h, NEW ow,
         Walked(<<>>, k, got, t, st, h, ow), Resources[k] \in Dir,
         NEW v, v = Into(Resources[k], st[Resources[k]], <<>>)
  PROVE  Walked(v, k+1, got, t, st, h, ow)
<1> DEFINE n == Resources[k]
<1>1. /\ OnTheWay(<<>>, k) /\ OnTheWay(<<>>, k+1) /\ Dirs(<<>>) = {}
      /\ ToCome(<<>>, k) = ToCome(<<>>, k+1) \cup {n} /\ n \notin ToCome(<<>>, k+1)
  BY NextResource DEF Walked
<1>2. /\ \A m : m \in Pending(<<>>, k) <=> m \in Pending(<<>>, k+1) \/ m \in Within(n)
      /\ n \notin Pending(<<>>, k+1)
  BY <1>1, PendingResource
<1>3. /\ Apart(ToCome(<<>>, k+1) \cup {n}, Dirs(<<>>)) /\ k + 1 > 1 /\ (k + 1) - 1 = k
      /\ n \in Within(Resources[(k+1)-1]) /\ st[n] \in Nat
  <2>1. Apart(ToCome(<<>>, k), Dirs(<<>>))
    BY <1>1 DEF OnTheWay
  <2>2. n \in Within(n) /\ (k + 1) - 1 = k /\ k + 1 > 1
    BY ResourcesAre
  <2>3. Apart(ToCome(<<>>, k+1) \cup {n}, Dirs(<<>>))
    BY <1>1, <2>1
  <2> QED BY <2>2, <2>3
<1>4. Deeper(v, <<>>, k+1, n, st[n])
  BY <1>1, <1>3, Pushed
<1>5. \A i \in DOMAIN <<>> : FALSE
  OBVIOUS
<1>6. \A f \in CapsuleFile : f \in Pending(<<>>, k+1) \/ f \in Within(n) => got[f] = Missing
  BY <1>2 DEF Walked
<1>7. \A d \in Skill \ Dirs(<<>>) :
        ~(d \in Pending(<<>>, k+1) \/ d \in Within(n)) /\ ~ow => Listing(d, got) \in h[d]
  BY <1>1, <1>2 DEF Walked
<1> QED BY <1>4, <1>5, <1>6, <1>7, DirectoryEntered

\* Nothing is to come any more.
LEMMA AllWalked ==
  ASSUME NEW k, k > Len(Resources), NEW got, NEW t, NEW st, NEW h, NEW ow,
         Walked(<<>>, k, got, t, st, h, ow), ~ow
  PROVE  \A d \in Skill : Listing(d, got) \in h[d]
<1>1. k \in Nat /\ Len(Resources) \in Nat
  BY ResourcesAre DEF Walked, OnTheWay
<1>2. Dirs(<<>>) = {} /\ ToCome(<<>>, k) = {}
  BY <1>1 DEF Dirs, ToCome, FromStack, FromResources
<1> QED BY <1>2 DEF Walked, Pending

\* At the beginning everything is to come.
LEMMA NothingWalked ==
  ASSUME NEW got, \A f \in CapsuleFile : got[f] = Missing, NEW t, NEW st, NEW h, NEW ow
  PROVE  Walked(<<>>, 1, got, t, st, h, ow)
<1>1. ToCome(<<>>, 1) = {Resources[j] : j \in 1..Len(Resources)} /\ Dirs(<<>>) = {}
  BY DEF Dirs, ToCome, FromStack, FromResources
<1>2. Apart(ToCome(<<>>, 1), Dirs(<<>>))
  <2>1. \A i, j \in 1..Len(Resources) : Resources[i] \in Within(Resources[j]) => i = j
    BY ResourcesAre
  <2> QED BY <1>1, <2>1, ResourcesAre DEF Apart
<1>3. <<>> \in Seq(Frame) /\ \A i \in DOMAIN <<>> : FALSE
  OBVIOUS
<1>4. OnTheWay(<<>>, 1)
  BY <1>2, <1>3, ResourcesAre DEF OnTheWay
<1>5. \A d \in Skill : d \in Pending(<<>>, 1)
  BY <1>1, SkillsAre DEF Pending, Names
<1> QED BY <1>3, <1>4, <1>5 DEF Walked

\* the first of the names, in their order
LEMMA FirstIs ==
  ASSUME NEW d \in Dir, NEW names \in SUBSET ToSet(Content[d]), names # {}
  PROVE  First(d, names) \in names
<1> DEFINE C == Content[d]
           T == {k \in DOMAIN C : C[k] \in names}
<1>1. Len(C) \in Nat /\ DOMAIN C = 1..Len(C)
  BY CapsuleAssumption, LenProperties
<1>2. T \subseteq Nat /\ T # {}
  BY <1>1 DEF ToSet
<1>3. PICK k \in T : \A m \in T : k <= m
  <2> HIDE DEF T
  <2> QED BY <1>2, LeastNumber
<1>4. k \in DOMAIN C /\ C[k] \in names /\ \A j \in 1..(k-1) : C[j] \notin names
  BY <1>1, <1>3
<1> QED BY <1>4 DEF First

-----------------------------------------------------------------------------

\* the inductive invariant of SkillsAreWhole
CapInv ==
  /\ loader = [at |-> loader.at, walk |-> loader.walk, next |-> loader.next, got |-> loader.got]
  /\ loader.got = [f \in CapsuleFile |-> loader.got[f]]
  /\ tree = [f \in CapsuleFile |-> tree[f]] /\ stamp \in [Dir -> Nat] /\ overwritten \in BOOLEAN
  /\ \A d \in Dir : Listing(d, tree) \in held[d]
  /\ loader.at \in {"start", "tree"} =>
       loader.next = 1 /\ \A f \in CapsuleFile : loader.got[f] = Missing
  /\ loader.at = "resource" =>
       Walked(loader.walk, loader.next, loader.got, tree, stamp, held, overwritten)
  /\ loader.at = "loaded" /\ ~overwritten => \A d \in Skill : Listing(d, loader.got) \in held[d]

\* the loader reads, and the capsule stays as it is
LEMMA LoaderMoves ==
  ASSUME CapInv, UNCHANGED <<tree, stamp, held, overwritten>>,
         NEW a, NEW w, NEW k, NEW g,
         loader' = [at |-> a, walk |-> w, next |-> k, got |-> g],
         g = [f \in CapsuleFile |-> g[f]],
         a \in {"start", "tree"} => k = 1 /\ \A f \in CapsuleFile : g[f] = Missing,
         a = "resource" => Walked(w, k, g, tree, stamp, held, overwritten),
         a = "loaded" /\ ~overwritten => \A d \in Skill : Listing(d, g) \in held[d]
  PROVE  CapInv'
<1>1. loader'.at = a /\ loader'.walk = w /\ loader'.next = k /\ loader'.got = g
  OBVIOUS
<1> QED BY <1>1 DEF CapInv

\* Somebody edits a file.
LEMMA EditsKeep ==
  ASSUME CapInv, NEW f \in CapsuleFile, NEW new, NEW moved \in BOOLEAN, Change(f, new, moved),
         IF moved THEN UNCHANGED overwritten ELSE overwritten' = TRUE
  PROVE  CapInv'
<1>1. /\ tree' = [tree EXCEPT ![f] = new] /\ UNCHANGED loader
      /\ held' = [d \in Dir |-> held[d] \cup {Listing(d, tree')}]
      /\ stamp' = IF moved THEN [stamp EXCEPT ![Home(f)] = @ + 1] ELSE stamp
  BY DEF Change
<1>2. /\ tree' = [g \in CapsuleFile |-> tree'[g]] /\ \A g \in CapsuleFile \ {f} : tree'[g] = tree[g]
      /\ stamp' \in [Dir -> Nat] /\ overwritten' \in BOOLEAN /\ (overwritten => overwritten')
  <2>1. tree = [g \in CapsuleFile |-> tree[g]] /\ stamp \in [Dir -> Nat] /\ overwritten \in BOOLEAN
    BY DEF CapInv
  <2>2. tree' = [g \in CapsuleFile |-> tree'[g]] /\ \A g \in CapsuleFile \ {f} : tree'[g] = tree[g]
    BY <1>1, <2>1
  <2>3. stamp' \in [Dir -> Nat]
    <3>1. stamp \in [Dir -> Nat]
      BY <2>1
    <3>2. CASE moved
      <4>1. stamp' = [stamp EXCEPT ![Home(f)] = @ + 1]
        BY <1>1, <3>2
      <4>2. \A d \in Dir : stamp[d] + 1 \in Nat
        BY <3>1
      <4> QED BY <3>1, <4>1, <4>2
    <3>3. CASE ~moved
      BY <1>1, <3>1, <3>3
    <3> QED BY <3>2, <3>3
  <2>4. overwritten' \in BOOLEAN /\ (overwritten => overwritten')
    BY <2>1
  <2> QED BY <2>2, <2>3, <2>4
<1>3. \A d \in Dir : held[d] \subseteq held'[d] /\ Listing(d, tree') \in held'[d]
  BY <1>1
<1>4. ASSUME loader.at = "resource"
      PROVE  Walked(loader.walk, loader.next, loader.got, tree', stamp', held', overwritten')
  <2>1. Walked(loader.walk, loader.next, loader.got, tree, stamp, held, overwritten)
    BY <1>4 DEF CapInv
  <2>2. Told(f, stamp, stamp', overwritten, overwritten')
    BY <1>1 DEF Told
  <2>3. stamp \in [Dir -> Nat] /\ overwritten \in BOOLEAN
    BY DEF CapInv
  <2>4. \A d \in Dir : held[d] \subseteq held'[d]
    BY <1>3
  <2>5. overwritten' \in BOOLEAN /\ \A g \in CapsuleFile \ {f} : tree'[g] = tree[g]
    BY <1>2
  <2> QED BY <2>1, <2>2, <2>3, <2>4, <2>5, Edited
<1>5. loader.at = "loaded" /\ ~overwritten' => \A d \in Skill : Listing(d, loader.got) \in held'[d]
  BY <1>2, <1>3, SkillsAre DEF CapInv
<1> QED BY <1>1, <1>2, <1>3, <1>4, <1>5 DEF CapInv

\* the names of a directory
LEMMA ListNamesKeeps ==
  ASSUME CapInv, ListNames
  PROVE  CapInv'
<1> DEFINE S == {n \in ToSet(Content[Top.dir]) : n \in Dir \/ tree[n] # Missing}
           v == Renamed(loader.walk, S)
<1>1. UNCHANGED <<tree, stamp, held, overwritten>>
  BY DEF ListNames, Loading
<1>2. loader' = [at |-> loader.at, walk |-> v, next |-> loader.next, got |-> loader.got]
  BY DEF ListNames, Renamed, Top, CapInv
<1>3. loader.at \in {"tree", "resource"}
  BY DEF ListNames, Walking
<1>4. ASSUME loader.at = "resource"
      PROVE  Walked(v, loader.next, loader.got, tree, stamp, held, overwritten)
  <2>1. Walked(loader.walk, loader.next, loader.got, tree, stamp, held, overwritten)
    BY <1>4 DEF CapInv
  <2>2. Top = loader.walk[1] /\ loader.walk # <<>> /\ Top.names = Missing
    BY <2>1, Stacks DEF ListNames, Walking, Top, Walked, OnTheWay
  <2>3. /\ S \in SUBSET ToSet(Content[loader.walk[1].dir])
        /\ \A n \in ToSet(Content[loader.walk[1].dir]) : n \in S <=> n \in Dir \/ tree[n] # Missing
    BY <2>2
  <2> HIDE DEF S
  <2> QED BY <2>1, <2>2, <2>3, Listed
<1> HIDE DEF v
<1> QED BY <1>1, <1>2, <1>3, <1>4, LoaderMoves DEF CapInv

\* the next name
LEMMA AdvanceKeeps ==
  ASSUME CapInv, Advance
  PROVE  CapInv'
<1> DEFINE w == loader.walk
           k == loader.next
           got == loader.got
<1>1. /\ UNCHANGED <<tree, stamp, held, overwritten>> /\ w # <<>>
      /\ loader.at \in {"tree", "resource"} /\ Top.names # Missing
  BY DEF Advance, Walking, Loading
<1>2. /\ loader = [at |-> loader.at, walk |-> w, next |-> k, got |-> got]
      /\ got = [f \in CapsuleFile |-> got[f]] /\ stamp \in [Dir -> Nat] /\ overwritten \in BOOLEAN
      /\ \A d \in Dir : Listing(d, tree) \in held[d]
      /\ loader.at = "tree" => k = 1 /\ \A f \in CapsuleFile : got[f] = Missing
  BY DEF CapInv
<1>3. CASE loader' = [loader EXCEPT !.at = "refused"]
  <2>1. loader' = [at |-> "refused", walk |-> w, next |-> k, got |-> got]
    BY <1>2, <1>3
  <2> HIDE DEF w, k, got
  <2> QED BY <1>1, <1>2, <2>1, LoaderMoves
<1>4. CASE loader.at = "tree" /\ \E v : loader' = [loader EXCEPT !.walk = v]
  <2>1. PICK v : loader' = [loader EXCEPT !.walk = v]
    BY <1>4
  <2>2. loader' = [at |-> "tree", walk |-> v, next |-> k, got |-> got]
    BY <1>2, <1>4, <2>1
  <2> HIDE DEF w, k, got
  <2> QED BY <1>1, <1>2, <1>4, <2>2, LoaderMoves
<1>5. CASE loader.at = "resource"
  <2>1. Walked(w, k, got, tree, stamp, held, overwritten)
    BY <1>5 DEF CapInv
  <2>2. Top = w[1] /\ w[1].names # Missing /\ OnTheWay(w, k) /\ 1 \in DOMAIN w
    BY <1>1, <2>1, Stacks DEF Top, Walked, OnTheWay
  <2>3. w[1].dir \in Dir /\ w[1].names \in SUBSET ToSet(Content[w[1].dir])
    BY <2>2, Frames DEF OnTheWay
  <2>4. CASE w[1].names = {} /\ w[1].before = stamp[w[1].dir] /\ loader' = [loader EXCEPT !.walk = Tail(w)]
    <3>1. Walked(Behind(w), k, got, tree, stamp, held, overwritten)
      <4> HIDE DEF w, k, got
      <4> QED BY <1>1, <1>2, <2>1, <2>4, Through
    <3>2. loader' = [at |-> "resource", walk |-> Behind(w), next |-> k, got |-> got]
      BY <1>2, <1>5, <2>4 DEF Behind
    <3> HIDE DEF w, k, got
    <3> QED BY <1>1, <1>2, <3>1, <3>2, LoaderMoves
  <2>5. ASSUME w[1].names # {}
        PROVE  CapInv'
    <3> DEFINE n == First(w[1].dir, w[1].names)
               S == w[1].names \ {n}
    <3>1. n \in w[1].names
      BY <2>3, <2>5, FirstIs
    <3>2. Rest(n) = Renamed(w, S) /\ Entered(n) = [dir |-> n, before |-> stamp[n], names |-> Missing]
      BY <2>2 DEF Rest, Renamed, Top, Entered
    <3>3. \/ n \in Dir /\ loader' = [loader EXCEPT !.walk = Into(n, stamp[n], Renamed(w, S))]
          \/ loader' = [loader EXCEPT !.at = "refused"]
          \/ /\ n \notin Dir
             /\ loader' = [loader EXCEPT !.walk = Renamed(w, S), !.got = [@ EXCEPT ![n] = tree[n]]]
      BY <1>5, <2>2, <2>5, <3>2 DEF Advance, Refuse, Into
    <3>4. S \in SUBSET w[1].names /\ n \notin S /\ w[1].names \subseteq S \cup {n}
      OBVIOUS
    <3> HIDE DEF n, S
    <3>5. CASE n \in Dir /\ loader' = [loader EXCEPT !.walk = Into(n, stamp[n], Renamed(w, S))]
      <4>1. Walked(Into(n, stamp[n], Renamed(w, S)), k, got, tree, stamp, held, overwritten)
        <5> HIDE DEF w, k, got
        <5> QED BY <1>1, <1>2, <2>1, <2>2, <3>1, <3>4, <3>5, Descended
      <4>2. loader' = [at |-> "resource", walk |-> Into(n, stamp[n], Renamed(w, S)), next |-> k, got |-> got]
        BY <1>2, <1>5, <3>5
      <4> HIDE DEF w, k, got
      <4> QED BY <1>1, <1>2, <4>1, <4>2, LoaderMoves
    <3>6. CASE /\ n \notin Dir
               /\ loader' = [loader EXCEPT !.walk = Renamed(w, S), !.got = [@ EXCEPT ![n] = tree[n]]]
      <4> DEFINE g == [got EXCEPT ![n] = tree[n]]
      <4>1. n \in CapsuleFile
        BY <2>3, <3>1, <3>6, ContentNamed DEF Names
      <4>2. /\ g[n] = tree[n] /\ \A f \in CapsuleFile \ {n} : g[f] = got[f]
            /\ g = [f \in CapsuleFile |-> g[f]]
        <5>1. DOMAIN got = CapsuleFile
          BY <1>2
        <5> HIDE DEF got
        <5> QED BY <4>1, <5>1
      <4>3. loader' = [at |-> "resource", walk |-> Renamed(w, S), next |-> k, got |-> g]
        BY <1>2, <1>5, <3>6
      <4> HIDE DEF g
      <4>4. Walked(Renamed(w, S), k, g, tree, stamp, held, overwritten)
        <5> HIDE DEF w, k, got
        <5> QED BY <1>1, <2>1, <2>2, <3>1, <3>4, <3>6, <4>2, FileRead
      <4> HIDE DEF w, k, got
      <4> QED BY <1>1, <4>2, <4>3, <4>4, LoaderMoves
    <3> QED BY <1>3, <3>3, <3>5, <3>6
  <2> QED BY <1>1, <1>3, <2>2, <2>4, <2>5 DEF Advance, Refuse, Unmoved
<1> QED
  <2>1. CASE loader.at = "tree"
    <3>1. \/ loader' = [loader EXCEPT !.at = "refused"]
          \/ \E v : loader' = [loader EXCEPT !.walk = v]
      <4> DEFINE n == First(Top.dir, Top.names)
      <4>1. [loader EXCEPT !.walk = Rest(n), !.got = loader.got] = [loader EXCEPT !.walk = Rest(n)]
        BY <1>2
      <4> QED BY <2>1, <4>1 DEF Advance, Refuse
    <3> QED BY <1>3, <1>4, <2>1, <3>1
  <2> QED BY <1>1, <1>5, <2>1

\* the next resource
LEMMA ResourceKeeps ==
  ASSUME CapInv, Resource
  PROVE  CapInv'
<1> DEFINE k == loader.next
           got == loader.got
<1>1. /\ UNCHANGED <<tree, stamp, held, overwritten>> /\ loader.walk = <<>>
      /\ loader.at \in {"tree", "resource"}
  BY DEF Resource, Loading
<1>2. /\ loader = [at |-> loader.at, walk |-> <<>>, next |-> k, got |-> got]
      /\ got = [f \in CapsuleFile |-> got[f]] /\ stamp \in [Dir -> Nat]
      /\ loader.at = "tree" => k = 1 /\ \A f \in CapsuleFile : got[f] = Missing
  BY <1>1 DEF CapInv
<1>3. Walked(<<>>, k, got, tree, stamp, held, overwritten)
  <2>1. CASE loader.at = "tree"
    BY <1>2, <2>1, NothingWalked
  <2>2. CASE loader.at = "resource"
    BY <1>1, <2>2 DEF CapInv
  <2> QED BY <1>1, <2>1, <2>2
<1>4. CASE k > Len(Resources)
  <2>1. loader' = [at |-> "loaded", walk |-> <<>>, next |-> k, got |-> got]
    BY <1>2, <1>4 DEF Resource
  <2>2. ~overwritten => \A d \in Skill : Listing(d, got) \in held[d]
    BY <1>3, <1>4, AllWalked
  <2> HIDE DEF k, got
  <2> QED BY <1>1, <1>2, <2>1, <2>2, LoaderMoves
<1>5. CASE ~(k > Len(Resources))
  <2> DEFINE r == Resources[k]
  <2>1. k \in 1..Len(Resources)
    BY <1>3, <1>5, ResourcesAre DEF Walked, OnTheWay
  <2>2. CASE r \in Dir
    <3>1. loader' = [at |-> "resource", walk |-> Into(r, stamp[r], <<>>), next |-> k + 1, got |-> got]
      <4>1. Into(r, stamp[r], <<>>) = <<Entered(r)>>
        BY DEF Into, Entered
      <4> QED BY <1>2, <1>5, <2>2, <4>1 DEF Resource
    <3>2. Walked(Into(r, stamp[r], <<>>), k + 1, got, tree, stamp, held, overwritten)
      <4> HIDE DEF k, got
      <4> QED BY <1>2, <1>3, <2>1, <2>2, ResourceEntered
    <3> HIDE DEF k, got, r
    <3> QED BY <1>1, <1>2, <3>1, <3>2, LoaderMoves
  <2>3. CASE r \notin Dir /\ tree[r] = Missing
    <3>1. loader' = [at |-> "refused", walk |-> <<>>, next |-> k, got |-> got]
      BY <1>2, <1>5, <2>3 DEF Resource, Refuse
    <3> HIDE DEF k, got
    <3> QED BY <1>1, <1>2, <3>1, LoaderMoves
  <2>4. CASE r \notin Dir /\ tree[r] # Missing
    <3> DEFINE g == [got EXCEPT ![r] = tree[r]]
    <3>1. loader' = [at |-> "resource", walk |-> <<>>, next |-> k + 1, got |-> g]
      BY <1>2, <1>5, <2>4 DEF Resource
    <3>2. /\ \A f \in CapsuleFile \ {r} : g[f] = got[f]
          /\ g = [f \in CapsuleFile |-> g[f]]
      <4>1. DOMAIN got = CapsuleFile
        BY <1>2
      <4> HIDE DEF got, r
      <4> QED BY <4>1
    <3> HIDE DEF g
    <3>3. Walked(<<>>, k + 1, g, tree, stamp, held, overwritten)
      <4> HIDE DEF k, got
      <4> QED BY <1>3, <2>1, <2>4, <3>2, ResourceRead
    <3> HIDE DEF k, got, r
    <3> QED BY <1>1, <3>1, <3>2, <3>3, LoaderMoves
  <2> QED BY <2>2, <2>3, <2>4
<1> QED BY <1>4, <1>5

\* What is loaded of a skill is all that the skill held at one moment, as long
\* as files are replaced and not written in place (agents.py:313-340).
THEOREM SkillsAreWhole == CapSpec => []SkillWhole
<1>1. CapInit => CapInv
  <2> SUFFICES ASSUME CapInit PROVE CapInv
    OBVIOUS
  <2>1. /\ loader = [at |-> "start", walk |-> <<>>, next |-> 1, got |-> [f \in CapsuleFile |-> Missing]]
        /\ tree \in [CapsuleFile -> {0, Missing}] /\ overwritten = FALSE
        /\ stamp = [d \in Dir |-> 0] /\ held = [d \in Dir |-> {Listing(d, tree)}]
    BY DEF CapInit
  <2>2. /\ loader.at = "start" /\ loader.next = 1 /\ loader.got = [f \in CapsuleFile |-> Missing]
        /\ loader = [at |-> loader.at, walk |-> loader.walk, next |-> loader.next, got |-> loader.got]
    BY <2>1
  <2>3. tree = [f \in CapsuleFile |-> tree[f]] /\ stamp \in [Dir -> Nat]
    BY <2>1
  <2>4. \A d \in Dir : Listing(d, tree) \in held[d]
    BY <2>1
  <2> QED BY <2>1, <2>2, <2>3, <2>4 DEF CapInv
<1>2. CapInv /\ [CapNext]_capVars => CapInv'
  <2> SUFFICES ASSUME CapInv, [CapNext]_capVars PROVE CapInv'
    OBVIOUS
  <2>1. ASSUME NEW f \in CapsuleFile, ReplaceFile(f) \/ Delete(f) PROVE CapInv'
    <3>1. (\E new : Change(f, new, TRUE)) /\ UNCHANGED overwritten
      BY <2>1 DEF ReplaceFile, Delete
    <3> QED BY <3>1, EditsKeep
  <2>2. ASSUME NEW f \in CapsuleFile, WriteInPlace(f) PROVE CapInv'
    <3>1. (\E new : Change(f, new, FALSE)) /\ overwritten' = TRUE
      BY <2>2 DEF WriteInPlace
    <3> QED BY <3>1, EditsKeep
  <2>3. CASE Begin("root")
    <3>1. /\ UNCHANGED <<tree, stamp, held, overwritten>> /\ loader.at = "start"
          /\ loader' = [at |-> "tree", walk |-> <<Entered("root")>>, next |-> loader.next, got |-> loader.got]
      BY <2>3 DEF Begin, Loading, CapInv
    <3>2. /\ loader.got = [f \in CapsuleFile |-> loader.got[f]]
          /\ loader.next = 1 /\ \A f \in CapsuleFile : loader.got[f] = Missing
      BY <3>1 DEF CapInv
    <3> QED BY <3>1, <3>2, LoaderMoves
  <2>4. CASE UNCHANGED capVars
    BY <2>4 DEF CapInv, capVars
  <2> QED BY <2>1, <2>2, <2>3, <2>4, ListNamesKeeps, AdvanceKeeps, ResourceKeeps DEF CapNext
<1>3. CapInv => SkillWhole
  BY DEF CapInv, SkillWhole
<1> QED BY <1>1, <1>2, <1>3, PTL DEF CapSpec
=============================================================================
