------------------------- MODULE ReceiptChainProofs -------------------------
(* Proofs about ReceiptChain: for any targets, processes and bounds, what   *)
(* the reader without the lock reports was committed.  A manifest that is   *)
(* read later names every record that one read earlier named, although the  *)
(* files of a write are replaced one at a time and any of the replacements  *)
(* may be the last one of its process.                                      *)
EXTENDS ReceiptChain, SequenceTheorems, TLAPS

RunStatus == {"running", "pending_retry", "ambiguous", "failed", "completed"}

Entry    == [attempt : Int, digest : Int]
Decision == [from : Int, to : Int, receipt : Int]
Manifest == [status : RunStatus,
             chain : [Target -> Seq(Entry)], ledger : [Target -> Seq(Decision)]]
Record   == [status : Status \cup {"absent"}, attempt : Int, next : Int, effect : BOOLEAN,
             candidate : Int, recovered : Int, resolved : BOOLEAN, digest : Int]

\* a file and what replaces it
Item ==
  [file : {"manifest"}, target : Target \cup {NoOne}, value : Manifest]
    \cup [file : {"state", "receipt"}, target : Target, value : Record]
    \cup [file : {"folder"}, target : Target, value : Target]
    \cup [file : {"candidate"}, target : Target, value : Entry]
    \cup [file : {"recovery"}, target : Target, value : Int]

View == [at : {"idle", "list", "target", "anchor", "receipts", "bind", "reported", "refused"},
         manifest : Manifest \cup {Nothing}, anchor : Manifest \cup {Nothing},
         todo : SUBSET Target, target : Target \cup {NoOne}, state : Record,
         states : SUBSET (Target \X Record)]

Typing ==
  /\ manifest \in Manifest
  /\ folder \in SUBSET Target
  /\ state \in [Target -> Record]
  /\ job \in [Writer -> Seq(Item)]
  /\ writes \in Int
  /\ view \in View
  /\ view.at \in {"anchor", "receipts", "bind"} => view.target \in Target

\* only the holder of the lock has files to replace
Held == \A w \in Writer : job[w] # <<>> => lock = w

\* n names every record that m names
Digests(m, t) == {m.chain[t][i].digest : i \in DOMAIN m.chain[t]}
Covered(m, n) == \A t \in Target : Digests(m, t) \subseteq Digests(n, t)

\* the manifests among the files s, one after the other, on top of m
IsManifest(p) == p.file = "manifest"
Growing(m, s) ==
  /\ \A i \in 1 .. Len(s) : IsManifest(s[i]) => Covered(m, s[i].value)
  /\ \A i, j \in 1 .. Len(s) :
       i < j /\ IsManifest(s[i]) /\ IsManifest(s[j]) => Covered(s[i].value, s[j].value)

Pending == \A w \in Writer : Growing(manifest, job[w])

Committed == \A x \in view.states : x[2].digest \in Digests(manifest, x[1])

ChainInv == Typing /\ Held /\ Pending /\ Committed

-----------------------------------------------------------------------------
LEMMA CoveredSteps ==
  ASSUME NEW l, NEW m, NEW n, Covered(l, m), Covered(m, n) PROVE Covered(l, n)
BY DEF Covered

\* a record adds its entry to the chain and takes none away
LEMMA ChainedCovers ==
  ASSUME NEW m \in Manifest, NEW t \in Target, NEW s \in Record
  PROVE  Chained(m, t, s) \in Manifest /\ Covered(m, Chained(m, t, s))
<1>. DEFINE e == [attempt |-> s.attempt, digest |-> s.digest]
            n == Chained(m, t, s)
            c == m.chain[t]
<1>1. e \in Entry /\ c \in Seq(Entry)
  BY DEF Entry, Record, Manifest
<1>2. /\ Append(c, e) \in Seq(Entry)
      /\ DOMAIN Append(c, e) = 1 .. (Len(c) + 1) /\ DOMAIN c = 1 .. Len(c)
      /\ \A i \in 1 .. Len(c) : Append(c, e)[i] = c[i]
      /\ Len(c) \in Nat
  <2>. HIDE DEF e, c
  <2>. QED
    BY <1>1
<1>3. n \in Manifest /\ n.chain = [m.chain EXCEPT ![t] = Append(c, e)]
  BY <1>2 DEF Chained, Manifest
<1>4. ASSUME NEW u \in Target PROVE Digests(m, u) \subseteq Digests(n, u)
  <2>1. CASE u # t
    BY <1>3, <2>1 DEF Digests, Manifest
  <2>2. CASE u = t
    <3>1. n.chain[t] = Append(c, e)
      BY <1>3 DEF Manifest
    <3>2. \A i \in DOMAIN c : i \in DOMAIN Append(c, e) /\ Append(c, e)[i] = c[i]
      BY <1>2
    <3>. QED
      BY <2>2, <3>1, <3>2 DEF Digests
  <2>. QED
    BY <2>1, <2>2
<1>. QED
  BY <1>3, <1>4 DEF Covered

LEMMA Concatenated ==
  ASSUME NEW p \in Seq(Item), NEW q \in Seq(Item)
  PROVE  /\ p \o q \in Seq(Item) /\ Len(p \o q) = Len(p) + Len(q)
         /\ \A i \in 1 .. (Len(p) + Len(q)) :
              (p \o q)[i] = IF i <= Len(p) THEN p[i] ELSE q[i - Len(p)]
BY ConcatProperties

LEMMA GrowingConcat ==
  ASSUME NEW m, NEW n, NEW p \in Seq(Item), NEW q \in Seq(Item),
         Growing(m, p), Growing(n, q), Covered(m, n),
         \A i \in 1 .. Len(p) : IsManifest(p[i]) => Covered(p[i].value, n)
  PROVE  p \o q \in Seq(Item) /\ Growing(m, p \o q)
<1>. DEFINE s == p \o q
<1>1. /\ s \in Seq(Item) /\ Len(s) = Len(p) + Len(q) /\ Len(p) \in Nat /\ Len(q) \in Nat
      /\ \A i \in 1 .. Len(s) : \/ i \in 1 .. Len(p) /\ s[i] = p[i]
                                \/ i > Len(p) /\ i - Len(p) \in 1 .. Len(q) /\ s[i] = q[i - Len(p)]
  BY Concatenated, LenProperties
<1>. HIDE DEF s
<1>2. ASSUME NEW i \in 1 .. Len(s), IsManifest(s[i]) PROVE Covered(m, s[i].value)
  <2>1. CASE i \in 1 .. Len(p) /\ s[i] = p[i]
    BY <1>2, <2>1 DEF Growing
  <2>2. CASE i - Len(p) \in 1 .. Len(q) /\ s[i] = q[i - Len(p)]
    <3>1. Covered(n, s[i].value)
      BY <1>2, <2>2 DEF Growing
    <3>. QED
      BY <3>1, CoveredSteps
  <2>. QED
    BY <1>1, <2>1, <2>2
<1>3. ASSUME NEW i \in 1 .. Len(s), NEW j \in 1 .. Len(s), i < j,
             IsManifest(s[i]), IsManifest(s[j])
      PROVE  Covered(s[i].value, s[j].value)
  <2>1. CASE j \in 1 .. Len(p) /\ s[j] = p[j]
    <3>1. i \in 1 .. Len(p) /\ s[i] = p[i]
      BY <1>1, <1>3, <2>1
    <3>. QED
      BY <1>3, <2>1, <3>1 DEF Growing
  <2>2. CASE j > Len(p) /\ j - Len(p) \in 1 .. Len(q) /\ s[j] = q[j - Len(p)]
    <3>1. CASE i \in 1 .. Len(p) /\ s[i] = p[i]
      <4>1. Covered(n, s[j].value)
        BY <1>3, <2>2 DEF Growing
      <4>. QED
        BY <1>3, <3>1, <4>1, CoveredSteps
    <3>2. CASE i > Len(p) /\ i - Len(p) \in 1 .. Len(q) /\ s[i] = q[i - Len(p)]
      <4>1. i - Len(p) < j - Len(p)
        BY <1>1, <1>3
      <4>. QED
        BY <1>3, <2>2, <3>2, <4>1 DEF Growing
    <3>. QED
      BY <1>1, <3>1, <3>2
  <2>. QED
    BY <1>1, <2>1, <2>2
<1>. QED
  BY <1>1, <1>2, <1>3 DEF Growing, s

\* a write of a record, on top of a manifest that may have grown already
LEMMA WriteStateGrows ==
  ASSUME NEW m \in Manifest, NEW t \in Target, NEW s \in Record
  PROVE  WriteState(m, t, s) \in Seq(Item) /\ Growing(m, WriteState(m, t, s))
<1>1. Chained(m, t, s) \in Manifest /\ Covered(m, Chained(m, t, s))
  BY ChainedCovers
<1>. DEFINE a == Put("state", t, s)
            b == Put("receipt", t, s)
            c == Put("manifest", t, Chained(m, t, s))
<1>2. /\ a \in Item /\ b \in Item /\ c \in Item
      /\ ~IsManifest(a) /\ ~IsManifest(b) /\ c.value = Chained(m, t, s)
  BY <1>1 DEF Put, Item, IsManifest
<1>3. WriteState(m, t, s) = <<a, b, c>>
  BY DEF WriteState
<1>. HIDE DEF a, b, c
<1>. QED
  BY <1>1, <1>2, <1>3 DEF Growing

LEMMA NothingGrows ==
  ASSUME NEW m PROVE <<>> \in Seq(Item) /\ Growing(m, <<>>)
BY DEF Growing

\* a file that is no manifest
LEMMA OneGrows ==
  ASSUME NEW m, NEW a \in Item, ~IsManifest(a)
  PROVE  /\ <<a>> \in Seq(Item) /\ Growing(m, <<a>>)
         /\ \A i \in 1 .. Len(<<a>>) : ~IsManifest(<<a>>[i])
BY DEF Growing

LEMMA CoveredItself == ASSUME NEW m PROVE Covered(m, m)
BY DEF Covered

\* ... and a write of a record after it
LEMMA OneThenWrite ==
  ASSUME NEW m, NEW n \in Manifest, Covered(m, n), NEW a \in Item, ~IsManifest(a),
         NEW t \in Target, NEW s \in Record
  PROVE  /\ <<a>> \o WriteState(n, t, s) \in Seq(Item)
         /\ Growing(m, <<a>> \o WriteState(n, t, s))
BY OneGrows, WriteStateGrows, GrowingConcat

LEMMA TwoWrites ==
  ASSUME NEW m \in Manifest, NEW t \in Target, NEW s \in Record, NEW u \in Record
  PROVE  LET both == WriteState(m, t, s) \o WriteState(Chained(m, t, s), t, u)
         IN  both \in Seq(Item) /\ Growing(m, both)
<1>. DEFINE n == Chained(m, t, s)
            p == WriteState(m, t, s)
<1>1. n \in Manifest /\ Covered(m, n)
  BY ChainedCovers
<1>2. p \in Seq(Item) /\ Growing(m, p)
  BY WriteStateGrows
<1>3. \A i \in 1 .. Len(p) : IsManifest(p[i]) => p[i].value = n
  BY DEF WriteState, Put, IsManifest
<1>4. \A i \in 1 .. Len(p) : IsManifest(p[i]) => Covered(p[i].value, n)
  BY <1>3, CoveredItself
<1>5. WriteState(n, t, u) \in Seq(Item) /\ Growing(n, WriteState(n, t, u))
  BY <1>1, WriteStateGrows
<1>. HIDE DEF n, p
<1>6. p \o WriteState(n, t, u) \in Seq(Item) /\ Growing(m, p \o WriteState(n, t, u))
  BY <1>1, <1>2, <1>4, <1>5, GrowingConcat
<1>. QED
  BY <1>6 DEF n, p

-----------------------------------------------------------------------------
\* What the methods have in common: the lock is taken, for files that grow.
Starts(w) ==
  \E s \in Seq(Item) :
    /\ Growing(manifest, s)
    /\ lock = NoOne /\ lock' = w /\ job' = [job EXCEPT ![w] = s]
    /\ writes' \in Int
    /\ UNCHANGED <<files, view>>

Method(w, t) ==
  \/ Prepare(w, t) \/ PrepareAmbiguous(w, t) \/ MarkSideEffect(w, t)
  \/ SaveCandidate(w, t) \/ RecordFailure(w, t) \/ MarkCompleted(w, t)
  \/ Resolve(w, t) \/ RecoverRetry(w, t) \/ RecoverFail(w, t)

LEMMA BeginStarts ==
  ASSUME NEW w \in Writer, NEW s \in Seq(Item), NEW k \in Int, writes \in Int,
         Growing(manifest, s), Begin(w, s, k)
  PROVE  Starts(w)
<1>1. /\ lock = NoOne /\ lock' = w /\ job' = [job EXCEPT ![w] = s]
      /\ UNCHANGED <<files, view>>
  BY DEF Begin, Locked
<1>2. writes' \in Int
  BY DEF Begin
<1>. QED
  BY <1>1, <1>2 DEF Starts

LEMMA UpdateStarts ==
  ASSUME NEW w \in Writer, NEW t \in Target, NEW s \in Record, Typing,
         Update(w, t, s, <<>>)
  PROVE  Starts(w)
<1>. DEFINE u == [s EXCEPT !.digest = Digest]
            p == WriteState(manifest, t, u)
<1>1. u \in Record
  <2>1. Digest \in Int
    BY DEF Digest, Typing
  <2>. QED
    BY <2>1 DEF Record
<1>2. p \in Seq(Item) /\ Growing(manifest, p)
  BY <1>1, WriteStateGrows DEF Typing
<1>3. Begin(w, <<>> \o p, 1)
  BY DEF Update
<1>. HIDE DEF p
<1>4. <<>> \o p = p
  BY <1>2, ConcatEmptySeq
<1>. QED
  BY <1>2, <1>3, <1>4, BeginStarts DEF Typing

\* updates of a record
LEMMA Altered ==
  ASSUME NEW s \in Record, NEW x \in Status, NEW n \in Int, NEW d \in Int, NEW k \in Int
  PROVE  /\ [s EXCEPT !.status = x] \in Record
         /\ [s EXCEPT !.status = x, !.next = n] \in Record
         /\ [s EXCEPT !.status = x, !.next = n, !.resolved = TRUE, !.digest = d] \in Record
         /\ [s EXCEPT !.status = x, !.attempt = n, !.next = n, !.recovered = k, !.digest = d]
               \in Record
<1>1. [s EXCEPT !.status = x] \in Record
  BY DEF Record
<1>2. [s EXCEPT !.status = x, !.next = n] \in Record
  BY DEF Record
<1>3. [s EXCEPT !.status = x, !.next = n, !.resolved = TRUE, !.digest = d] \in Record
  BY DEF Record
<1>4. [s EXCEPT !.status = x, !.attempt = n, !.next = n, !.recovered = k, !.digest = d]
        \in Record
  BY DEF Record
<1>. QED
  BY <1>1, <1>2, <1>3, <1>4

LEMMA StatusNames ==
  /\ "ambiguous" \in Status /\ "retry_scheduled" \in Status
  /\ "failed" \in Status /\ "completed" \in Status
BY DEF Status

LEMMA AbsentRecord == Absent \in Record
BY DEF Absent, Record

LEMMA StartAttemptStarts ==
  ASSUME NEW w \in Writer, NEW t \in Target, NEW n \in Int, Typing, StartAttempt(w, t, n)
  PROVE  Starts(w)
<1>. DEFINE s == [Absent EXCEPT !.status = "running", !.attempt = n, !.digest = Digest]
            a == Put("folder", t, t)
            p == <<a>> \o WriteState(manifest, t, s)
<1>1. Digest \in Int
  BY DEF Digest, Typing
<1>2. s \in Record
  BY <1>1, AbsentRecord DEF Record, Status
<1>3. a \in Item /\ ~IsManifest(a)
  BY DEF Put, Item, IsManifest
<1>4. Begin(w, p, 1)
  BY DEF StartAttempt, MakeFolder
<1>. HIDE DEF s, a
<1>5. p \in Seq(Item) /\ Growing(manifest, p)
  BY <1>2, <1>3, OneThenWrite, CoveredItself DEF Typing
<1>. HIDE DEF p
<1>. QED
  BY <1>4, <1>5, BeginStarts DEF Typing

LEMMA DecidedCovers ==
  ASSUME NEW t \in Target, NEW to \in Int, NEW file \in Int, Typing
  PROVE  /\ Decided(manifest, t, to, file) \in Manifest
         /\ Covered(manifest, Decided(manifest, t, to, file))
<1>. DEFINE m == Decided(manifest, t, to, file)
            d == [from |-> state[t].attempt, to |-> to, receipt |-> file]
<1>1. d \in Decision
  BY DEF Decision, Typing, Record
<1>2. Append(manifest.ledger[t], d) \in Seq(Decision)
  BY <1>1 DEF Typing, Manifest
<1>3. m \in Manifest /\ m.chain = manifest.chain
  BY <1>2 DEF Decided, Typing, Manifest
<1>. QED
  BY <1>3 DEF Covered, Digests

LEMMA RecoverStarts ==
  ASSUME NEW w \in Writer, NEW t \in Target, Typing, RecoverRetry(w, t) \/ RecoverFail(w, t)
  PROVE  Starts(w)
<1>. DEFINE a == Put("recovery", t, Digest)
<1>1. Digest \in Int /\ state[t] \in Record /\ state[t].attempt \in Int
  BY DEF Digest, Typing, Record
<1>2. a \in Item /\ ~IsManifest(a)
  BY <1>1 DEF Put, Item, IsManifest
<1>3. CASE RecoverRetry(w, t)
  <2>. DEFINE to == state[t].attempt + 1
              m == Decided(manifest, t, to, Digest)
              s == [state[t] EXCEPT !.status = "retry_scheduled", !.attempt = to,
                      !.next = to, !.recovered = Digest, !.digest = Digest]
              p == <<a>> \o WriteState(m, t, s)
  <2>1. s \in Record
    <3>1. to \in Int
      BY <1>1
    <3>. QED
      BY <1>1, <3>1, Altered, StatusNames, Zenon
  <2>2. m \in Manifest /\ Covered(manifest, m)
    BY <1>1, DecidedCovers
  <2>3. Begin(w, p, 1)
    BY <1>3 DEF RecoverRetry, RecoveryReceipt
  <2>. HIDE DEF s, m, a
  <2>4. p \in Seq(Item) /\ Growing(manifest, p)
    BY <1>2, <2>1, <2>2, OneThenWrite
  <2>. HIDE DEF p
  <2>. QED
    BY <2>3, <2>4, BeginStarts DEF Typing
<1>4. CASE RecoverFail(w, t)
  <2>. DEFINE m == Decided(manifest, t, state[t].attempt, Digest)
              b == Put("manifest", t, m)
              p == <<a>> \o <<b>>
  <2>1. m \in Manifest /\ Covered(manifest, m)
    BY <1>1, DecidedCovers
  <2>2. b \in Item /\ b.value = m
    BY <2>1 DEF Put, Item
  <2>3. Begin(w, p, 1)
    BY <1>4 DEF RecoverFail, RecoveryReceipt
  <2>. HIDE DEF m, a, b
  <2>4. <<b>> \in Seq(Item) /\ Growing(manifest, <<b>>)
    BY <2>1, <2>2 DEF Growing
  <2>5. p \in Seq(Item) /\ Growing(manifest, p)
    BY <1>2, <2>4, OneGrows, CoveredItself, GrowingConcat
  <2>. HIDE DEF p
  <2>. QED
    BY <2>3, <2>5, BeginStarts DEF Typing
<1>. QED
  BY <1>3, <1>4

LEMMA ResolveStarts ==
  ASSUME NEW w \in Writer, NEW t \in Target, Typing, Resolve(w, t)
  PROVE  Starts(w)
<1>. DEFINE c == [state[t] EXCEPT !.digest = Digest]
            s(status, n) == [c EXCEPT !.status = status, !.next = n, !.resolved = TRUE,
                                      !.digest = Digest + 1]
            p(u) == WriteState(manifest, t, c) \o WriteState(Chained(manifest, t, c), t, u)
<1>1. Digest \in Int /\ state[t] \in Record
  BY DEF Digest, Typing
<1>2. c \in Record /\ c.attempt \in Int
  BY <1>1 DEF Record
<1>3. \E u \in Record : Begin(w, p(u), 2)
  <2>0. 0 \in Int /\ c.attempt + 1 \in Int /\ Digest + 1 \in Int
    BY <1>1, <1>2
  <2>1. s("failed", 0) \in Record
    BY <1>2, <2>0, Altered, StatusNames, Zenon
  <2>2. s("retry_scheduled", c.attempt + 1) \in Record
    BY <1>2, <2>0, Altered, StatusNames, Zenon
  <2>. QED
    BY <2>1, <2>2 DEF Resolve
<1>4. PICK u \in Record : Begin(w, p(u), 2)
  BY <1>3
<1>5. p(u) \in Seq(Item) /\ Growing(manifest, p(u))
  BY <1>2, TwoWrites DEF Typing
<1>. HIDE DEF p
<1>. QED
  BY <1>4, <1>5, BeginStarts DEF Typing

LEMMA CandidateStarts ==
  ASSUME NEW w \in Writer, NEW t \in Target, Typing, SaveCandidate(w, t)
  PROVE  Starts(w)
<1>. DEFINE s == [state[t] EXCEPT !.status = "success_candidate", !.candidate = Digest,
                                  !.digest = Digest]
            a == Put("candidate", t, [attempt |-> state[t].attempt, digest |-> Digest])
            p == <<a>> \o WriteState(manifest, t, s)
<1>1. Digest \in Int /\ state[t] \in Record /\ state[t].attempt \in Int
  BY DEF Digest, Typing, Record
<1>2. s \in Record
  BY <1>1 DEF Record, Status
<1>3. a \in Item /\ ~IsManifest(a)
  BY <1>1 DEF Put, Item, IsManifest, Entry
<1>4. Begin(w, p, 1)
  BY DEF SaveCandidate, Update
<1>. HIDE DEF s, a
<1>5. p \in Seq(Item) /\ Growing(manifest, p)
  BY <1>2, <1>3, OneThenWrite, CoveredItself DEF Typing
<1>. HIDE DEF p
<1>. QED
  BY <1>4, <1>5, BeginStarts DEF Typing

LEMMA MethodStarts ==
  ASSUME NEW w \in Writer, NEW t \in Target, Typing, Method(w, t)
  PROVE  Starts(w)
<1>1. state[t] \in Record /\ state[t].attempt \in Int /\ state[t].next \in Int
  BY DEF Typing, Record
<1>2. CASE Prepare(w, t)
  BY <1>1, <1>2, StartAttemptStarts DEF Prepare
<1>3. CASE PrepareAmbiguous(w, t)
  <2>1. [state[t] EXCEPT !.status = "ambiguous"] \in Record
    BY <1>1 DEF Record, Status
  <2>. QED
    BY <1>3, <2>1, UpdateStarts DEF PrepareAmbiguous
<1>4. CASE MarkSideEffect(w, t)
  <2>1. [state[t] EXCEPT !.effect = TRUE] \in Record
    BY <1>1 DEF Record
  <2>. QED
    BY <1>4, <2>1, UpdateStarts DEF MarkSideEffect
<1>5. CASE RecordFailure(w, t)
  <2>1. [state[t] EXCEPT !.status = "failed"] \in Record
    BY <1>1, Altered, StatusNames, Zenon
  <2>2. [state[t] EXCEPT !.status = "retry_scheduled", !.next = state[t].attempt + 1]
          \in Record
    <3>1. state[t].attempt + 1 \in Int
      BY <1>1
    <3>. QED
      BY <1>1, <3>1, Altered, StatusNames, Zenon
  <2>. QED
    BY <1>5, <2>1, <2>2, UpdateStarts DEF RecordFailure
<1>6. CASE MarkCompleted(w, t)
  <2>1. [state[t] EXCEPT !.status = "completed"] \in Record
    BY <1>1 DEF Record, Status
  <2>. QED
    BY <1>6, <2>1, UpdateStarts DEF MarkCompleted
<1>. QED
  BY <1>2, <1>3, <1>4, <1>5, <1>6, CandidateStarts, ResolveStarts, RecoverStarts DEF Method

LEMMA PublishStarts ==
  ASSUME NEW w \in Writer, Typing, Publish(w) PROVE Starts(w)
<1>. PICK x \in RunStatus :
       Begin(w, <<Put("manifest", NoOne, [manifest EXCEPT !.status = x])>>, 0)
  BY DEF Publish, RunStatus
<1>. DEFINE m == [manifest EXCEPT !.status = x]
            b == Put("manifest", NoOne, m)
            p == <<b>>
<1>1. m \in Manifest /\ m.chain = manifest.chain
  BY DEF Typing, Manifest
<1>2. b \in Item /\ b.value = m
  BY <1>1 DEF Put, Item
<1>3. Covered(manifest, m)
  BY <1>1 DEF Covered, Digests
<1>4. Begin(w, p, 0)
  OBVIOUS
<1>. HIDE DEF m, b
<1>5. p \in Seq(Item) /\ Growing(manifest, p)
  BY <1>2, <1>3 DEF Growing
<1>. HIDE DEF p
<1>. QED
  BY <1>4, <1>5, BeginStarts DEF Typing

LEMMA StartsKeeps ==
  ASSUME NEW w \in Writer, ChainInv, Starts(w) PROVE ChainInv'
<1>. USE DEF ChainInv
<1>1. PICK s \in Seq(Item) :
        /\ Growing(manifest, s)
        /\ lock = NoOne /\ lock' = w /\ job' = [job EXCEPT ![w] = s]
        /\ writes' \in Int /\ UNCHANGED <<files, view>>
  BY DEF Starts
<1>2. \A v \in Writer : job[v] = <<>>
  BY <1>1, ReceiptChainAssumption DEF Held
<1>3. \A v \in Writer : job'[v] = IF v = w THEN s ELSE <<>>
  BY <1>1, <1>2 DEF Typing
<1>4. Typing'
  BY <1>1 DEF Typing, files
<1>5. Held'
  BY <1>1, <1>3 DEF Held
<1>6. Pending'
  BY <1>1, <1>3, NothingGrows DEF Pending, files
<1>7. Committed'
  BY <1>1 DEF Committed, files
<1>. QED
  BY <1>4, <1>5, <1>6, <1>7

LEMMA CommittedGrows ==
  ASSUME Typing, Committed, Covered(manifest, manifest'), view' = view PROVE Committed'
<1>. SUFFICES ASSUME NEW x \in view.states PROVE x[2].digest \in Digests(manifest', x[1])
  BY DEF Committed
<1>1. x[1] \in Target
  BY DEF Typing, View
<1>. QED
  BY <1>1 DEF Committed, Covered

\* One file is replaced: the manifest by one that covers it, or another file.
LEMMA WriteFileKeeps ==
  ASSUME NEW w \in Writer, ChainInv, WriteFile(w) PROVE ChainInv'
<1>. USE DEF ChainInv
<1>1. PICK s \in Seq(Item) : s = job[w] /\ s # <<>>
  BY DEF Typing, WriteFile
<1>2. PICK a \in Item, r \in Seq(Item) :
        /\ a = s[1] /\ a = Head(s) /\ r = Tail(s)
        /\ Len(s) \in Nat \ {0} /\ Len(r) = Len(s) - 1
        /\ \A i \in 1 .. Len(r) : r[i] = s[i + 1]
        /\ Len(s) = 1 => r = <<>>
  <2>1. /\ Head(s) \in Item /\ Tail(s) \in Seq(Item) /\ Head(s) = s[1]
        /\ Len(s) \in Nat \ {0}
    BY <1>1
  <2>2. /\ Len(Tail(s)) = Len(s) - 1
        /\ \A i \in 1 .. Len(Tail(s)) : Tail(s)[i] = s[i + 1]
    BY <1>1, HeadTailProperties
  <2>3. Len(s) = 1 => Tail(s) = <<>>
    <3>. DEFINE q == Tail(s)
    <3>1. q \in Seq(Item) /\ (Len(s) = 1 => Len(q) = 0)
      BY <2>1, <2>2
    <3>. HIDE DEF q
    <3>2. Len(q) = 0 => q = <<>>
      BY <3>1, EmptySeq
    <3>. QED
      BY <3>1, <3>2 DEF q
  <2>. QED
    BY <2>1, <2>2, <2>3
<1>3. /\ job' = [job EXCEPT ![w] = r] /\ UNCHANGED <<writes, view>>
      /\ lock' = IF Len(s) = 1 THEN NoOne ELSE lock
      /\ Replace(a)
  BY <1>1, <1>2 DEF WriteFile
<1>4. \A v \in Writer : job'[v] = IF v = w THEN r ELSE job[v]
  BY <1>3 DEF Typing
<1>5. \A v \in Writer : v # w => job[v] = <<>>
  BY <1>1 DEF Held
<1>6. /\ manifest' = IF IsManifest(a) THEN a.value ELSE manifest
      /\ IsManifest(a) => a.value \in Manifest
  BY <1>3 DEF Replace, IsManifest, Item
<1>7. Covered(manifest, manifest')
  BY <1>1, <1>2, <1>6, CoveredItself DEF Pending, Growing
<1>8. Growing(manifest', r)
  <2>1. Growing(manifest, s)
    BY <1>1 DEF Pending
  <2>2. \A i \in 1 .. Len(r) : i + 1 \in 1 .. Len(s) /\ r[i] = s[i + 1] /\ 1 < i + 1
    BY <1>2
  <2>3. \A i \in 1 .. Len(r) : IsManifest(r[i]) => Covered(manifest', r[i].value)
    <3>. SUFFICES ASSUME NEW i \in 1 .. Len(r), IsManifest(r[i])
                  PROVE  Covered(manifest', r[i].value)
      OBVIOUS
    <3>1. 1 \in 1 .. Len(s)
      BY <1>2
    <3>. QED
      BY <1>2, <1>6, <2>1, <2>2, <3>1 DEF Growing
  <2>4. ASSUME NEW i \in 1 .. Len(r), NEW j \in 1 .. Len(r), i < j,
               IsManifest(r[i]), IsManifest(r[j])
        PROVE  Covered(r[i].value, r[j].value)
    <3>1. i + 1 < j + 1
      BY <1>2, <2>4
    <3>. QED
      BY <2>1, <2>2, <2>4, <3>1 DEF Growing
  <2>. QED
    BY <2>3, <2>4 DEF Growing
<1>9. Typing'
  <2>1. manifest' \in Manifest
    BY <1>6 DEF Typing
  <2>2. folder' \in SUBSET Target
    BY <1>3 DEF Replace, Item, Typing
  <2>3. state' \in [Target -> Record]
    BY <1>3 DEF Replace, Item, Typing
  <2>4. job' \in [Writer -> Seq(Item)] /\ writes' \in Int
    BY <1>3 DEF Typing
  <2>. QED
    BY <1>3, <2>1, <2>2, <2>3, <2>4 DEF Typing
<1>10. Held'
  BY <1>1, <1>2, <1>3, <1>4, <1>5 DEF Held
<1>11. Pending'
  BY <1>4, <1>5, <1>8, NothingGrows DEF Pending
<1>12. Committed'
  BY <1>3, <1>7, CommittedGrows
<1>. QED
  BY <1>9, <1>10, <1>11, <1>12

LEMMA CrashKeeps ==
  ASSUME NEW w \in Writer, ChainInv, Crash(w) PROVE ChainInv'
<1>. USE DEF ChainInv
<1>1. /\ job' = [job EXCEPT ![w] = <<>>]
      /\ lock' = IF lock = w THEN NoOne ELSE lock
      /\ UNCHANGED <<files, writes, view>>
  BY DEF Crash
<1>2. \A v \in Writer : job'[v] = IF v = w THEN <<>> ELSE job[v]
  BY <1>1 DEF Typing
<1>3. Typing'
  BY <1>1 DEF Typing, files
<1>4. Held'
  BY <1>1, <1>2 DEF Held
<1>5. Pending'
  BY <1>1, <1>2, NothingGrows DEF Pending, files
<1>6. Committed'
  BY <1>1 DEF Committed, files
<1>. QED
  BY <1>3, <1>4, <1>5, <1>6

\* The reader looks at files and touches none.
LEMMA ReaderKeeps ==
  ASSUME ChainInv, Reader PROVE ChainInv'
<1>. USE DEF ChainInv
<1>1. /\ UNCHANGED <<files, lock, job, writes>>
      /\ view' \in View
      /\ view'.at \in {"anchor", "receipts", "bind"} => view'.target \in Target
      /\ \A x \in view'.states : x \in view.states \/
           (x[2].digest \in Digests(manifest, x[1]))
  <2>. USE DEF Check, Look, NoView
  <2>1. CASE ReadManifest
    BY <2>1, AbsentRecord DEF ReadManifest, View, Typing
  <2>2. CASE ListTargets
    BY <2>2, AbsentRecord DEF ListTargets, View, Typing
  <2>3. CASE ReadState
    <3>1. PICK t \in view.todo :
            Check(state[t] # Absent,
                  [view EXCEPT !.at = "anchor", !.target = t, !.state = state[t],
                               !.todo = @ \ {t}])
      BY <2>3 DEF ReadState
    <3>2. t \in Target /\ state[t] \in Record
      BY DEF View, Typing
    <3>3. CASE state[t] # Absent
      BY <3>1, <3>2, <3>3 DEF View, Typing
    <3>4. CASE state[t] = Absent
      BY <3>1, <3>4, AbsentRecord DEF View
    <3>. QED
      BY <3>3, <3>4
  <2>4. CASE ReadAnchor
    BY <2>4, AbsentRecord DEF ReadAnchor, View, Typing
  <2>5. CASE ReadReceipts
    BY <2>5, AbsentRecord DEF ReadReceipts, View, Typing
  <2>6. CASE BindState
    <3>. DEFINE t == view.target
                r == view.state
                ok == LedgerBound(manifest) /\ Bound(manifest, t, r)
    <3>1. t \in Target /\ r \in Record
      BY <2>6 DEF BindState, View, Typing
    <3>2. CASE ok
      <4>1. view' = [view EXCEPT !.at = "target", !.anchor = Nothing,
                                 !.states = @ \cup {<<t, r>>}]
        BY <2>6, <3>2 DEF BindState
      <4>2. r.digest \in Digests(manifest, t)
        <5>1. /\ manifest.chain[t] \in Seq(Entry) /\ manifest.chain[t] # <<>>
              /\ Last(manifest.chain[t]) = [attempt |-> r.attempt, digest |-> r.digest]
          BY <3>1, <3>2 DEF Bound, Typing, Manifest
        <5>. QED
          BY <5>1 DEF Last, Digests
      <4>3. view' \in View
        <5>1. view.states \cup {<<t, r>>} \in SUBSET (Target \X Record)
          BY <3>1 DEF View, Typing
        <5>. HIDE DEF t, r
        <5>. QED
          BY <4>1, <5>1 DEF View, Typing
      <4>4. view'.at = "target" /\ view'.states = view.states \cup {<<t, r>>}
        BY <4>1 DEF View, Typing
      <4>. QED
        BY <2>6, <4>2, <4>3, <4>4 DEF BindState
    <3>3. CASE ~ok
      BY <2>6, <3>3, AbsentRecord DEF BindState, View
    <3>. QED
      BY <3>2, <3>3
  <2>7. CASE Report
    BY <2>7, AbsentRecord DEF Report, View, Typing
  <2>. QED
    BY <2>1, <2>2, <2>3, <2>4, <2>5, <2>6, <2>7 DEF Reader
<1>2. Typing' /\ Held' /\ Pending' /\ Committed'
  BY <1>1 DEF Typing, Held, Pending, Committed, files
<1>. QED
  BY <1>2

LEMMA ChainInit == Init => ChainInv
<1>. SUFFICES ASSUME Init PROVE ChainInv
  OBVIOUS
<1>1. manifest \in Manifest
  BY DEF Init, Manifest, RunStatus
<1>2. NoView \in View
  BY AbsentRecord DEF NoView, View
<1>3. Typing
  BY <1>1, <1>2, AbsentRecord DEF Init, Typing, NoView
<1>4. Held /\ Committed
  BY DEF Init, Held, Committed, NoView
<1>5. Pending
  BY NothingGrows DEF Init, Pending
<1>. QED
  BY <1>3, <1>4, <1>5 DEF ChainInv

LEMMA ChainStep == ChainInv /\ [Next]_vars => ChainInv'
<1>. SUFFICES ASSUME ChainInv, [Next]_vars PROVE ChainInv'
  OBVIOUS
<1>1. CASE \E w \in Writer : WriteFile(w) \/ Crash(w) \/ Publish(w)
  BY <1>1, WriteFileKeeps, CrashKeeps, PublishStarts, StartsKeeps DEF ChainInv
<1>2. CASE \E w \in Writer, t \in Target : Method(w, t)
  BY <1>2, MethodStarts, StartsKeeps DEF ChainInv
<1>3. CASE \E w \in Writer, t \in Target : Send(w, t)
  BY <1>3 DEF Send, files, ChainInv, Typing, Held, Pending, Committed
<1>4. CASE Reader
  BY <1>4, ReaderKeeps
<1>5. CASE UNCHANGED vars
  BY <1>5 DEF vars, files, ChainInv, Typing, Held, Pending, Committed
<1>. QED
  BY <1>1, <1>2, <1>3, <1>4, <1>5 DEF Next, Method

\* The files have the shape the writers give them, one process at a time
\* replaces them, and the manifests it has ready name every record named so
\* far (_run_locked, _write_state_locked).
THEOREM ChainsGrow == Spec => []ChainInv
<1>. QED
  BY ChainInit, ChainStep, PTL DEF Spec

\* For any targets, processes, attempts and writes, and wherever a process dies:
\* a state that the reader without the lock returns was committed
\* (validate_durable_run).
THEOREM ReportsAreCommitted == Spec => []ReportCommitted
<1>1. ChainInv => ReportCommitted
  BY DEF ChainInv, Committed, ReportCommitted, Digests
<1>. QED
  BY <1>1, ChainsGrow, PTL

-----------------------------------------------------------------------------
(***************************************************************************)
(* ReceiptChain implements RunLog: whatever processes write and wherever   *)
(* they die, the chains of a run grow one entry at a time, in the order of *)
(* the attempts, and stop once a write was cut short.  They stop because a *)
(* torn run is refused by whoever takes the lock next.                     *)
(***************************************************************************)
\* a scheduled retry is of the next attempt, or of one that recovery has begun
\* and nobody has executed; z are the requests the provider has seen
Retries(z, t, r) ==
  r.status = "retry_scheduled" =>
    \/ r.next = r.attempt + 1
    \/ r.next = r.attempt /\ <<t, r.attempt>> \notin z

\* every request is of an earlier attempt, or this one has crossed
Remembers(z, t, r) ==
  \A n \in Int : <<t, n>> \in z => n < r.attempt \/ (n = r.attempt /\ r.effect)

Sound(z, t, r) == Retries(z, t, r) /\ Remembers(z, t, r)

UpTo(c, k) == \A t \in Target : \A i \in DOMAIN c[t] : c[t][i].digest <= k

Follows(c, t, n) ==
  IF c[t] = <<>> THEN n = 1 ELSE n \in {Last(c[t]).attempt, Last(c[t]).attempt + 1}

\* the chains d are the chains c with one entry more
OneMore(c, d) ==
  \E t \in Target, n \in Int, x \in 1 .. MaxWrites :
    /\ Follows(c, t, n)
    /\ \A u \in Target : \A i \in DOMAIN c[u] : c[u][i].digest # x
    /\ d = [c EXCEPT ![t] = Append(@, [attempt |-> n, digest |-> x])]

LogStep(m, n) == n.chain = m.chain \/ OneMore(m.chain, n.chain)

\* each manifest among the files s is a step from the one before it
Chaining(m, s) ==
  /\ \A i \in 1 .. Len(s) :
       IsManifest(s[i]) /\ (\A k \in 1 .. (i - 1) : ~IsManifest(s[k])) =>
         LogStep(m, s[i].value)
  /\ \A i, j \in 1 .. Len(s) :
       /\ i < j /\ IsManifest(s[i]) /\ IsManifest(s[j])
       /\ \A k \in (i + 1) .. (j - 1) : ~IsManifest(s[k])
       => LogStep(s[i].value, s[j].value)

IsState(p) == p.file = "state"

\* a state is written to a directory that is there by then
Housing(f, s) ==
  \A i \in 1 .. Len(s) : IsState(s[i]) =>
    \/ s[i].target \in f
    \/ \E j \in 1 .. (i - 1) : s[j] = Put("folder", s[i].target, s[i].target)

Written(s, k, z) ==
  \A i \in 1 .. Len(s) : /\ IsManifest(s[i]) => UpTo(s[i].value.chain, k)
                         /\ IsState(s[i]) => Sound(z, s[i].target, s[i].value)

Counted == writes \in Nat /\ writes <= MaxWrites /\ UpTo(manifest.chain, writes)

Planned == \A t \in Target : Sound(sent, t, state[t]) /\ (state[t] # Absent => t \in folder)

Jobs == \A w \in Writer : /\ Chaining(manifest, job[w])
                          /\ Housing(folder, job[w])
                          /\ Written(job[w], writes, sent)

\* what a torn run looks like to whoever opens it
Damaged ==
  \E t \in Target :
    \/ t \in folder /\ state[t] = Absent
    \/ /\ state[t] # Absent
       /\ \A i \in DOMAIN manifest.chain[t] : manifest.chain[t][i].digest # state[t].digest

Stopped == torn \in BOOLEAN /\ (torn => Damaged /\ \A w \in Writer : job[w] = <<>>)

Sending == sent \in SUBSET (Target \X Int)

LogInv == Counted /\ Planned /\ Jobs /\ Stopped /\ Sending

-----------------------------------------------------------------------------
LEMMA DamagedRefused == ASSUME Typing, Planned, Damaged PROVE ~Intact
<1>. SUFFICES ASSUME Intact PROVE FALSE
  OBVIOUS
<1>1. PICK t \in Target :
        \/ t \in folder /\ state[t] = Absent
        \/ /\ state[t] # Absent
           /\ \A i \in DOMAIN manifest.chain[t] :
                manifest.chain[t][i].digest # state[t].digest
  BY DEF Damaged
<1>2. t \in folder /\ state[t] # Absent
  BY <1>1 DEF Planned, Intact
<1>3. /\ manifest.chain[t] \in Seq(Entry) /\ manifest.chain[t] # <<>>
      /\ Last(manifest.chain[t]) = [attempt |-> state[t].attempt, digest |-> state[t].digest]
  BY <1>2 DEF Intact, Bound, Typing, Manifest
<1>. QED
  BY <1>1, <1>2, <1>3 DEF Last

\* what the holder of the lock knows of the records it has accepted
LEMMA Known ==
  ASSUME NEW t \in Target, Typing, Planned, Intact
  PROVE  /\ state[t] # Absent => /\ t \in folder
                                 /\ manifest.chain[t] # <<>>
                                 /\ Last(manifest.chain[t]).attempt = state[t].attempt
         /\ state[t] = Absent => manifest.chain[t] = <<>>
<1>1. CASE state[t] # Absent
  <2>1. t \in folder
    BY <1>1 DEF Planned
  <2>2. Bound(manifest, t, state[t])
    BY <2>1 DEF Intact
  <2>3. /\ manifest.chain[t] # <<>>
        /\ Last(manifest.chain[t]) = [attempt |-> state[t].attempt, digest |-> state[t].digest]
    BY <2>2 DEF Bound
  <2>. QED
    BY <1>1, <2>1, <2>3
<1>2. CASE state[t] = Absent
  BY <1>2 DEF Intact
<1>. QED
  BY <1>1, <1>2

\* one more entry, with the digest that comes next
LEMMA ChainedSteps ==
  ASSUME NEW m \in Manifest, NEW t \in Target, NEW u \in Record, NEW k \in Nat,
         UpTo(m.chain, k), u.digest = k + 1, k + 1 <= MaxWrites,
         Follows(m.chain, t, u.attempt)
  PROVE  /\ LogStep(m, Chained(m, t, u))
         /\ UpTo(Chained(m, t, u).chain, k + 1)
         /\ Last(Chained(m, t, u).chain[t]).attempt = u.attempt
         /\ Chained(m, t, u).chain[t] # <<>>
<1>. DEFINE e == [attempt |-> u.attempt, digest |-> u.digest]
            c == m.chain
            d == [c EXCEPT ![t] = Append(@, e)]
<1>1. /\ c \in [Target -> Seq(Entry)] /\ e \in Entry /\ u.attempt \in Int
      /\ Chained(m, t, u).chain = d
  BY DEF Chained, Manifest, Record, Entry
<1>2. MaxWrites \in Nat
  BY ReceiptChainAssumption
<1>3. OneMore(c, d)
  <2>1. k + 1 \in 1 .. MaxWrites
    BY <1>2
  <2>2. \A v \in Target : \A i \in DOMAIN c[v] : c[v][i].digest # k + 1
    <3>. SUFFICES ASSUME NEW v \in Target, NEW i \in DOMAIN c[v] PROVE c[v][i].digest # k + 1
      OBVIOUS
    <3>1. c[v][i] \in Entry
      BY <1>1
    <3>. QED
      BY <3>1 DEF UpTo, Entry
  <2>3. Follows(c, t, u.attempt) /\ d = [c EXCEPT ![t] = Append(@, [attempt |-> u.attempt, digest |-> k + 1])]
    OBVIOUS
  <2>. HIDE DEF c, d
  <2>. QED
    BY <1>1, <2>1, <2>2, <2>3 DEF OneMore
<1>4. /\ d[t] = Append(c[t], e) /\ c[t] \in Seq(Entry)
      /\ \A v \in Target : v # t => d[v] = c[v]
  BY <1>1
<1>5. /\ DOMAIN d[t] = 1 .. (Len(c[t]) + 1) /\ Len(c[t]) \in Nat /\ DOMAIN c[t] = 1 .. Len(c[t])
      /\ \A i \in 1 .. Len(c[t]) : d[t][i] = c[t][i]
      /\ d[t][Len(c[t]) + 1] = e
      /\ Len(d[t]) = Len(c[t]) + 1
  <2>. HIDE DEF c, d, e
  <2>. QED
    BY <1>1, <1>4
<1>6. UpTo(d, k + 1)
  <2>. SUFFICES ASSUME NEW v \in Target, NEW i \in DOMAIN d[v] PROVE d[v][i].digest <= k + 1
    BY DEF UpTo
  <2>1. CASE v # t
    <3>1. d[v][i] = c[v][i] /\ i \in DOMAIN c[v] /\ c[v][i] \in Entry
      BY <1>1, <1>4, <2>1
    <3>. QED
      BY <3>1 DEF UpTo, Entry
  <2>2. CASE v = t /\ i \in 1 .. Len(c[t])
    <3>1. d[v][i] = c[t][i] /\ i \in DOMAIN c[t] /\ c[t][i] \in Entry
      BY <1>4, <1>5, <2>2
    <3>. QED
      BY <3>1 DEF UpTo, Entry
  <2>3. CASE v = t /\ i = Len(c[t]) + 1
    BY <1>5, <2>3
  <2>. QED
    BY <1>5, <2>1, <2>2, <2>3
<1>7. d[t] # <<>> /\ Last(d[t]).attempt = u.attempt
  BY <1>5 DEF Last
<1>. QED
  BY <1>1, <1>3, <1>6, <1>7 DEF LogStep

-----------------------------------------------------------------------------
(* The files of a method, one by one.                                       *)

Fine(s, k) == Chaining(manifest, s) /\ Housing(folder, s) /\ Written(s, k, sent)

\* the three files of a record
LEMMA WriteStateFiles ==
  ASSUME NEW m \in Manifest, NEW t \in Target, NEW u \in Record
  PROVE  /\ WriteState(m, t, u) \in Seq(Item) /\ Len(WriteState(m, t, u)) = 3
         /\ WriteState(m, t, u)[1] = Put("state", t, u)
         /\ WriteState(m, t, u)[2] = Put("receipt", t, u)
         /\ WriteState(m, t, u)[3] = Put("manifest", t, Chained(m, t, u))
BY WriteStateGrows DEF WriteState

LEMMA Puts ==
  ASSUME NEW t, NEW v
  PROVE  /\ IsState(Put("state", t, v)) /\ ~IsManifest(Put("state", t, v))
         /\ ~IsState(Put("receipt", t, v)) /\ ~IsManifest(Put("receipt", t, v))
         /\ ~IsState(Put("manifest", t, v)) /\ IsManifest(Put("manifest", t, v))
         /\ ~IsState(Put("folder", t, v)) /\ ~IsManifest(Put("folder", t, v))
         /\ ~IsState(Put("candidate", t, v)) /\ ~IsManifest(Put("candidate", t, v))
         /\ ~IsState(Put("recovery", t, v)) /\ ~IsManifest(Put("recovery", t, v))
         /\ \A f : Put(f, t, v).target = t /\ Put(f, t, v).value = v
BY DEF Put, IsState, IsManifest

LEMMA OneWriteFine ==
  ASSUME NEW s \in Seq(Item), NEW n \in Manifest, NEW t \in Target, NEW u \in Record, NEW k,
         Len(s) = 3,
         s[1] = Put("state", t, u), s[2] = Put("receipt", t, u), s[3] = Put("manifest", t, n),
         LogStep(manifest, n), UpTo(n.chain, k), Sound(sent, t, u), t \in folder
  PROVE  Fine(s, k)
<1>1. \A i \in 1 .. Len(s) : IsManifest(s[i]) => i = 3 /\ s[i].value = n
  BY Puts
<1>2. \A i \in 1 .. Len(s) : IsState(s[i]) => i = 1 /\ s[i].value = u /\ s[i].target = t
  BY Puts
<1>3. Chaining(manifest, s)
  BY <1>1, <1>2 DEF Chaining
<1>4. Housing(folder, s)
  BY <1>1, <1>2 DEF Housing
<1>5. Written(s, k, sent)
  BY <1>1, <1>2 DEF Written
<1>. QED
  BY <1>3, <1>4, <1>5 DEF Fine

LEMMA PrefixedFine ==
  ASSUME NEW s \in Seq(Item), NEW n \in Manifest, NEW t \in Target, NEW u \in Record, NEW k,
         NEW a \in Item, ~IsManifest(a), ~IsState(a),
         Len(s) = 4, s[1] = a,
         s[2] = Put("state", t, u), s[3] = Put("receipt", t, u), s[4] = Put("manifest", t, n),
         LogStep(manifest, n), UpTo(n.chain, k), Sound(sent, t, u),
         t \in folder \/ a = Put("folder", t, t)
  PROVE  Fine(s, k)
<1>1. \A i \in 1 .. Len(s) : IsManifest(s[i]) => i = 4 /\ s[i].value = n
  BY Puts
<1>2. \A i \in 1 .. Len(s) : IsState(s[i]) => i = 2 /\ s[i].value = u /\ s[i].target = t
  BY Puts
<1>3. Chaining(manifest, s)
  BY <1>1, <1>2 DEF Chaining
<1>4. Housing(folder, s)
  BY <1>1, <1>2 DEF Housing
<1>5. Written(s, k, sent)
  BY <1>1, <1>2 DEF Written
<1>. QED
  BY <1>3, <1>4, <1>5 DEF Fine

LEMMA TwoWritesFine ==
  ASSUME NEW s \in Seq(Item), NEW n \in Manifest, NEW l \in Manifest, NEW t \in Target,
         NEW u \in Record, NEW v \in Record, NEW k,
         Len(s) = 6,
         s[1] = Put("state", t, u), s[2] = Put("receipt", t, u), s[3] = Put("manifest", t, n),
         s[4] = Put("state", t, v), s[5] = Put("receipt", t, v), s[6] = Put("manifest", t, l),
         LogStep(manifest, n), LogStep(n, l), UpTo(n.chain, k), UpTo(l.chain, k),
         Sound(sent, t, u), Sound(sent, t, v), t \in folder
  PROVE  Fine(s, k)
<1>1. /\ ~IsManifest(s[1]) /\ ~IsManifest(s[2]) /\ ~IsManifest(s[4]) /\ ~IsManifest(s[5])
      /\ ~IsState(s[2]) /\ ~IsState(s[3]) /\ ~IsState(s[5]) /\ ~IsState(s[6])
  BY Puts
<1>2. /\ IsManifest(s[3]) /\ s[3].value = n /\ s[6].value = l
      /\ s[1].value = u /\ s[4].value = v /\ s[1].target = t /\ s[4].target = t
  BY DEF Put, IsManifest
<1>3. ASSUME NEW i \in 1 .. Len(s)
      PROVE  i = 1 \/ i = 2 \/ i = 3 \/ i = 4 \/ i = 5 \/ i = 6
  OBVIOUS
<1>4. \A i \in 1 .. Len(s) : IsManifest(s[i]) => i = 3 \/ i = 6
  BY <1>1, <1>3
<1>5. \A i \in 1 .. Len(s) : IsState(s[i]) => i = 1 \/ i = 4
  BY <1>1, <1>3
<1>6. Chaining(manifest, s)
  BY <1>2, <1>4 DEF Chaining
<1>7. Housing(folder, s)
  BY <1>2, <1>5 DEF Housing
<1>8. Written(s, k, sent)
  BY <1>2, <1>4, <1>5 DEF Written
<1>. QED
  BY <1>6, <1>7, <1>8 DEF Fine

\* the same chains: nothing is recorded
LEMMA SameChainFine ==
  ASSUME NEW s \in Seq(Item), NEW n \in Manifest, NEW k, NEW a \in Item,
         Len(s) > 0,
         \A i \in 1 .. Len(s) : i < Len(s) => ~IsManifest(s[i]) /\ ~IsState(s[i]),
         s[Len(s)] = a, ~IsState(a), a.value = n,
         n.chain = manifest.chain, UpTo(manifest.chain, k)
  PROVE  Fine(s, k)
<1>1. \A i \in 1 .. Len(s) : /\ IsManifest(s[i]) => i = Len(s) /\ s[i].value = n
                            /\ ~IsState(s[i])
  OBVIOUS
<1>2. LogStep(manifest, n)
  BY DEF LogStep
<1>3. Chaining(manifest, s)
  BY <1>1, <1>2 DEF Chaining
<1>. QED
  BY <1>1, <1>3 DEF Fine, Housing, Written

-----------------------------------------------------------------------------
\* What the methods have in common: they open a run they accept, for files
\* that record at most the next entries of the chains.
Opens(w) ==
  \E s \in Seq(Item) :
    /\ Fine(s, writes')
    /\ lock = NoOne /\ job' = [job EXCEPT ![w] = s]
    /\ writes' \in Nat /\ writes <= writes' /\ writes' <= MaxWrites
    /\ Intact
    /\ UNCHANGED <<files, torn, sent>>

LEMMA BeginOpens ==
  ASSUME NEW w \in Writer, NEW s \in Seq(Item), NEW k \in Nat, Counted,
         Fine(s, writes + k), Begin(w, s, k)
  PROVE  Opens(w)
<1>1. /\ lock = NoOne /\ job' = [job EXCEPT ![w] = s] /\ Intact
      /\ writes' = writes + k /\ writes' <= MaxWrites /\ UNCHANGED <<files, torn, sent>>
  BY DEF Begin, Locked, Accepted
<1>2. writes' \in Nat /\ writes <= writes'
  BY <1>1 DEF Counted
<1>. QED
  BY <1>1, <1>2 DEF Opens

\* what a method that has begun knows
LEMMA BeginKnows ==
  ASSUME NEW w, NEW s, NEW k \in Nat, Counted, Begin(w, s, k)
  PROVE  Intact /\ writes + k <= MaxWrites /\ Digest = writes + 1 /\ writes \in Nat
BY DEF Begin, Accepted, Counted, Digest

\* a record of the same attempt
LEMMA SameAttempt ==
  ASSUME NEW t, NEW r, NEW s, Sound(sent, t, r), s.attempt = r.attempt, r.effect => s.effect,
         s.status = "retry_scheduled" => s.next = s.attempt + 1
  PROVE  Sound(sent, t, s)
BY DEF Sound, Retries, Remembers

\* ... and the same record with another digest
LEMMA Redated ==
  ASSUME NEW t, NEW r, NEW s, Sound(sent, t, r), s.attempt = r.attempt, s.effect = r.effect,
         s.status = r.status, s.next = r.next
  PROVE  Sound(sent, t, s)
BY DEF Sound, Retries, Remembers

\* a record of the next attempt: no request can be of it
LEMMA NextAttempt ==
  ASSUME NEW t, NEW r \in Record, NEW s, Sound(sent, t, r), s.attempt = r.attempt + 1,
         s.status = "retry_scheduled" => s.next = s.attempt
  PROVE  Sound(sent, t, s)
<1>1. ASSUME NEW n \in Int, <<t, n>> \in sent PROVE n < s.attempt
  <2>1. n <= r.attempt
    BY <1>1 DEF Sound, Remembers, Record
  <2>. QED
    BY <2>1 DEF Record
<1>2. s.attempt \in Int
  BY DEF Record
<1>. QED
  BY <1>1, <1>2 DEF Sound, Retries, Remembers

LEMMA UpdateOpens ==
  ASSUME NEW w \in Writer, NEW t \in Target, NEW s \in Record, Typing, Counted, Planned,
         state[t] # Absent, s.attempt = state[t].attempt, Sound(sent, t, s),
         Update(w, t, s, <<>>)
  PROVE  Opens(w)
<1>. DEFINE u == [s EXCEPT !.digest = Digest]
            p == WriteState(manifest, t, u)
            n == Chained(manifest, t, u)
<1>1. Begin(w, <<>> \o p, 1)
  BY DEF Update
<1>2. Intact /\ writes + 1 <= MaxWrites /\ Digest = writes + 1 /\ writes \in Nat
  BY <1>1, BeginKnows
<1>3. u \in Record /\ u.digest = writes + 1 /\ u.attempt = s.attempt /\ Sound(sent, t, u)
  <2>1. /\ u \in Record /\ u.digest = writes + 1 /\ u.attempt = s.attempt
        /\ u.status = s.status /\ u.next = s.next /\ u.effect = s.effect
    BY <1>2 DEF Record
  <2>. HIDE DEF u
  <2>. QED
    BY <2>1, Redated
<1>4. t \in folder /\ Follows(manifest.chain, t, u.attempt)
  BY <1>2, <1>3, Known DEF Follows
<1>5. LogStep(manifest, n) /\ UpTo(n.chain, writes + 1)
  BY <1>2, <1>3, <1>4, ChainedSteps DEF Typing, Counted
<1>6. /\ p \in Seq(Item) /\ Len(p) = 3
      /\ p[1] = Put("state", t, u) /\ p[2] = Put("receipt", t, u) /\ p[3] = Put("manifest", t, n)
  BY <1>3, WriteStateFiles DEF Typing
<1>7. n \in Manifest
  BY <1>3, ChainedCovers DEF Typing
<1>. HIDE DEF p, n, u
<1>8. Fine(p, writes + 1)
  BY <1>3, <1>4, <1>5, <1>6, <1>7, OneWriteFine
<1>9. <<>> \o p = p
  BY <1>6, ConcatEmptySeq
<1>. QED
  BY <1>1, <1>6, <1>8, <1>9, BeginOpens

\* a file of its own, then a record
LEMMA OneThenWriteOpens ==
  ASSUME NEW w \in Writer, NEW t \in Target, NEW u \in Record, NEW m \in Manifest,
         NEW a \in Item, Typing, Counted, Planned,
         ~IsManifest(a), ~IsState(a), t \in folder \/ a = Put("folder", t, t),
         m.chain = manifest.chain, Follows(manifest.chain, t, u.attempt),
         u.digest = Digest, Sound(sent, t, u),
         Begin(w, <<a>> \o WriteState(m, t, u), 1)
  PROVE  Opens(w)
<1>. DEFINE p == WriteState(m, t, u)
            n == Chained(m, t, u)
            q == <<a>>
            s == q \o p
<1>1. Intact /\ writes + 1 <= MaxWrites /\ Digest = writes + 1 /\ writes \in Nat
  BY BeginKnows
<1>2. LogStep(m, n) /\ UpTo(n.chain, writes + 1)
  BY <1>1, ChainedSteps DEF Counted
<1>3. LogStep(manifest, n)
  BY <1>2 DEF LogStep
<1>4. n \in Manifest
  BY ChainedCovers
<1>5. /\ p \in Seq(Item) /\ Len(p) = 3
      /\ p[1] = Put("state", t, u) /\ p[2] = Put("receipt", t, u) /\ p[3] = Put("manifest", t, n)
  BY WriteStateFiles
<1>6. q \in Seq(Item) /\ Len(q) = 1 /\ q[1] = a
  OBVIOUS
<1>7. Begin(w, s, 1)
  OBVIOUS
<1>. HIDE DEF p, n, q
<1>8. /\ s \in Seq(Item) /\ Len(s) = 4 /\ s[1] = a
      /\ s[2] = p[1] /\ s[3] = p[2] /\ s[4] = p[3]
  <2>1. /\ s \in Seq(Item) /\ Len(s) = Len(q) + Len(p)
        /\ \A i \in 1 .. (Len(q) + Len(p)) :
             s[i] = IF i <= Len(q) THEN q[i] ELSE p[i - Len(q)]
    BY <1>5, <1>6, Concatenated, Zenon
  <2>. HIDE DEF s
  <2>. QED
    BY <1>5, <1>6, <2>1
<1>. HIDE DEF s
<1>9. Fine(s, writes + 1)
  BY <1>2, <1>3, <1>4, <1>5, <1>8, PrefixedFine
<1>. QED
  BY <1>7, <1>8, <1>9, BeginOpens

LEMMA StartAttemptOpens ==
  ASSUME NEW w \in Writer, NEW t \in Target, NEW n \in Int, Typing, Counted, Planned,
         \/ state[t] = Absent /\ n = 1
         \/ state[t] # Absent /\ n = state[t].attempt /\ <<t, n>> \notin sent
         \/ state[t] # Absent /\ n = state[t].attempt + 1,
         StartAttempt(w, t, n)
  PROVE  Opens(w)
<1>. DEFINE u == [Absent EXCEPT !.status = "running", !.attempt = n, !.digest = Digest]
            a == Put("folder", t, t)
            s == <<a>> \o WriteState(manifest, t, u)
<1>1. Begin(w, s, 1)
  BY DEF StartAttempt, MakeFolder
<1>2. Intact /\ Digest \in Int
  BY <1>1, BeginKnows DEF Digest, Typing
<1>3. u \in Record /\ u.digest = Digest /\ u.attempt = n /\ Sound(sent, t, u)
  <2>1. u \in Record
    BY <1>2, AbsentRecord DEF Record, Status
  <2>2. u.status = "running" /\ u.digest = Digest /\ u.attempt = n
    BY DEF Absent
  <2>3. ASSUME NEW i \in Int, <<t, i>> \in sent PROVE i < n
    <3>1. i < state[t].attempt \/ (i = state[t].attempt /\ state[t].effect)
      BY <2>3 DEF Planned, Sound, Remembers
    <3>2. state[t].attempt \in Int
      BY DEF Typing, Record
    <3>3. state[t] = Absent => state[t].attempt = 0
      BY DEF Absent
    <3>. QED
      BY <2>3, <3>1, <3>2, <3>3
  <2>. HIDE DEF u
  <2>. QED
    BY <2>1, <2>2, <2>3 DEF Sound, Retries, Remembers
<1>4. a \in Item /\ ~IsManifest(a) /\ ~IsState(a)
  BY DEF Put, Item, IsManifest, IsState
<1>5. Follows(manifest.chain, t, n)
  BY <1>2, Known DEF Follows
<1>. HIDE DEF u
<1>. QED
  BY <1>1, <1>3, <1>4, <1>5, OneThenWriteOpens DEF Typing

LEMMA CandidateOpens ==
  ASSUME NEW w \in Writer, NEW t \in Target, Typing, Counted, Planned, SaveCandidate(w, t)
  PROVE  Opens(w)
<1>. DEFINE u == [state[t] EXCEPT !.status = "success_candidate", !.candidate = Digest,
                                  !.digest = Digest]
            a == Put("candidate", t, [attempt |-> state[t].attempt, digest |-> Digest])
            s == <<a>> \o WriteState(manifest, t, u)
<1>1. Begin(w, s, 1)
  BY DEF SaveCandidate, Update
<1>2. Intact /\ Digest \in Int /\ state[t] \in Record /\ state[t].attempt \in Int
  BY <1>1, BeginKnows DEF Digest, Typing, Record
<1>3. u \in Record /\ u.digest = Digest /\ u.attempt = state[t].attempt /\ Sound(sent, t, u)
  <2>1. /\ u \in Record /\ u.digest = Digest /\ u.attempt = state[t].attempt
        /\ u.effect = state[t].effect /\ u.status = "success_candidate"
    BY <1>2 DEF Record, Status
  <2>. HIDE DEF u
  <2>. QED
    BY <2>1, SameAttempt DEF Planned
<1>4. a \in Item /\ ~IsManifest(a) /\ ~IsState(a)
  BY <1>2 DEF Put, Item, IsManifest, IsState, Entry
<1>5. state[t] # Absent
  BY DEF SaveCandidate, Executing, Absent
<1>6. t \in folder /\ Follows(manifest.chain, t, state[t].attempt)
  BY <1>2, <1>5, Known DEF Follows
<1>. HIDE DEF u
<1>. QED
  BY <1>1, <1>3, <1>4, <1>6, OneThenWriteOpens DEF Typing

LEMMA DecidedKeepsChain ==
  ASSUME NEW t \in Target, NEW to, NEW file, Typing
  PROVE  Decided(manifest, t, to, file).chain = manifest.chain
BY DEF Decided, Typing, Manifest

LEMMA RecoverRetryOpens ==
  ASSUME NEW w \in Writer, NEW t \in Target, Typing, Counted, Planned, RecoverRetry(w, t)
  PROVE  Opens(w)
<1>. DEFINE to == state[t].attempt + 1
            m == Decided(manifest, t, to, Digest)
            u == [state[t] EXCEPT !.status = "retry_scheduled", !.attempt = to,
                    !.next = to, !.recovered = Digest, !.digest = Digest]
            a == Put("recovery", t, Digest)
            s == <<a>> \o WriteState(m, t, u)
<1>1. Begin(w, s, 1)
  BY DEF RecoverRetry, RecoveryReceipt
<1>2. /\ Intact /\ Digest \in Int /\ state[t] \in Record /\ state[t].attempt \in Int
      /\ to \in Int
  BY <1>1, BeginKnows DEF Digest, Typing, Record
<1>3. u \in Record
  BY <1>2, Altered, StatusNames, Zenon
<1>4. u.digest = Digest /\ u.attempt = to /\ u.next = to
  BY <1>2 DEF Record
<1>5. Sound(sent, t, u)
  <2>. HIDE DEF u
  <2>. QED
    BY <1>2, <1>4, NextAttempt DEF Planned
<1>6. a \in Item /\ ~IsManifest(a) /\ ~IsState(a)
  BY <1>2 DEF Put, Item, IsManifest, IsState
<1>7. state[t] # Absent
  BY DEF RecoverRetry, Undecided, Absent
<1>8. t \in folder /\ Follows(manifest.chain, t, to)
  BY <1>2, <1>7, Known DEF Follows
<1>9. m \in Manifest /\ m.chain = manifest.chain
  BY <1>2, DecidedCovers, DecidedKeepsChain
<1>. HIDE DEF u, m, to
<1>. QED
  BY <1>1, <1>3, <1>4, <1>5, <1>6, <1>8, <1>9, OneThenWriteOpens

LEMMA RecoverFailOpens ==
  ASSUME NEW w \in Writer, NEW t \in Target, Typing, Counted, Planned, RecoverFail(w, t)
  PROVE  Opens(w)
<1>. DEFINE m == Decided(manifest, t, state[t].attempt, Digest)
            a == Put("recovery", t, Digest)
            b == Put("manifest", t, m)
            q == <<a>>
            r == <<b>>
            s == q \o r
<1>1. Begin(w, s, 1)
  BY DEF RecoverFail, RecoveryReceipt
<1>2. Digest \in Int /\ state[t].attempt \in Int
  BY DEF Digest, Typing, Record
<1>3. m \in Manifest /\ m.chain = manifest.chain
  BY <1>2, DecidedCovers, DecidedKeepsChain
<1>4. a \in Item /\ ~IsManifest(a) /\ ~IsState(a)
  BY <1>2 DEF Put, Item, IsManifest, IsState
<1>5. b \in Item /\ ~IsState(b) /\ b.value = m
  BY <1>3 DEF Put, Item, IsState
<1>6. writes \in Nat /\ UpTo(manifest.chain, writes + 1)
  <2>1. writes \in Nat
    BY DEF Counted
  <2>. SUFFICES ASSUME NEW v \in Target, NEW i \in DOMAIN manifest.chain[v]
                PROVE  manifest.chain[v][i].digest <= writes + 1
    BY <2>1 DEF UpTo
  <2>2. manifest.chain[v] \in Seq(Entry)
    BY DEF Typing, Manifest
  <2>3. manifest.chain[v][i] \in Entry
    BY <2>2
  <2>. QED
    BY <2>1, <2>3 DEF Counted, UpTo, Entry
<1>. HIDE DEF a, b, m
<1>7. /\ q \in Seq(Item) /\ Len(q) = 1 /\ q[1] = a
      /\ r \in Seq(Item) /\ Len(r) = 1 /\ r[1] = b
  BY <1>4, <1>5
<1>. HIDE DEF q, r
<1>8. s \in Seq(Item) /\ Len(s) = 2 /\ s[1] = a /\ s[2] = b
  <2>1. /\ s \in Seq(Item) /\ Len(s) = Len(q) + Len(r)
        /\ \A i \in 1 .. (Len(q) + Len(r)) :
             s[i] = IF i <= Len(q) THEN q[i] ELSE r[i - Len(q)]
    BY <1>7, Concatenated, Zenon
  <2>. HIDE DEF s
  <2>. QED
    BY <1>7, <2>1
<1>. HIDE DEF s
<1>9. \A i \in 1 .. Len(s) : i < Len(s) => s[i] = a
  BY <1>8
<1>10. Len(s) > 0 /\ s[Len(s)] = b
  BY <1>8
<1>11. Fine(s, writes + 1)
  BY <1>3, <1>4, <1>5, <1>6, <1>8, <1>9, <1>10, SameChainFine
<1>. QED
  BY <1>1, <1>8, <1>11, BeginOpens

LEMMA PublishOpens ==
  ASSUME NEW w \in Writer, Typing, Counted, Planned, Publish(w) PROVE Opens(w)
<1>. PICK x \in RunStatus :
       Begin(w, <<Put("manifest", NoOne, [manifest EXCEPT !.status = x])>>, 0)
  BY DEF Publish, RunStatus
<1>. DEFINE m == [manifest EXCEPT !.status = x]
            b == Put("manifest", NoOne, m)
            s == <<b>>
<1>1. m \in Manifest /\ m.chain = manifest.chain
  BY DEF Typing, Manifest
<1>2. b \in Item /\ ~IsState(b) /\ b.value = m
  BY <1>1 DEF Put, Item, IsState
<1>3. Begin(w, s, 0)
  OBVIOUS
<1>. HIDE DEF m, b
<1>4. s \in Seq(Item) /\ Len(s) = 1 /\ s[1] = b
  BY <1>2
<1>5. UpTo(manifest.chain, writes + 0)
  BY DEF Counted
<1>. HIDE DEF s
<1>6. Fine(s, writes + 0)
  BY <1>1, <1>2, <1>4, <1>5, SameChainFine
<1>. QED
  BY <1>3, <1>4, <1>6, BeginOpens

\* two records, the second on top of the first
LEMMA TwoWritesOpen ==
  ASSUME NEW w \in Writer, NEW t \in Target, NEW c \in Record, NEW u \in Record,
         Typing, Counted, Planned, state[t] # Absent,
         c.attempt = state[t].attempt, c.digest = Digest, Sound(sent, t, c),
         u.attempt = state[t].attempt, u.digest = Digest + 1, Sound(sent, t, u),
         Begin(w, WriteState(manifest, t, c) \o WriteState(Chained(manifest, t, c), t, u), 2)
  PROVE  Opens(w)
<1>. DEFINE n == Chained(manifest, t, c)
            l == Chained(n, t, u)
            p == WriteState(manifest, t, c)
            q == WriteState(n, t, u)
            s == p \o q
<1>1. /\ Intact /\ writes + 2 <= MaxWrites /\ Digest = writes + 1 /\ writes \in Nat
      /\ MaxWrites \in Nat
  BY BeginKnows, ReceiptChainAssumption
<1>2. t \in folder /\ Follows(manifest.chain, t, c.attempt)
  BY <1>1, Known DEF Follows
<1>3. n \in Manifest /\ writes + 1 \in Nat /\ writes + 1 <= MaxWrites
  BY <1>1, ChainedCovers DEF Typing
<1>4. /\ LogStep(manifest, n) /\ UpTo(n.chain, writes + 1)
      /\ Last(n.chain[t]).attempt = c.attempt /\ n.chain[t] # <<>>
  BY <1>1, <1>2, <1>3, ChainedSteps DEF Typing, Counted
<1>5. l \in Manifest
  BY <1>3, ChainedCovers
<1>6. Follows(n.chain, t, u.attempt)
  BY <1>4 DEF Follows
<1>7. /\ p \in Seq(Item) /\ Len(p) = 3
      /\ p[1] = Put("state", t, c) /\ p[2] = Put("receipt", t, c) /\ p[3] = Put("manifest", t, n)
      /\ q \in Seq(Item) /\ Len(q) = 3
      /\ q[1] = Put("state", t, u) /\ q[2] = Put("receipt", t, u) /\ q[3] = Put("manifest", t, l)
  BY <1>3, WriteStateFiles DEF Typing
<1>8. LogStep(n, l) /\ UpTo(l.chain, writes + 2)
  <2>1. u.digest = (writes + 1) + 1 /\ (writes + 1) + 1 <= MaxWrites
        /\ (writes + 1) + 1 = writes + 2
    BY <1>1
  <2>. HIDE DEF n
  <2>. QED
    BY <1>3, <1>4, <1>6, <2>1, ChainedSteps
<1>9. Begin(w, s, 2)
  OBVIOUS
<1>. HIDE DEF n, l, p, q
<1>10. UpTo(n.chain, writes + 2)
  <2>. SUFFICES ASSUME NEW v \in Target, NEW i \in DOMAIN n.chain[v]
                PROVE  n.chain[v][i].digest <= writes + 2
    BY DEF UpTo
  <2>1. n.chain[v] \in Seq(Entry)
    BY <1>3 DEF Manifest
  <2>2. n.chain[v][i] \in Entry
    BY <2>1
  <2>. QED
    BY <1>1, <1>4, <2>2 DEF UpTo, Entry
<1>11. /\ s \in Seq(Item) /\ Len(s) = 6
       /\ s[1] = p[1] /\ s[2] = p[2] /\ s[3] = p[3]
       /\ s[4] = q[1] /\ s[5] = q[2] /\ s[6] = q[3]
  <2>1. /\ s \in Seq(Item) /\ Len(s) = Len(p) + Len(q)
        /\ \A i \in 1 .. (Len(p) + Len(q)) :
             s[i] = IF i <= Len(p) THEN p[i] ELSE q[i - Len(p)]
    BY <1>7, Concatenated, Zenon
  <2>. HIDE DEF s
  <2>. QED
    BY <1>7, <2>1
<1>. HIDE DEF s
<1>12. Fine(s, writes + 2)
  BY <1>2, <1>3, <1>4, <1>5, <1>7, <1>8, <1>10, <1>11, TwoWritesFine
<1>. QED
  BY <1>9, <1>11, <1>12, BeginOpens

LEMMA ResolveOpens ==
  ASSUME NEW w \in Writer, NEW t \in Target, Typing, Counted, Planned, Resolve(w, t)
  PROVE  Opens(w)
<1>. DEFINE c == [state[t] EXCEPT !.digest = Digest]
            u(status, n) == [c EXCEPT !.status = status, !.next = n, !.resolved = TRUE,
                                      !.digest = Digest + 1]
            p(r) == WriteState(manifest, t, c) \o WriteState(Chained(manifest, t, c), t, r)
            good(r) == r.attempt = state[t].attempt /\ r.digest = Digest + 1 /\ Sound(sent, t, r)
<1>1. Digest \in Int /\ state[t] \in Record /\ state[t].attempt \in Int
  BY DEF Digest, Typing, Record
<1>2. /\ c \in Record /\ c.attempt = state[t].attempt /\ c.digest = Digest
      /\ c.status = state[t].status /\ c.effect = state[t].effect /\ c.next = state[t].next
  BY <1>1 DEF Record
<1>3. c.status = "ambiguous"
  BY DEF Resolve
<1>4. Sound(sent, t, c)
  <2>. HIDE DEF c
  <2>. QED
    BY <1>2, Redated DEF Planned
<1>5. state[t] # Absent
  BY <1>2, <1>3 DEF Absent
<1>6. \E r \in Record : Begin(w, p(r), 2) /\ good(r)
  <2>0. 0 \in Int /\ c.attempt + 1 \in Int /\ Digest + 1 \in Int
    BY <1>1, <1>2
  <2>1. u("failed", 0) \in Record
    BY <1>2, <2>0, Altered, StatusNames, Zenon
  <2>2. u("retry_scheduled", c.attempt + 1) \in Record
    BY <1>2, <2>0, Altered, StatusNames, Zenon
  <2>3. \A x, n : /\ u(x, n).status = x /\ u(x, n).next = n /\ u(x, n).digest = Digest + 1
                   /\ u(x, n).attempt = c.attempt /\ u(x, n).effect = c.effect
    BY <1>2 DEF Record
  <2>4. good(u("failed", 0)) /\ good(u("retry_scheduled", c.attempt + 1))
    <3>. DEFINE a == u("failed", 0)
                b == u("retry_scheduled", c.attempt + 1)
    <3>1. /\ a.status = "failed" /\ a.attempt = c.attempt /\ a.effect = c.effect
          /\ a.digest = Digest + 1
          /\ b.next = c.attempt + 1 /\ b.attempt = c.attempt /\ b.effect = c.effect
          /\ b.digest = Digest + 1
      BY <2>3
    <3>. HIDE DEF a, b, c
    <3>2. Sound(sent, t, a) /\ Sound(sent, t, b)
      BY <1>4, <3>1, SameAttempt
    <3>3. good(a) /\ good(b)
      BY <1>2, <3>1, <3>2
    <3>. QED
      BY <3>3 DEF a, b
  <2>5. Begin(w, p(u("failed", 0)), 2) \/ Begin(w, p(u("retry_scheduled", c.attempt + 1)), 2)
    BY DEF Resolve
  <2>. HIDE DEF u, good, p
  <2>. QED
    BY <2>1, <2>2, <2>4, <2>5
<1>7. PICK r \in Record : Begin(w, p(r), 2) /\ good(r)
  BY <1>6
<1>. HIDE DEF c
<1>. QED
  BY <1>2, <1>4, <1>5, <1>7, TwoWritesOpen

LEMMA MethodOpens ==
  ASSUME NEW w \in Writer, NEW t \in Target, Typing, Counted, Planned, Method(w, t)
  PROVE  Opens(w)
<1>1. /\ state[t] \in Record /\ state[t].attempt \in Int /\ state[t].next \in Int
      /\ Absent.status = "absent"
  BY DEF Typing, Record, Absent
<1>2. CASE Prepare(w, t)
  <2>1. CASE state[t] = Absent /\ StartAttempt(w, t, 1)
    <3>. DEFINE one == 1
    <3>1. one \in Int /\ one = 1 /\ StartAttempt(w, t, one)
      BY <2>1
    <3>. HIDE DEF one
    <3>. QED
      BY <2>1, <3>1, StartAttemptOpens
  <2>2. CASE state[t].status = "running" /\ ~state[t].effect /\ StartAttempt(w, t, state[t].attempt)
    <3>1. <<t, state[t].attempt>> \notin sent
      BY <1>1, <2>2 DEF Planned, Sound, Remembers
    <3>. QED
      BY <1>1, <2>2, <3>1, StartAttemptOpens
  <2>3. CASE state[t].status = "retry_scheduled" /\ StartAttempt(w, t, state[t].next)
    <3>1. \/ state[t].next = state[t].attempt + 1
          \/ state[t].next = state[t].attempt /\ <<t, state[t].next>> \notin sent
      BY <2>3 DEF Planned, Sound, Retries
    <3>. QED
      BY <1>1, <2>3, <3>1, StartAttemptOpens
  <2>. QED
    BY <1>2, <2>1, <2>2, <2>3 DEF Prepare
<1>3. CASE PrepareAmbiguous(w, t)
  <2>. DEFINE s == [state[t] EXCEPT !.status = "ambiguous"]
  <2>1. s \in Record /\ s.status = "ambiguous" /\ s.attempt = state[t].attempt
        /\ s.effect = state[t].effect
    BY <1>1 DEF Record, Status
  <2>2. Update(w, t, s, <<>>) /\ state[t] # Absent
    BY <1>1, <1>3 DEF PrepareAmbiguous
  <2>. HIDE DEF s
  <2>. QED
    BY <2>1, <2>2, SameAttempt, UpdateOpens DEF Planned
<1>4. CASE MarkSideEffect(w, t)
  <2>. DEFINE s == [state[t] EXCEPT !.effect = TRUE]
  <2>1. s \in Record /\ s.status = state[t].status /\ s.attempt = state[t].attempt
        /\ s.effect = TRUE
    BY <1>1 DEF Record
  <2>2. Update(w, t, s, <<>>) /\ state[t].status = "running" /\ state[t] # Absent
    BY <1>1, <1>4 DEF MarkSideEffect, Executing
  <2>. HIDE DEF s
  <2>. QED
    BY <2>1, <2>2, SameAttempt, UpdateOpens DEF Planned
<1>5. CASE RecordFailure(w, t)
  <2>. DEFINE s == [state[t] EXCEPT !.status = "failed"]
              u == [state[t] EXCEPT !.status = "retry_scheduled", !.next = state[t].attempt + 1]
  <2>1. s \in Record
    BY <1>1, Altered, StatusNames, Zenon
  <2>2. u \in Record
    <3>1. state[t].attempt + 1 \in Int
      BY <1>1
    <3>. QED
      BY <1>1, <3>1, Altered, StatusNames, Zenon
  <2>3. /\ s.status = "failed" /\ s.attempt = state[t].attempt
        /\ u.next = state[t].attempt + 1 /\ u.attempt = state[t].attempt
        /\ s.effect = state[t].effect /\ u.effect = state[t].effect
    BY <1>1 DEF Record
  <2>4. Update(w, t, s, <<>>) \/ Update(w, t, u, <<>>)
    BY <1>5 DEF RecordFailure
  <2>5. state[t] # Absent
    BY <1>1, <1>5 DEF RecordFailure, Executing
  <2>. HIDE DEF s, u
  <2>. QED
    BY <2>1, <2>2, <2>3, <2>4, <2>5, SameAttempt, UpdateOpens DEF Planned
<1>6. CASE MarkCompleted(w, t)
  <2>. DEFINE s == [state[t] EXCEPT !.status = "completed"]
  <2>1. s \in Record /\ s.status = "completed" /\ s.attempt = state[t].attempt
        /\ s.effect = state[t].effect
    BY <1>1 DEF Record, Status
  <2>2. Update(w, t, s, <<>>) /\ state[t] # Absent
    BY <1>1, <1>6 DEF MarkCompleted
  <2>. HIDE DEF s
  <2>. QED
    BY <2>1, <2>2, SameAttempt, UpdateOpens DEF Planned
<1>. QED
  BY <1>2, <1>3, <1>4, <1>5, <1>6, CandidateOpens, ResolveOpens, RecoverRetryOpens,
     RecoverFailOpens DEF Method
-----------------------------------------------------------------------------
(* The strengthened invariant is kept.                                      *)

LEMMA NothingFine ==
  ASSUME NEW m, NEW f, NEW k, NEW z
  PROVE  Chaining(m, <<>>) /\ Housing(f, <<>>) /\ Written(<<>>, k, z)
BY DEF Chaining, Housing, Written

LEMMA MoreDigests ==
  ASSUME Typing, NEW j \in Int, NEW k \in Int, j <= k, UpTo(manifest.chain, j)
  PROVE  UpTo(manifest.chain, k)
<1>. SUFFICES ASSUME NEW t \in Target, NEW i \in DOMAIN manifest.chain[t]
              PROVE  manifest.chain[t][i].digest <= k
  BY DEF UpTo
<1>1. manifest.chain[t] \in Seq(Entry)
  BY DEF Typing, Manifest
<1>2. manifest.chain[t][i] \in Entry
  BY <1>1
<1>. QED
  BY <1>2 DEF UpTo, Entry

LEMMA OpensKeeps ==
  ASSUME NEW w \in Writer, ChainInv, LogInv, Opens(w) PROVE LogInv'
<1>. USE DEF LogInv, ChainInv
<1>1. PICK s \in Seq(Item) :
        /\ Fine(s, writes')
        /\ lock = NoOne /\ job' = [job EXCEPT ![w] = s]
        /\ writes' \in Nat /\ writes <= writes' /\ writes' <= MaxWrites
        /\ Intact
        /\ UNCHANGED <<files, torn, sent>>
  BY DEF Opens
<1>2. \A v \in Writer : job[v] = <<>>
  BY <1>1, ReceiptChainAssumption DEF Held
<1>3. \A v \in Writer : job'[v] = IF v = w THEN s ELSE <<>>
  BY <1>1, <1>2 DEF Typing
<1>4. UNCHANGED <<manifest, folder, state, torn, sent>>
  BY <1>1 DEF files
<1>5. Counted'
  <2>1. UpTo(manifest.chain, writes')
    BY <1>1, MoreDigests DEF Counted
  <2>. QED
    BY <1>1, <1>4, <2>1 DEF Counted
<1>6. Planned'
  BY <1>4 DEF Planned
<1>7. Jobs'
  BY <1>1, <1>3, <1>4, NothingFine DEF Jobs, Fine
<1>8. Stopped'
  BY <1>1, <1>4, DamagedRefused DEF Stopped
<1>. QED
  BY <1>4, <1>5, <1>6, <1>7, <1>8 DEF Sending

LEMMA FirstAndRest ==
  ASSUME NEW s \in Seq(Item), s # <<>>
  PROVE  /\ s[1] \in Item /\ Head(s) = s[1]
         /\ Tail(s) \in Seq(Item) /\ Len(s) \in Nat \ {0} /\ Len(Tail(s)) = Len(s) - 1
         /\ \A i \in 1 .. Len(Tail(s)) : Tail(s)[i] = s[i + 1]
<1>1. /\ Head(s) \in Item /\ Tail(s) \in Seq(Item) /\ Head(s) = s[1]
      /\ Len(s) \in Nat \ {0}
  OBVIOUS
<1>2. /\ Len(Tail(s)) = Len(s) - 1
      /\ \A i \in 1 .. Len(Tail(s)) : Tail(s)[i] = s[i + 1]
  BY HeadTailProperties
<1>. QED
  BY <1>1, <1>2

\* the first of the files is replaced, the rest follow it
LEMMA ChainingRest ==
  ASSUME NEW s \in Seq(Item), s # <<>>, NEW m, NEW n, Chaining(m, s),
         n = IF IsManifest(s[1]) THEN s[1].value ELSE m
  PROVE  Chaining(n, Tail(s)) /\ LogStep(m, n)
<1>. DEFINE r == Tail(s)
<1>1. /\ r \in Seq(Item) /\ Len(s) \in Nat \ {0} /\ Len(r) = Len(s) - 1
      /\ \A i \in 1 .. Len(r) : i + 1 \in 1 .. Len(s) /\ r[i] = s[i + 1]
  BY FirstAndRest
<1>. HIDE DEF r
<1>2. LogStep(m, n)
  <2>1. 1 \in 1 .. Len(s) /\ \A k \in 1 .. (1 - 1) : ~IsManifest(s[k])
    BY <1>1
  <2>2. IsManifest(s[1]) => LogStep(m, s[1].value)
    BY <2>1 DEF Chaining
  <2>. QED
    BY <2>2 DEF LogStep
<1>3. ASSUME NEW i \in 1 .. Len(r), IsManifest(r[i]),
             \A k \in 1 .. (i - 1) : ~IsManifest(r[k])
      PROVE  LogStep(n, r[i].value)
  <2>1. \A k \in 2 .. i : ~IsManifest(s[k])
    <3>. SUFFICES ASSUME NEW k \in 2 .. i PROVE ~IsManifest(s[k])
      OBVIOUS
    <3>1. k - 1 \in 1 .. (i - 1) /\ k - 1 \in 1 .. Len(r) /\ (k - 1) + 1 = k
      BY <1>1
    <3>2. r[k - 1] = s[k]
      BY <1>1, <3>1
    <3>. QED
      BY <1>3, <3>1, <3>2
  <2>2. i + 1 \in 1 .. Len(s) /\ s[i + 1] = r[i] /\ 1 \in 1 .. Len(s) /\ 1 < i + 1
    BY <1>1
  <2>3. CASE IsManifest(s[1])
    <3>1. \A k \in (1 + 1) .. ((i + 1) - 1) : ~IsManifest(s[k])
      BY <2>1
    <3>2. LogStep(s[1].value, s[i + 1].value)
      BY <1>3, <2>2, <2>3, <3>1 DEF Chaining
    <3>. QED
      BY <2>2, <2>3, <3>2
  <2>4. CASE ~IsManifest(s[1])
    <3>1. \A k \in 1 .. ((i + 1) - 1) : ~IsManifest(s[k])
      BY <2>1, <2>4
    <3>2. LogStep(m, s[i + 1].value)
      BY <1>3, <2>2, <3>1 DEF Chaining
    <3>. QED
      BY <2>2, <2>4, <3>2
  <2>. QED
    BY <2>3, <2>4
<1>4. ASSUME NEW i \in 1 .. Len(r), NEW j \in 1 .. Len(r),
             i < j, IsManifest(r[i]), IsManifest(r[j]),
             \A k \in (i + 1) .. (j - 1) : ~IsManifest(r[k])
      PROVE  LogStep(r[i].value, r[j].value)
  <2>1. ASSUME NEW k \in ((i + 1) + 1) .. ((j + 1) - 1) PROVE ~IsManifest(s[k])
    <3>1. k - 1 \in (i + 1) .. (j - 1) /\ k - 1 \in 1 .. Len(r) /\ (k - 1) + 1 = k
      BY <1>1
    <3>2. r[k - 1] = s[k]
      BY <1>1, <3>1
    <3>. QED
      BY <1>4, <3>1, <3>2
  <2>2. /\ i + 1 \in 1 .. Len(s) /\ s[i + 1] = r[i] /\ i + 1 < j + 1
        /\ j + 1 \in 1 .. Len(s) /\ s[j + 1] = r[j]
    BY <1>1, <1>4
  <2>. QED
    BY <1>4, <2>1, <2>2 DEF Chaining
<1>5. Chaining(n, r)
  BY <1>3, <1>4 DEF Chaining
<1>. QED
  BY <1>2, <1>5 DEF r

LEMMA HousingRest ==
  ASSUME NEW s \in Seq(Item), s # <<>>, NEW f, NEW g, Housing(f, s),
         g = IF s[1].file = "folder" THEN f \cup {s[1].target} ELSE f
  PROVE  Housing(g, Tail(s))
<1>. DEFINE r == Tail(s)
<1>1. /\ r \in Seq(Item) /\ Len(s) \in Nat \ {0} /\ Len(r) = Len(s) - 1
      /\ \A i \in 1 .. Len(r) : i + 1 \in 1 .. Len(s) /\ r[i] = s[i + 1]
  BY FirstAndRest
<1>. HIDE DEF r
<1>2. ASSUME NEW i \in 1 .. Len(r), IsState(r[i])
      PROVE  \/ r[i].target \in g
             \/ \E j \in 1 .. (i - 1) : r[j] = Put("folder", r[i].target, r[i].target)
  <2>1. i + 1 \in 1 .. Len(s) /\ s[i + 1] = r[i] /\ (i + 1) - 1 = i
    BY <1>1
  <2>2. CASE s[i + 1].target \in f
    BY <2>1, <2>2
  <2>3. CASE \E j \in 1 .. i : s[j] = Put("folder", s[i + 1].target, s[i + 1].target)
    <3>1. PICK j \in 1 .. i : s[j] = Put("folder", r[i].target, r[i].target)
      BY <2>1, <2>3
    <3>2. CASE j = 1
      BY <3>1, <3>2 DEF Put
    <3>3. CASE j # 1
      <4>1. j - 1 \in 1 .. (i - 1) /\ j - 1 \in 1 .. Len(r) /\ (j - 1) + 1 = j
        BY <1>1, <3>3
      <4>2. r[j - 1] = s[j]
        BY <1>1, <4>1
      <4>. QED
        BY <3>1, <4>1, <4>2
    <3>. QED
      BY <3>2, <3>3
  <2>. QED
    BY <1>2, <2>1, <2>2, <2>3 DEF Housing
<1>. QED
  BY <1>2 DEF Housing, r

LEMMA WrittenRest ==
  ASSUME NEW s \in Seq(Item), s # <<>>, NEW k, NEW z, Written(s, k, z)
  PROVE  Written(Tail(s), k, z)
<1>. DEFINE r == Tail(s)
<1>1. /\ r \in Seq(Item) /\ Len(r) = Len(s) - 1
      /\ \A i \in 1 .. Len(r) : i + 1 \in 1 .. Len(s) /\ r[i] = s[i + 1]
  BY FirstAndRest
<1>. HIDE DEF r
<1>2. Written(r, k, z)
  BY <1>1 DEF Written
<1>. QED
  BY <1>2 DEF r

LEMMA WriteFileRecords ==
  ASSUME NEW w \in Writer, ChainInv, LogInv, WriteFile(w)
  PROVE  LogInv' /\ LogStep(manifest, manifest') /\ ~torn /\ torn' = torn
<1>. USE DEF LogInv, ChainInv
<1>1. PICK s \in Seq(Item) : s = job[w] /\ s # <<>>
  BY DEF Typing, WriteFile
<1>. DEFINE a == s[1]
            r == Tail(s)
<1>2. a \in Item /\ Head(s) = a /\ 1 \in 1 .. Len(s) /\ r \in Seq(Item)
  BY <1>1, FirstAndRest
<1>3. /\ job' = [job EXCEPT ![w] = r] /\ UNCHANGED <<writes, torn, sent>>
      /\ Replace(a)
  BY <1>1, <1>2 DEF WriteFile
<1>4. \A v \in Writer : v # w => job[v] = <<>>
  BY <1>1 DEF Held
<1>5. \A v \in Writer : job'[v] = IF v = w THEN r ELSE <<>>
  BY <1>3, <1>4 DEF Typing
<1>6. ~torn
  BY <1>1 DEF Stopped
<1>7. /\ manifest' = IF IsManifest(a) THEN a.value ELSE manifest
      /\ folder' = IF a.file = "folder" THEN folder \cup {a.target} ELSE folder
      /\ state' = IF IsState(a) THEN [state EXCEPT ![a.target] = a.value] ELSE state
  BY <1>3 DEF Replace, IsManifest, IsState
<1>8. Chaining(manifest, s) /\ Housing(folder, s) /\ Written(s, writes, sent)
  BY <1>1 DEF Jobs
<1>9. Chaining(manifest', r) /\ LogStep(manifest, manifest')
  BY <1>1, <1>7, <1>8, ChainingRest
<1>10. Housing(folder', r)
  BY <1>1, <1>7, <1>8, HousingRest
<1>11. Written(r, writes', sent')
  BY <1>1, <1>3, <1>8, WrittenRest
<1>12. Counted'
  <2>1. IsManifest(a) => UpTo(a.value.chain, writes)
    BY <1>2, <1>8 DEF Written
  <2>2. UpTo(manifest'.chain, writes)
    BY <1>7, <2>1 DEF Counted
  <2>. QED
    BY <1>3, <2>2 DEF Counted
<1>13. Planned'
  <2>1. folder \subseteq folder'
    BY <1>7
  <2>2. CASE IsState(a)
    <3>1. Sound(sent, a.target, a.value) /\ sent' = sent
      BY <1>3, <1>2, <1>8, <2>2 DEF Written
    <3>2. a.target \in folder
      <4>1. \A j \in 1 .. (1 - 1) : FALSE
        OBVIOUS
      <4>. QED
        BY <1>2, <1>8, <2>2, <4>1 DEF Housing
    <3>3. \A t \in Target : state'[t] = IF t = a.target THEN a.value ELSE state[t]
      BY <1>7, <2>2 DEF Typing
    <3>. QED
      BY <2>1, <3>1, <3>2, <3>3 DEF Planned
  <2>3. CASE ~IsState(a)
    BY <1>3, <1>7, <2>1, <2>3 DEF Planned
  <2>. QED
    BY <2>2, <2>3
<1>14. Jobs'
  BY <1>5, <1>9, <1>10, <1>11, NothingFine DEF Jobs
<1>15. Stopped'
  BY <1>3, <1>6 DEF Stopped
<1>16. Sending'
  BY <1>3 DEF Sending
<1>. QED
  BY <1>3, <1>6, <1>9, <1>12, <1>13, <1>14, <1>15, <1>16

\* A write that is cut short leaves what the next one refuses.
LEMMA CrashDamages ==
  ASSUME NEW w \in Writer, ChainInv, LogInv, Crash(w)
  PROVE  LogInv' /\ manifest' = manifest /\ torn' \in BOOLEAN /\ (torn => torn')
<1>. USE DEF LogInv, ChainInv
<1>1. /\ job' = [job EXCEPT ![w] = <<>>] /\ torn' = (torn \/ MidWrite(w))
      /\ UNCHANGED <<manifest, folder, state, writes, sent>>
  BY DEF Crash, files
<1>2. \A v \in Writer : job'[v] = IF v = w THEN <<>> ELSE job[v]
  BY <1>1 DEF Typing
<1>3. Counted' /\ Planned' /\ Sending'
  BY <1>1 DEF Counted, Planned, Sending
<1>4. Jobs'
  BY <1>1, <1>2, NothingFine DEF Jobs
<1>5. ASSUME MidWrite(w) PROVE Damaged /\ \A v \in Writer : job'[v] = <<>>
  <2>1. job[w] # <<>>
    BY <1>5 DEF MidWrite
  <2>2. \A v \in Writer : v # w => job[v] = <<>>
    BY <2>1 DEF Held
  <2>3. Damaged
    BY <1>5 DEF MidWrite, Damaged
  <2>. QED
    BY <1>2, <2>2, <2>3
<1>6. ASSUME torn PROVE Damaged /\ \A v \in Writer : job'[v] = <<>>
  BY <1>2, <1>6 DEF Stopped
<1>7. Damaged' <=> Damaged
  BY <1>1 DEF Damaged
<1>8. torn' \in BOOLEAN
  BY <1>1 DEF Stopped, MidWrite
<1>9. Stopped'
  BY <1>1, <1>5, <1>6, <1>7, <1>8 DEF Stopped
<1>. QED
  BY <1>1, <1>3, <1>4, <1>8, <1>9

LEMMA OthersKeep ==
  ASSUME LogInv, UNCHANGED <<files, job, writes, torn, sent>> PROVE LogInv'
BY DEF files, LogInv, Counted, Planned, Jobs, Stopped, Damaged, Sending

\* What is sent is of an attempt that has crossed, and no write is under way.
LEMMA SendKeeps ==
  ASSUME NEW w \in Writer, NEW t \in Target, ChainInv, LogInv, Send(w, t) PROVE LogInv'
<1>. USE DEF ChainInv, LogInv
<1>. DEFINE x == <<t, state[t].attempt>>
<1>1. /\ lock = NoOne /\ state[t].status = "running" /\ state[t].effect
      /\ sent' = sent \cup {x}
      /\ UNCHANGED <<manifest, folder, state, job, writes, torn>>
  BY DEF Send, Locked, Executing, files
<1>2. \A v \in Writer : job'[v] = <<>>
  BY <1>1, ReceiptChainAssumption DEF Held
<1>3. state[t].attempt \in Int
  BY DEF Typing, Record
<1>4. Sending'
  BY <1>1, <1>3 DEF Sending
<1>5. ASSUME NEW u \in Target PROVE Sound(sent', u, state[u])
  <2>1. Sound(sent, u, state[u])
    BY DEF Planned
  <2>2. CASE u # t
    BY <1>1, <2>1, <2>2 DEF Sound, Retries, Remembers
  <2>3. CASE u = t
    BY <1>1, <2>1, <2>3 DEF Sound, Retries, Remembers
  <2>. QED
    BY <2>2, <2>3
<1>6. Planned'
  BY <1>1, <1>5 DEF Planned
<1>7. Counted' /\ Stopped'
  BY <1>1 DEF Counted, Stopped, Damaged
<1>8. Jobs'
  BY <1>2, NothingFine DEF Jobs
<1>. QED
  BY <1>4, <1>6, <1>7, <1>8

\* every step records at most one entry, in a run nobody has torn
LEMMA StepRecords ==
  ASSUME ChainInv, LogInv, [Next]_vars
  PROVE  /\ LogInv'
         /\ \/ LogStep(manifest, manifest') /\ ~torn /\ torn' = torn
            \/ manifest' = manifest /\ torn \in BOOLEAN /\ torn' \in BOOLEAN /\ (torn => torn')
<1>. USE DEF ChainInv
<1>0. torn \in BOOLEAN
  BY DEF LogInv, Stopped
<1>1. ASSUME NEW w \in Writer, Opens(w)
      PROVE  LogInv' /\ manifest' = manifest /\ torn' = torn
  BY <1>1, OpensKeeps DEF Opens, files
<1>2. CASE \E w \in Writer : WriteFile(w)
  BY <1>2, WriteFileRecords
<1>3. CASE \E w \in Writer : Crash(w)
  BY <1>0, <1>3, CrashDamages
<1>4. CASE \E w \in Writer : Publish(w)
  BY <1>0, <1>1, <1>4, PublishOpens DEF LogInv
<1>5. CASE \E w \in Writer, t \in Target : Method(w, t)
  BY <1>0, <1>1, <1>5, MethodOpens DEF LogInv
<1>6. CASE \E w \in Writer, t \in Target : Send(w, t)
  BY <1>0, <1>6, SendKeeps DEF Send, files
<1>7. CASE Reader
  <2>1. UNCHANGED <<files, job, writes, torn, sent>>
    BY <1>7 DEF Reader, ReadManifest, ListTargets, ReadState, ReadAnchor, ReadReceipts,
                BindState, Report, Check, Look
  <2>. QED
    BY <1>0, <2>1, OthersKeep DEF files
<1>8. CASE UNCHANGED vars
  BY <1>0, <1>8, OthersKeep DEF vars, files
<1>. QED
  BY <1>2, <1>3, <1>4, <1>5, <1>6, <1>7, <1>8 DEF Next, Method

LEMMA LogInit == Init => LogInv
<1>. SUFFICES ASSUME Init PROVE LogInv
  OBVIOUS
<1>1. Counted
  BY ReceiptChainAssumption DEF Init, Counted, UpTo
<1>2. Planned
  BY DEF Init, Planned, Sound, Retries, Remembers, Absent
<1>3. Jobs
  BY NothingFine DEF Init, Jobs
<1>4. Stopped /\ Sending
  BY DEF Init, Stopped, Sending
<1>. QED
  BY <1>1, <1>2, <1>3, <1>4 DEF LogInv

LEMMA LogInvKept == Spec => []LogInv
<1>1. ChainInv /\ LogInv /\ [Next]_vars => LogInv'
  BY StepRecords
<1>. QED
  BY <1>1, LogInit, ChainsGrow, PTL DEF Spec

\* For any targets, processes, attempts and writes: once a process has died
\* inside a write of a record, whoever reads the records refuses them
\* (_write_state_locked against _validate_all_attempt_receipts).
THEOREM TornIsRefused == Spec => [](Intact => ~torn)
<1>1. ChainInv /\ LogInv => (Intact => ~torn)
  BY DamagedRefused DEF ChainInv, LogInv, Stopped
<1>. QED
  BY <1>1, ChainsGrow, LogInvKept, PTL

\* For any targets, processes, attempts and writes, and wherever a process dies:
\* an attempt the provider has seen is recorded as having crossed, or a later
\* one is (mark_side_effect, prepare, schedule_recovery).
THEOREM SentIsRemembered == Spec => []SentSurvives
<1>1. LogInv => SentSurvives
  <2>. SUFFICES ASSUME LogInv, NEW x \in sent
                PROVE  \/ state[x[1]].attempt > x[2]
                       \/ state[x[1]].attempt = x[2] /\ state[x[1]].effect
    BY DEF SentSurvives
  <2>1. PICK t \in Target, n \in Int : x = <<t, n>>
    BY DEF LogInv, Sending
  <2>2. n < state[t].attempt \/ (n = state[t].attempt /\ state[t].effect)
    BY <2>1 DEF LogInv, Planned, Sound, Remembers
  <2>. QED
    BY <2>1, <2>2
<1>. QED
  BY <1>1, LogInvKept, PTL

-----------------------------------------------------------------------------
(* Every step of ReceiptChain is a step of RunLog or leaves it alone.       *)

LEMMA RecordImplements ==
  ASSUME ChainInv, OneMore(manifest.chain, manifest'.chain), ~torn, torn' = torn
  PROVE  Log!Next
<1>. DEFINE c == manifest.chain
            d == manifest'.chain
<1>1. PICK t \in Target, n \in Int, x \in 1 .. MaxWrites :
        /\ Follows(c, t, n)
        /\ \A u \in Target : \A i \in DOMAIN c[u] : c[u][i].digest # x
        /\ d = [c EXCEPT ![t] = Append(@, [attempt |-> n, digest |-> x])]
  BY DEF OneMore
<1>2. n \in Log!Following(t)
  BY <1>1 DEF Log!Following, Follows, Last
<1>3. Log!Fresh(x)
  BY <1>1 DEF Log!Fresh
<1>. QED
  BY <1>1, <1>2, <1>3 DEF Log!Next, Log!Record

LEMMA StepImplements ==
  ASSUME ChainInv, LogInv, [Next]_vars PROVE [Log!Next]_(Log!vars)
<1>1. \/ LogStep(manifest, manifest') /\ ~torn /\ torn' = torn
      \/ manifest' = manifest /\ torn \in BOOLEAN /\ torn' \in BOOLEAN /\ (torn => torn')
  BY StepRecords
<1>2. CASE OneMore(manifest.chain, manifest'.chain) /\ ~torn /\ torn' = torn
  BY <1>2, RecordImplements
<1>3. CASE manifest'.chain = manifest.chain /\ torn' = torn
  BY <1>3 DEF Log!vars
<1>4. CASE manifest' = manifest /\ ~torn /\ torn' = TRUE
  BY <1>4 DEF Log!Next, Log!Damage
<1>. QED
  BY <1>1, <1>2, <1>3, <1>4 DEF LogStep

\* For any targets, processes, attempts and writes, and wherever a process dies,
\* the files implement RunLog: each chain grows one entry at a time, in the
\* order of the attempts and with a digest of its own, and no chain grows once
\* a write was cut short (_write_state_locked, _run_locked).
THEOREM ImplementsRunLog == Spec => RunLogSpec
<1>1. Init => Log!Init
  BY DEF Init, Log!Init
<1>2. ChainInv /\ LogInv /\ [Next]_vars => [Log!Next]_(Log!vars)
  BY StepImplements
<1>. QED
  BY <1>1, <1>2, ChainsGrow, LogInvKept, PTL DEF Spec, RunLogSpec, Log!Spec

-----------------------------------------------------------------------------
(***************************************************************************)
(* The other half: the records are intact whenever nobody writes and no    *)
(* write was cut short.  The files are one value here, so that it can be   *)
(* said what they will be after some of the files of a write: each of the  *)
(* states that a writer goes through is sane, or shows that a write is     *)
(* under way.                                                              *)
(***************************************************************************)
Disk == [manifest : Manifest, folder : SUBSET Target, state : [Target -> Record],
         receipt : [Target -> [Attempt -> Record]],
         candidate : [Target -> [Attempt -> Int]], recovery : SUBSET Int]

Now == [manifest |-> manifest, folder |-> folder, state |-> state, receipt |-> receipt,
        candidate |-> candidate, recovery |-> recovery]

\* the files after one is replaced
Applied(F, p) ==
  [manifest  |-> IF p.file = "manifest" THEN p.value ELSE F.manifest,
   folder    |-> IF p.file = "folder" THEN F.folder \cup {p.target} ELSE F.folder,
   state     |-> IF p.file = "state" THEN [F.state EXCEPT ![p.target] = p.value] ELSE F.state,
   receipt   |-> IF p.file = "receipt"
                 THEN [F.receipt EXCEPT ![p.target][p.value.attempt] = p.value] ELSE F.receipt,
   candidate |-> IF p.file = "candidate"
                 THEN [F.candidate EXCEPT ![p.target][p.value.attempt] = p.value.digest]
                 ELSE F.candidate,
   recovery  |-> IF p.file = "recovery" THEN F.recovery \cup {p.value} ELSE F.recovery]

\* ... and after the three files of a record
Rewritten(F, n, t, u) ==
  [manifest |-> n, folder |-> F.folder, state |-> [F.state EXCEPT ![t] = u],
   receipt |-> [F.receipt EXCEPT ![t][u.attempt] = u],
   candidate |-> F.candidate, recovery |-> F.recovery]

\* the entry of attempt n that its receipt has to be
IsLast(c, n, i) ==
  i \in DOMAIN c /\ c[i].attempt = n /\ \A j \in DOMAIN c : c[j].attempt = n => j <= i

AnchoredIn(c, receipts) ==
  /\ \A n \in Attempt : receipts[n] # Absent =>
       \E i \in DOMAIN c : IsLast(c, n, i) /\ receipts[n].digest = c[i].digest
  /\ \A i \in DOMAIN c : /\ c[i].attempt \in Attempt
                         /\ receipts[c[i].attempt] # Absent \/ c[i].attempt = Last(c).attempt

\* a candidate is named by a sealed record only
Proper(s) ==
  /\ s.attempt \in Attempt /\ s.status \in Status
  /\ s.status \notin {"success_candidate", "completed"} => s.candidate = 0

\* what the record s of t names is there
NamedIn(F, m, t, s) ==
  /\ IF s.candidate = 0 THEN s.status # "success_candidate"
                        ELSE F.candidate[t][s.attempt] = s.candidate
  /\ s.recovered # 0 =>
       /\ s.recovered \in F.recovery
       /\ \E i \in DOMAIN m.ledger[t] : m.ledger[t][i].receipt = s.recovered
  /\ LedgerReflected(m, t, s)

RecordIn(F, t) ==
  LET s == F.state[t]  c == F.manifest.chain[t] IN
  /\ Proper(s)
  /\ c # <<>> /\ Last(c).attempt = s.attempt /\ Last(c).digest = s.digest
  /\ NamedIn(F, F.manifest, t, s)
  /\ \/ F.receipt[t][s.attempt] = s
     \/ F.receipt[t][s.attempt] = Absent /\ ~s.effect /\ s.status = "running"

LedgerIn(F, m, t) == \A i \in DOMAIN m.ledger[t] : m.ledger[t][i].receipt \in F.recovery

\* what is not about a record of state
Founded(F) ==
  /\ F \in Disk
  /\ \A v \in Target : LedgerIn(F, F.manifest, v)
  /\ \A v \in Target : AnchoredIn(F.manifest.chain[v], F.receipt[v])
  /\ \A v \in Target \ F.folder : /\ F.manifest.chain[v] = <<>>
                                  /\ F.manifest.ledger[v] = <<>>
                                  /\ F.state[v] = Absent

\* all is well, but for the record of t
Beside(F, t) == Founded(F) /\ \A v \in F.folder \ {t} : RecordIn(F, v)

Retriable == {"failed", "retry_scheduled"}

Sane(F) == Founded(F) /\ \A t \in F.folder : RecordIn(F, t)

\* as MidWrite, with the targets of the files still to be replaced
MidIn(F, targets) ==
  \E t \in targets \cap Target :
    \/ t \in F.folder /\ F.state[t] = Absent
    \/ /\ F.state[t] # Absent
       /\ \A i \in DOMAIN F.manifest.chain[t] : F.manifest.chain[t][i].digest # F.state[t].digest

After(s, k) == {s[i].target : i \in (k + 1) .. Len(s)}

\* the files that are replaced by s lead from F to sane files
HasPlan(F, s) ==
  \E h : /\ h[0] = F
         /\ \A k \in 1 .. Len(s) : h[k] = Applied(h[k - 1], s[k])
         /\ \A k \in 0 .. Len(s) : Sane(h[k]) \/ MidIn(h[k], After(s, k))

Writing ==
  /\ \A w \in Writer : job[w] # <<>> => HasPlan(Now, job[w])
  /\ lock # NoOne => lock \in Writer /\ job[lock] # <<>>
  /\ lock = NoOne /\ ~torn => Sane(Now)

-----------------------------------------------------------------------------
(* Sane files are intact.                                                   *)

LEMMA SaneAnchored ==
  ASSUME NEW t \in Target, NEW m, m.chain[t] \in Seq(Entry),
         AnchoredIn(m.chain[t], receipt[t])
  PROVE  Anchored(m, t)
<1>. DEFINE c == m.chain[t]
            last(n) == CHOOSE i \in DOMAIN c :
                         /\ c[i].attempt = n
                         /\ \A j \in DOMAIN c : c[j].attempt = n => j <= i
            known == {c[i].attempt : i \in DOMAIN c}
<1>1. DOMAIN c = 1 .. Len(c) /\ Len(c) \in Nat
  OBVIOUS
<1>2. ASSUME NEW n \in Attempt, receipt[t][n] # Absent
      PROVE  n \in known /\ receipt[t][n].digest = c[last(n)].digest
  <2>1. PICK i \in DOMAIN c : IsLast(c, n, i) /\ receipt[t][n].digest = c[i].digest
    BY <1>2 DEF AnchoredIn
  <2>2. c[i].attempt = n /\ \A j \in DOMAIN c : c[j].attempt = n => j <= i
    BY <2>1 DEF IsLast
  <2>3. /\ last(n) \in DOMAIN c /\ c[last(n)].attempt = n
        /\ \A j \in DOMAIN c : c[j].attempt = n => j <= last(n)
    BY <2>2
  <2>. HIDE DEF last, c
  <2>4. last(n) = i
    BY <1>1, <2>2, <2>3
  <2>. QED
    BY <2>1, <2>2, <2>4
<1>3. ASSUME NEW n \in known PROVE receipt[t][n] # Absent \/ n = Last(c).attempt
  BY DEF AnchoredIn
<1>. HIDE DEF c, last, known
<1>4. /\ \A n \in Attempt : receipt[t][n] # Absent =>
           n \in known /\ receipt[t][n].digest = c[last(n)].digest
      /\ \A n \in known : receipt[t][n] # Absent \/ n = Last(c).attempt
  BY <1>2, <1>3
<1>. QED
  BY <1>4 DEF Anchored, c, last, known

LEMMA NowIs ==
  /\ Now.manifest = manifest /\ Now.folder = folder /\ Now.state = state
  /\ Now.receipt = receipt /\ Now.candidate = candidate /\ Now.recovery = recovery
BY DEF Now

LEMMA SaneIntact == ASSUME Sane(Now) PROVE Intact
<1>. USE NowIs
<1>1. /\ manifest \in Manifest /\ folder \in SUBSET Target /\ state \in [Target -> Record]
      /\ \A t \in Target : manifest.chain[t] \in Seq(Entry)
  <2>1. Now \in Disk
    BY DEF Sane, Founded
  <2>2. Now.manifest \in Manifest /\ Now.folder \in SUBSET Target
        /\ Now.state \in [Target -> Record]
    BY <2>1 DEF Disk
  <2>. QED
    BY <2>2 DEF Manifest
<1>2. LedgerBound(manifest)
  BY DEF Sane, Founded, LedgerIn, LedgerBound
<1>3. \A t \in Target : manifest.chain[t] # <<>> => t \in folder
  BY DEF Sane, Founded
<1>4. ASSUME NEW t \in folder
      PROVE  state[t] # Absent /\ Anchored(manifest, t) /\ Bound(manifest, t, state[t])
  <2>1. t \in Target /\ RecordIn(Now, t) /\ AnchoredIn(manifest.chain[t], receipt[t])
    BY <1>1 DEF Sane, Founded
  <2>2. Anchored(manifest, t)
    BY <1>1, <2>1, SaneAnchored
  <2>3. /\ Proper(state[t]) /\ NamedIn(Now, manifest, t, state[t])
        /\ manifest.chain[t] # <<>>
        /\ Last(manifest.chain[t]).attempt = state[t].attempt
        /\ Last(manifest.chain[t]).digest = state[t].digest
        /\ \/ receipt[t][state[t].attempt] = state[t]
           \/ /\ receipt[t][state[t].attempt] = Absent
              /\ ~state[t].effect /\ state[t].status = "running"
    BY <2>1 DEF RecordIn
  <2>4. state[t] # Absent
    BY <2>3 DEF Proper, Status, Absent
  <2>5. CandidateBound(t, state[t]) /\ RecoveryBound(manifest, t, state[t])
        /\ LedgerReflected(manifest, t, state[t])
    BY <2>3 DEF NamedIn, CandidateBound, RecoveryBound
  <2>6. Last(manifest.chain[t]) \in Entry
    BY <1>1, <2>1, <2>3 DEF Last
  <2>7. Last(manifest.chain[t]) = [attempt |-> state[t].attempt, digest |-> state[t].digest]
    BY <2>3, <2>6 DEF Entry
  <2>. QED
    BY <2>2, <2>3, <2>4, <2>5, <2>7 DEF Bound
<1>. QED
  BY <1>2, <1>3, <1>4 DEF Intact

-----------------------------------------------------------------------------
(* A write of a record leads from sane files to sane files.                 *)

\* an entry of an attempt whose receipt is written with it
LEMMA AnchoredMore ==
  ASSUME NEW c \in Seq(Entry), NEW z \in [Attempt -> Record], NEW u \in Record,
         AnchoredIn(c, z), u # Absent, u.attempt \in Attempt,
         \/ c = <<>>
         \/ Last(c).attempt = u.attempt
         \/ z[Last(c).attempt] # Absent
  PROVE  AnchoredIn(Append(c, [attempt |-> u.attempt, digest |-> u.digest]),
                    [z EXCEPT ![u.attempt] = u])
<1>. DEFINE e == [attempt |-> u.attempt, digest |-> u.digest]
            d == Append(c, e)
            y == [z EXCEPT ![u.attempt] = u]
            k == Len(c) + 1
<1>1. e \in Entry /\ e.attempt = u.attempt /\ e.digest = u.digest
  BY DEF Entry, Record
<1>. HIDE DEF e
<1>2. /\ k \in Nat /\ k >= 1 /\ Len(c) \in Nat /\ DOMAIN c = 1 .. Len(c) /\ DOMAIN d = 1 .. k
      /\ d[k] = e /\ \A i \in 1 .. Len(c) : d[i] = c[i]
      /\ Last(d) = e
      /\ \A i \in 1 .. k : i \in 1 .. Len(c) \/ i = k
      /\ \A i \in 1 .. Len(c) : i \in 1 .. k
  BY <1>1 DEF Last
<1>3. y[u.attempt] = u /\ \A n \in Attempt : n # u.attempt => y[n] = z[n]
  OBVIOUS
<1>. HIDE DEF d, y, k
<1>4. ASSUME NEW n \in Attempt, y[n] # Absent
      PROVE  \E i \in DOMAIN d : IsLast(d, n, i) /\ y[n].digest = d[i].digest
  <2>1. CASE n = u.attempt
    <3>1. k \in DOMAIN d /\ d[k].attempt = n /\ \A j \in DOMAIN d : j <= k
      BY <1>1, <1>2, <2>1
    <3>2. IsLast(d, n, k) /\ y[n].digest = d[k].digest
      BY <1>1, <1>2, <1>3, <2>1, <3>1 DEF IsLast
    <3>. QED
      BY <3>1, <3>2
  <2>2. CASE n # u.attempt
    <3>1. PICK i \in DOMAIN c : IsLast(c, n, i) /\ z[n].digest = c[i].digest
      BY <1>3, <1>4, <2>2 DEF AnchoredIn
    <3>2. i \in DOMAIN d /\ d[i] = c[i]
      BY <1>2
    <3>3. ASSUME NEW j \in DOMAIN d, d[j].attempt = n PROVE j <= i
      <4>1. j \in 1 .. Len(c)
        BY <1>1, <1>2, <2>2, <3>3
      <4>. QED
        BY <1>2, <3>1, <3>3, <4>1 DEF IsLast
    <3>4. IsLast(d, n, i)
      BY <3>1, <3>2, <3>3 DEF IsLast
    <3>. QED
      BY <1>3, <2>2, <3>1, <3>2, <3>4
  <2>. QED
    BY <2>1, <2>2
<1>5. ASSUME NEW i \in DOMAIN d
      PROVE  /\ d[i].attempt \in Attempt
             /\ y[d[i].attempt] # Absent \/ d[i].attempt = Last(d).attempt
  <2>1. CASE i = k
    BY <1>1, <1>2, <2>1
  <2>2. CASE i \in 1 .. Len(c)
    <3>1. d[i] = c[i] /\ i \in DOMAIN c
      BY <1>2, <2>2
    <3>2. c[i].attempt \in Attempt
          /\ (z[c[i].attempt] # Absent \/ c[i].attempt = Last(c).attempt)
      BY <3>1 DEF AnchoredIn
    <3>3. c # <<>>
      BY <3>1
    <3>4. CASE c[i].attempt = u.attempt
      BY <1>1, <1>2, <3>1, <3>2, <3>4
    <3>5. CASE c[i].attempt # u.attempt
      <4>1. z[c[i].attempt] # Absent
        BY <3>2, <3>3, <3>5
      <4>. QED
        BY <1>3, <3>1, <3>2, <3>5, <4>1
    <3>. QED
      BY <3>4, <3>5
  <2>. QED
    BY <1>2, <2>1, <2>2
<1>6. AnchoredIn(d, y)
  BY <1>4, <1>5 DEF AnchoredIn
<1>. QED
  BY <1>6 DEF d, y, e

\* a record that no file of G has changed
LEMMA RecordSame ==
  ASSUME NEW F, NEW G, NEW v, RecordIn(F, v),
         G.state[v] = F.state[v], G.receipt[v] = F.receipt[v],
         G.manifest.chain[v] = F.manifest.chain[v],
         G.manifest.ledger[v] = F.manifest.ledger[v],
         F.state[v].candidate # 0 => G.candidate[v][F.state[v].attempt]
                                       = F.candidate[v][F.state[v].attempt],
         F.recovery \subseteq G.recovery
  PROVE  RecordIn(G, v)
<1>1. LedgerReflected(F.manifest, v, F.state[v]) => LedgerReflected(G.manifest, v, G.state[v])
  BY DEF LedgerReflected
<1>2. NamedIn(F, F.manifest, v, F.state[v]) => NamedIn(G, G.manifest, v, G.state[v])
  BY <1>1 DEF NamedIn
<1>. QED
  BY <1>2 DEF RecordIn

\* what has to be so for the record u of t to be written, with m
Fits(F, m, t, u) ==
  /\ t \in F.folder /\ Beside(F, t)
  /\ m \in Manifest /\ m.chain = F.manifest.chain
  /\ \A v \in Target \ {t} : m.ledger[v] = F.manifest.ledger[v]
  /\ LedgerIn(F, m, t)
  /\ u \in Record /\ Proper(u) /\ NamedIn(F, m, t, u)
  /\ \A i \in DOMAIN m.chain[t] : m.chain[t][i].digest # u.digest
  /\ \/ m.chain[t] = <<>>
     \/ Last(m.chain[t]).attempt = u.attempt
     \/ F.receipt[t][Last(m.chain[t]).attempt] # Absent

LEMMA LastEntry ==
  ASSUME NEW c \in Seq(Entry), NEW e \in Entry
  PROVE  Append(c, e) # <<>> /\ Last(Append(c, e)) = e
<1>1. Append(c, e) \in Seq(Entry) /\ Len(Append(c, e)) = Len(c) + 1 /\ Len(c) \in Nat
  OBVIOUS
<1>2. Append(c, e)[Len(c) + 1] = e
  OBVIOUS
<1>. QED
  BY <1>1, <1>2 DEF Last

LEMMA SaneWrite ==
  ASSUME NEW F, NEW m, NEW t \in Target, NEW u, Fits(F, m, t, u)
  PROVE  Sane(Rewritten(F, Chained(m, t, u), t, u))
<1>. DEFINE n == Chained(m, t, u)
            G == Rewritten(F, n, t, u)
            e == [attempt |-> u.attempt, digest |-> u.digest]
<1>1. /\ F \in Disk /\ u \in Record /\ m \in Manifest /\ t \in F.folder /\ Founded(F)
      /\ u.attempt \in Attempt /\ u # Absent /\ Proper(u) /\ u.attempt \in Int
      /\ m.chain = F.manifest.chain
  BY DEF Fits, Beside, Founded, Proper, Status, Absent, Record
<1>2. /\ G.manifest = n /\ G.folder = F.folder
      /\ G.state = [F.state EXCEPT ![t] = u]
      /\ G.receipt = [F.receipt EXCEPT ![t][u.attempt] = u]
      /\ G.candidate = F.candidate /\ G.recovery = F.recovery
  BY DEF Rewritten
<1>3. /\ F.folder \in SUBSET Target /\ F.state \in [Target -> Record]
      /\ F.receipt \in [Target -> [Attempt -> Record]]
      /\ F.candidate \in [Target -> [Attempt -> Int]] /\ F.recovery \in SUBSET Int
      /\ m.chain[t] \in Seq(Entry) /\ m.ledger \in [Target -> Seq(Decision)]
      /\ m.chain \in [Target -> Seq(Entry)]
  BY <1>1 DEF Disk, Manifest
<1>4. /\ n \in Manifest /\ n.status = m.status /\ n.ledger = m.ledger
      /\ n.chain = [m.chain EXCEPT ![t] = Append(@, e)]
  <2>1. n \in Manifest
    BY <1>1, ChainedCovers
  <2>. QED
    BY <1>1, <2>1 DEF Chained, Manifest
<1>5. /\ \A v \in Target : G.state[v] = IF v = t THEN u ELSE F.state[v]
      /\ \A v \in Target \ {t} : G.receipt[v] = F.receipt[v] /\ n.chain[v] = m.chain[v]
      /\ G.receipt[t] = [F.receipt[t] EXCEPT ![u.attempt] = u]
      /\ n.chain[t] = Append(m.chain[t], e)
      /\ F.receipt[t] \in [Attempt -> Record]
  BY <1>2, <1>3, <1>4
<1>6. G \in Disk
  <2>1. G.state \in [Target -> Record] /\ G.receipt \in [Target -> [Attempt -> Record]]
    BY <1>1, <1>2, <1>3
  <2>2. n \in Manifest /\ F.folder \in SUBSET Target
        /\ F.candidate \in [Target -> [Attempt -> Int]] /\ F.recovery \in SUBSET Int
    BY <1>3, <1>4
  <2>3. G = [manifest |-> n, folder |-> F.folder, state |-> G.state, receipt |-> G.receipt,
             candidate |-> F.candidate, recovery |-> F.recovery]
    BY DEF Rewritten
  <2>. HIDE DEF G, n
  <2>. QED
    BY <2>1, <2>2, <2>3 DEF Disk
<1>. HIDE DEF G, n
<1>7. ASSUME NEW v \in Target PROVE LedgerIn(G, G.manifest, v)
  <2>1. CASE v = t
    BY <1>2, <1>4, <2>1 DEF Fits, LedgerIn
  <2>2. CASE v # t
    BY <1>1, <1>2, <1>4, <2>2 DEF Fits, LedgerIn, Founded
  <2>. QED
    BY <2>1, <2>2
<1>8. ASSUME NEW v \in Target PROVE AnchoredIn(G.manifest.chain[v], G.receipt[v])
  <2>1. AnchoredIn(m.chain[v], F.receipt[v])
    BY <1>1 DEF Founded
  <2>2. CASE v = t
    <3>1. \/ m.chain[t] = <<>>
          \/ Last(m.chain[t]).attempt = u.attempt
          \/ F.receipt[t][Last(m.chain[t]).attempt] # Absent
      BY DEF Fits
    <3>2. AnchoredIn(Append(m.chain[t], e), [F.receipt[t] EXCEPT ![u.attempt] = u])
      BY <1>1, <1>3, <1>5, <2>1, <2>2, <3>1, AnchoredMore
    <3>. QED
      BY <1>2, <1>5, <2>2, <3>2
  <2>3. CASE v # t
    BY <1>2, <1>5, <2>1, <2>3
  <2>. QED
    BY <2>2, <2>3
<1>9. ASSUME NEW v \in Target \ G.folder
      PROVE  G.manifest.chain[v] = <<>> /\ G.manifest.ledger[v] = <<>> /\ G.state[v] = Absent
  <2>1. v # t /\ v \in Target \ F.folder
    BY <1>1, <1>2
  <2>2. F.manifest.chain[v] = <<>> /\ F.manifest.ledger[v] = <<>> /\ F.state[v] = Absent
    BY <1>1, <2>1 DEF Founded
  <2>3. m.ledger[v] = F.manifest.ledger[v]
    BY <2>1 DEF Fits
  <2>. QED
    BY <1>1, <1>2, <1>4, <1>5, <2>1, <2>2, <2>3
<1>10. Founded(G)
  BY <1>6, <1>7, <1>8, <1>9 DEF Founded
<1>11. ASSUME NEW v \in G.folder PROVE RecordIn(G, v)
  <2>1. CASE v # t
    <3>1. RecordIn(F, v) /\ v \in Target
      BY <1>2, <1>3, <2>1 DEF Fits, Beside
    <3>2. /\ G.state[v] = F.state[v] /\ G.receipt[v] = F.receipt[v]
          /\ G.manifest.chain[v] = F.manifest.chain[v]
          /\ G.manifest.ledger[v] = F.manifest.ledger[v]
      BY <1>1, <1>2, <1>4, <1>5, <2>1, <3>1 DEF Fits
    <3>. QED
      BY <1>2, <3>1, <3>2, RecordSame
  <2>2. CASE v = t
    <3>1. /\ G.state[t] = u /\ G.manifest.chain[t] = Append(m.chain[t], e)
          /\ G.receipt[t][u.attempt] = u
      BY <1>1, <1>2, <1>5
    <3>2. e \in Entry /\ e.attempt = u.attempt /\ e.digest = u.digest
      BY <1>1 DEF Entry, Record
    <3>3. G.manifest.chain[t] # <<>> /\ Last(G.manifest.chain[t]) = e
      <4>. HIDE DEF e
      <4>. QED
        BY <1>3, <3>1, <3>2, LastEntry
    <3>4. NamedIn(F, m, t, u) => NamedIn(G, G.manifest, t, u)
      BY <1>2, <1>4 DEF NamedIn, LedgerReflected
    <3>5. NamedIn(G, G.manifest, t, u)
      BY <3>4 DEF Fits
    <3>. HIDE DEF e
    <3>. QED
      BY <1>1, <2>2, <3>1, <3>2, <3>3, <3>5 DEF RecordIn
  <2>. QED
    BY <2>1, <2>2
<1>12. Sane(G)
  BY <1>10, <1>11 DEF Sane
<1>. QED
  BY <1>12 DEF G, n

-----------------------------------------------------------------------------
(* Plans, one file at a time.                                               *)

LEMMA PlanDone == ASSUME NEW F, Sane(F) PROVE HasPlan(F, <<>>)
<1>. DEFINE h == [k \in {0} |-> F]
<1>1. h[0] = F /\ Len(<<>>) = 0 /\ (1 .. 0) = {} /\ (0 .. 0) = {0}
  OBVIOUS
<1>. HIDE DEF h
<1>2. /\ \A k \in 1 .. Len(<<>>) : h[k] = Applied(h[k - 1], <<>>[k])
      /\ \A k \in 0 .. Len(<<>>) : Sane(h[k]) \/ MidIn(h[k], After(<<>>, k))
  BY <1>1
<1>. QED
  BY <1>1, <1>2 DEF HasPlan

LEMMA AfterRest ==
  ASSUME NEW s \in Seq(Item), NEW r \in Seq(Item), Len(s) = Len(r) + 1,
         \A i \in 1 .. Len(r) : s[i + 1] = r[i], NEW k \in 0 .. Len(r)
  PROVE  After(s, k + 1) = After(r, k)
<1>1. Len(r) \in Nat /\ Len(s) \in Nat
  OBVIOUS
<1>2. ASSUME NEW i \in ((k + 1) + 1) .. Len(s)
      PROVE  \E j \in (k + 1) .. Len(r) : r[j].target = s[i].target
  <2>1. i - 1 \in (k + 1) .. Len(r) /\ i - 1 \in 1 .. Len(r) /\ (i - 1) + 1 = i
    BY <1>1
  <2>2. s[i] = r[i - 1]
    BY <2>1
  <2>. QED
    BY <2>1, <2>2
<1>3. ASSUME NEW j \in (k + 1) .. Len(r)
      PROVE  \E i \in ((k + 1) + 1) .. Len(s) : r[j].target = s[i].target
  <2>1. j + 1 \in ((k + 1) + 1) .. Len(s) /\ j \in 1 .. Len(r)
    BY <1>1
  <2>2. s[j + 1] = r[j]
    BY <2>1
  <2>. QED
    BY <2>1, <2>2
<1>4. After(s, k + 1) \subseteq After(r, k)
  <2>. SUFFICES ASSUME NEW i \in ((k + 1) + 1) .. Len(s) PROVE s[i].target \in After(r, k)
    BY Zenon DEF After
  <2>1. PICK j \in (k + 1) .. Len(r) : r[j].target = s[i].target
    BY <1>2
  <2>2. r[j].target \in After(r, k)
    BY Zenon DEF After
  <2>. QED
    BY <2>1, <2>2
<1>5. After(r, k) \subseteq After(s, k + 1)
  <2>. SUFFICES ASSUME NEW j \in (k + 1) .. Len(r) PROVE r[j].target \in After(s, k + 1)
    BY Zenon DEF After
  <2>1. PICK i \in ((k + 1) + 1) .. Len(s) : r[j].target = s[i].target
    BY <1>3
  <2>2. s[i].target \in After(s, k + 1)
    BY Zenon DEF After
  <2>. QED
    BY <2>1, <2>2
<1>. QED
  BY <1>4, <1>5

\* one file more in front of a plan
LEMMA PlanFirst ==
  ASSUME NEW s \in Seq(Item), NEW r \in Seq(Item), Len(s) = Len(r) + 1,
         \A i \in 1 .. Len(r) : s[i + 1] = r[i],
         NEW F, Sane(F) \/ MidIn(F, After(s, 0)), HasPlan(Applied(F, s[1]), r)
  PROVE  HasPlan(F, s)
<1>1. PICK g : /\ g[0] = Applied(F, s[1])
               /\ \A k \in 1 .. Len(r) : g[k] = Applied(g[k - 1], r[k])
               /\ \A k \in 0 .. Len(r) : Sane(g[k]) \/ MidIn(g[k], After(r, k))
  BY DEF HasPlan
<1>2. Len(r) \in Nat /\ Len(s) \in Nat
  OBVIOUS
<1>. DEFINE h == [k \in 0 .. Len(s) |-> IF k = 0 THEN F ELSE g[k - 1]]
<1>3. h[0] = F /\ \A k \in 1 .. Len(s) : h[k] = g[k - 1]
  BY <1>2
<1>. HIDE DEF h
<1>4. ASSUME NEW k \in 1 .. Len(s) PROVE h[k] = Applied(h[k - 1], s[k])
  <2>1. CASE k = 1
    BY <1>1, <1>2, <1>3, <2>1
  <2>2. CASE k # 1
    <3>1. k - 1 \in 1 .. Len(r) /\ k - 1 \in 1 .. Len(s) /\ (k - 1) + 1 = k
      BY <1>2, <2>2
    <3>2. s[k] = r[k - 1] /\ h[k] = g[k - 1] /\ h[k - 1] = g[(k - 1) - 1]
      BY <1>3, <3>1
    <3>3. g[k - 1] = Applied(g[(k - 1) - 1], r[k - 1])
      BY <1>1, <3>1
    <3>. QED
      BY <3>2, <3>3
  <2>. QED
    BY <2>1, <2>2
<1>5. ASSUME NEW k \in 0 .. Len(s) PROVE Sane(h[k]) \/ MidIn(h[k], After(s, k))
  <2>1. CASE k = 0
    BY <1>3, <2>1
  <2>2. CASE k # 0
    <3>1. k - 1 \in 0 .. Len(r) /\ k \in 1 .. Len(s) /\ (k - 1) + 1 = k
      BY <1>2, <2>2
    <3>2. After(s, (k - 1) + 1) = After(r, k - 1)
      BY <3>1, AfterRest
    <3>3. Sane(g[k - 1]) \/ MidIn(g[k - 1], After(r, k - 1))
      BY <1>1, <3>1
    <3>. QED
      BY <1>3, <3>1, <3>2, <3>3
  <2>. QED
    BY <2>1, <2>2
<1>. QED
  BY <1>3, <1>4, <1>5 DEF HasPlan

\* what is left of a plan once its first file is replaced
LEMMA PlanRest ==
  ASSUME NEW s \in Seq(Item), s # <<>>, NEW F, HasPlan(F, s)
  PROVE  HasPlan(Applied(F, s[1]), Tail(s))
<1>. DEFINE r == Tail(s)
<1>1. /\ r \in Seq(Item) /\ Len(s) \in Nat \ {0} /\ Len(r) = Len(s) - 1 /\ Len(r) \in Nat
      /\ \A i \in 1 .. Len(r) : i + 1 \in 1 .. Len(s) /\ r[i] = s[i + 1]
  BY FirstAndRest
<1>. HIDE DEF r
<1>2. PICK h : /\ h[0] = F
               /\ \A k \in 1 .. Len(s) : h[k] = Applied(h[k - 1], s[k])
               /\ \A k \in 0 .. Len(s) : Sane(h[k]) \/ MidIn(h[k], After(s, k))
  BY DEF HasPlan
<1>. DEFINE g == [k \in 0 .. Len(r) |-> h[k + 1]]
<1>3. \A k \in 0 .. Len(r) : g[k] = h[k + 1]
  OBVIOUS
<1>4. g[0] = Applied(F, s[1])
  <2>1. 0 \in 0 .. Len(r) /\ 1 \in 1 .. Len(s) /\ 0 + 1 = 1 /\ 1 - 1 = 0
    BY <1>1
  <2>2. h[1] = Applied(h[0], s[1])
    BY <1>2, <2>1
  <2>. QED
    BY <1>2, <1>3, <2>1, <2>2
<1>. HIDE DEF g
<1>5. ASSUME NEW k \in 1 .. Len(r) PROVE g[k] = Applied(g[k - 1], r[k])
  <2>1. /\ k \in 0 .. Len(r) /\ k - 1 \in 0 .. Len(r) /\ k + 1 \in 1 .. Len(s)
        /\ (k + 1) - 1 = k /\ (k - 1) + 1 = k
    BY <1>1
  <2>2. g[k] = h[k + 1] /\ g[k - 1] = h[k] /\ r[k] = s[k + 1]
    BY <1>1, <1>3, <2>1
  <2>3. h[k + 1] = Applied(h[(k + 1) - 1], s[k + 1])
    BY <1>2, <2>1
  <2>. QED
    BY <2>1, <2>2, <2>3
<1>6. ASSUME NEW k \in 0 .. Len(r) PROVE Sane(g[k]) \/ MidIn(g[k], After(r, k))
  <2>1. k + 1 \in 0 .. Len(s)
    BY <1>1
  <2>2. \A i \in 1 .. Len(r) : s[i + 1] = r[i]
    BY <1>1
  <2>3. After(s, k + 1) = After(r, k)
    BY <1>1, <2>2, AfterRest
  <2>. QED
    BY <1>2, <1>3, <2>1, <2>3
<1>7. HasPlan(Applied(F, s[1]), r)
  BY <1>4, <1>5, <1>6 DEF HasPlan
<1>. QED
  BY <1>7 DEF r

LEMMA PlanNow ==
  ASSUME NEW s \in Seq(Item), NEW F, HasPlan(F, s)
  PROVE  /\ Sane(F) \/ MidIn(F, After(s, 0))
         /\ s = <<>> => Sane(F)
<1>1. 0 \in 0 .. Len(s)
  OBVIOUS
<1>2. Sane(F) \/ MidIn(F, After(s, 0))
  BY <1>1 DEF HasPlan
<1>3. s = <<>> => After(s, 0) = {}
  BY DEF After
<1>4. ~MidIn(F, {})
  BY DEF MidIn
<1>. QED
  BY <1>2, <1>3, <1>4

-----------------------------------------------------------------------------
(* What each method will leave.                                             *)

LEMMA FilesOfRecord ==
  ASSUME NEW F, NEW n, NEW t, NEW u
  PROVE  Applied(Applied(Applied(F, Put("state", t, u)), Put("receipt", t, u)),
                 Put("manifest", t, n)) = Rewritten(F, n, t, u)
<1>. DEFINE F1 == Applied(F, Put("state", t, u))
            F2 == Applied(F1, Put("receipt", t, u))
<1>1. /\ F1.manifest = F.manifest /\ F1.folder = F.folder
      /\ F1.state = [F.state EXCEPT ![t] = u] /\ F1.receipt = F.receipt
      /\ F1.candidate = F.candidate /\ F1.recovery = F.recovery
  BY DEF Applied, Put
<1>. HIDE DEF F1
<1>2. /\ F2.folder = F1.folder /\ F2.state = F1.state
      /\ F2.receipt = [F1.receipt EXCEPT ![t][u.attempt] = u]
      /\ F2.candidate = F1.candidate /\ F2.recovery = F1.recovery
  BY DEF Applied, Put
<1>. HIDE DEF F2
<1>3. Applied(F2, Put("manifest", t, n)) = Rewritten(F, n, t, u)
  BY <1>1, <1>2 DEF Applied, Put, Rewritten
<1>. QED
  BY <1>3 DEF F1, F2

LEMMA WritePlan ==
  ASSUME NEW F, NEW m, NEW t \in Target, NEW u, Fits(F, m, t, u),
         NEW r \in Seq(Item), NEW s \in Seq(Item), Len(s) = Len(r) + 3,
         s[1] = Put("state", t, u), s[2] = Put("receipt", t, u),
         s[3] = Put("manifest", t, Chained(m, t, u)),
         \A i \in 1 .. Len(r) : s[i + 3] = r[i],
         Sane(F) \/ MidIn(F, After(s, 0)),
         HasPlan(Rewritten(F, Chained(m, t, u), t, u), r)
  PROVE  HasPlan(F, s)
<1>. DEFINE s1 == Tail(s)
            s2 == Tail(s1)
            n  == Chained(m, t, u)
            F1 == Applied(F, s[1])
            F2 == Applied(F1, s[2])
            F3 == Applied(F2, s[3])
<1>1. /\ s1 \in Seq(Item) /\ Len(s1) = Len(r) + 2 /\ Len(s) = Len(s1) + 1
      /\ \A i \in 1 .. Len(s1) : s[i + 1] = s1[i]
      /\ Len(r) \in Nat /\ s1 # <<>>
  <2>1. s # <<>> /\ Len(r) \in Nat
    OBVIOUS
  <2>2. /\ s1 \in Seq(Item) /\ Len(s1) = Len(s) - 1 /\ Len(s) \in Nat
        /\ \A i \in 1 .. Len(s1) : s1[i] = s[i + 1]
    BY <2>1, FirstAndRest
  <2>. HIDE DEF s1
  <2>. QED
    BY <2>1, <2>2
<1>2. /\ s2 \in Seq(Item) /\ Len(s2) = Len(r) + 1 /\ Len(s1) = Len(s2) + 1
      /\ \A i \in 1 .. Len(s2) : s1[i + 1] = s2[i]
  <2>. HIDE DEF s1
  <2>1. /\ s2 \in Seq(Item) /\ Len(s2) = Len(s1) - 1 /\ Len(s1) \in Nat
        /\ \A i \in 1 .. Len(s2) : s2[i] = s1[i + 1]
    BY <1>1, FirstAndRest
  <2>. HIDE DEF s2
  <2>. QED
    BY <1>1, <2>1
<1>. HIDE DEF s1, s2
<1>3. s1[1] = s[2] /\ s2[1] = s[3] /\ \A i \in 1 .. Len(r) : s2[i + 1] = r[i]
  <2>1. 1 \in 1 .. Len(s1) /\ 1 \in 1 .. Len(s2) /\ 2 \in 1 .. Len(s1)
        /\ 1 + 1 = 2 /\ 2 + 1 = 3
    BY <1>1, <1>2
  <2>2. s1[1] = s[2] /\ s1[2] = s[3] /\ s2[1] = s1[2]
    BY <1>1, <1>2, <2>1
  <2>3. ASSUME NEW i \in 1 .. Len(r) PROVE s2[i + 1] = r[i]
    <3>1. i + 1 \in 1 .. Len(s2) /\ i + 2 \in 1 .. Len(s1)
          /\ (i + 1) + 1 = i + 2 /\ (i + 2) + 1 = i + 3
      BY <1>1, <1>2
    <3>2. s1[i + 2] = s2[i + 1] /\ s[i + 3] = s1[i + 2]
      BY <1>1, <1>2, <3>1
    <3>. QED
      BY <3>2
  <2>. QED
    BY <2>2, <2>3
<1>4. F3 = Rewritten(F, n, t, u)
  BY FilesOfRecord
<1>5. /\ F1.state = [F.state EXCEPT ![t] = u] /\ F1.manifest = F.manifest
      /\ F2.state = F1.state /\ F2.manifest = F.manifest
      /\ F.state \in [Target -> Record]
      /\ s[2].target = t /\ s[3].target = t
  BY DEF Applied, Put, Fits, Beside, Founded, Disk
<1>. HIDE DEF F1, F2
<1>6. /\ F1.state[t] = u /\ F2.state[t] = u /\ u # Absent
      /\ \A i \in DOMAIN F.manifest.chain[t] : F.manifest.chain[t][i].digest # u.digest
  BY <1>5 DEF Fits, Proper, Status, Absent
<1>7. t \in After(s1, 0) /\ t \in After(s2, 0)
  <2>1. 1 \in (0 + 1) .. Len(s1) /\ 1 \in (0 + 1) .. Len(s2)
    BY <1>1, <1>2
  <2>2. s1[1].target \in After(s1, 0) /\ s2[1].target \in After(s2, 0)
    BY <2>1, Zenon DEF After
  <2>. QED
    BY <1>3, <1>5, <2>2
<1>8. MidIn(F1, After(s1, 0)) /\ MidIn(F2, After(s2, 0))
  BY <1>5, <1>6, <1>7 DEF MidIn
<1>9. HasPlan(Applied(F2, s2[1]), r)
  BY <1>3, <1>4 DEF F2
<1>10. HasPlan(F2, s2)
  BY <1>2, <1>3, <1>8, <1>9, PlanFirst
<1>11. HasPlan(Applied(F1, s1[1]), s2)
  BY <1>3, <1>10 DEF F2
<1>12. HasPlan(F1, s1)
  BY <1>1, <1>2, <1>8, <1>11, PlanFirst
<1>. QED
  BY <1>1, <1>12, PlanFirst DEF F1

\* the files of a record alone
LEMMA WriteStatePlan ==
  ASSUME NEW F, NEW m, NEW t \in Target, NEW u, Fits(F, m, t, u),
         Sane(F) \/ F.state[t] = Absent
  PROVE  HasPlan(F, WriteState(m, t, u))
<1>. DEFINE s == WriteState(m, t, u)
            n == Chained(m, t, u)
<1>1. m \in Manifest /\ u \in Record /\ t \in F.folder
  BY DEF Fits
<1>2. /\ s \in Seq(Item) /\ Len(s) = 3
      /\ s[1] = Put("state", t, u) /\ s[2] = Put("receipt", t, u) /\ s[3] = Put("manifest", t, n)
  BY <1>1, WriteStateFiles
<1>. HIDE DEF s
<1>3. HasPlan(Rewritten(F, n, t, u), <<>>)
  BY SaneWrite, PlanDone
<1>. HIDE DEF n
<1>4. Sane(F) \/ MidIn(F, After(s, 0))
  <2>1. s[1].target = t /\ 1 \in (0 + 1) .. Len(s)
    BY <1>2 DEF Put
  <2>2. s[1].target \in After(s, 0)
    BY <2>1, Zenon DEF After
  <2>. QED
    BY <1>1, <2>1, <2>2 DEF MidIn
<1>5. /\ <<>> \in Seq(Item) /\ Len(s) = Len(<<>>) + 3
      /\ \A i \in 1 .. Len(<<>>) : s[i + 3] = <<>>[i]
  BY <1>2
<1>. QED
  BY <1>2, <1>3, <1>4, <1>5, WritePlan DEF n, s

Begun(w) ==
  \E s \in Seq(Item) :
    /\ s # <<>> /\ HasPlan(Now, s)
    /\ lock' = w /\ job' = [job EXCEPT ![w] = s]
    /\ UNCHANGED <<files, torn>>

LEMMA PlanBegins ==
  ASSUME NEW w, NEW s \in Seq(Item), s # <<>>, NEW k, Begin(w, s, k), HasPlan(Now, s)
  PROVE  Begun(w)
BY DEF Begin, Begun

\* a record, alone
LEMMA UpdatePlanned ==
  ASSUME NEW w, NEW t \in Target, NEW u, Typing, Sane(Now),
         Fits(Now, manifest, t, u), Begin(w, <<>> \o WriteState(manifest, t, u), 1)
  PROVE  Begun(w)
<1>. DEFINE s == WriteState(manifest, t, u)
<1>1. s \in Seq(Item) /\ Len(s) = 3
  BY WriteStateFiles DEF Fits
<1>2. HasPlan(Now, s)
  BY WriteStatePlan
<1>. HIDE DEF s
<1>3. <<>> \o s = s /\ s # <<>>
  BY <1>1, ConcatEmptySeq
<1>4. Begin(w, s, 1)
  BY <1>3 DEF s
<1>. QED
  BY <1>1, <1>2, <1>3, <1>4, PlanBegins

\* ... and behind a file of its own
LEMMA PrefixPlanned ==
  ASSUME NEW w, NEW t \in Target, NEW u, NEW m, NEW a \in Item, Sane(Now),
         Sane(Applied(Now, a)) \/ Applied(Now, a).state[t] = Absent,
         Fits(Applied(Now, a), m, t, u), Begin(w, <<a>> \o WriteState(m, t, u), 1)
  PROVE  Begun(w)
<1>. DEFINE r == WriteState(m, t, u)
            q == <<a>>
            s == q \o r
<1>1. r \in Seq(Item) /\ Len(r) = 3
  BY WriteStateFiles DEF Fits
<1>2. HasPlan(Applied(Now, a), r)
  BY WriteStatePlan
<1>3. q \in Seq(Item) /\ Len(q) = 1 /\ q[1] = a /\ Begin(w, s, 1)
  OBVIOUS
<1>. HIDE DEF r, q
<1>4. /\ s \in Seq(Item) /\ Len(s) = Len(q) + Len(r)
      /\ \A i \in 1 .. (Len(q) + Len(r)) : s[i] = IF i <= Len(q) THEN q[i] ELSE r[i - Len(q)]
  BY <1>1, <1>3, Concatenated, Zenon
<1>. HIDE DEF s
<1>5. Len(s) = Len(r) + 1 /\ s[1] = a /\ \A i \in 1 .. Len(r) : s[i + 1] = r[i]
  BY <1>1, <1>3, <1>4
<1>6. HasPlan(Now, s)
  BY <1>1, <1>2, <1>4, <1>5, PlanFirst
<1>7. s # <<>>
  BY <1>1, <1>5
<1>. QED
  BY <1>3, <1>4, <1>6, <1>7, PlanBegins

\* files in which what no record names has changed
LEMMA SaneBeside ==
  ASSUME NEW F, NEW G \in Disk, Sane(F),
         G.manifest = F.manifest, G.folder = F.folder, G.state = F.state,
         G.receipt = F.receipt, F.recovery \subseteq G.recovery,
         \A v \in F.folder : F.state[v].candidate # 0 =>
           G.candidate[v][F.state[v].attempt] = F.candidate[v][F.state[v].attempt]
  PROVE  Sane(G)
<1>1. \A v \in Target : LedgerIn(F, F.manifest, v) => LedgerIn(G, G.manifest, v)
  BY DEF LedgerIn
<1>2. Founded(G)
  BY <1>1 DEF Sane, Founded
<1>3. \A v \in G.folder : RecordIn(G, v)
  BY RecordSame DEF Sane
<1>. QED
  BY <1>2, <1>3 DEF Sane

\* files in which the manifest has changed, but for its chains
LEMMA SaneManifest ==
  ASSUME NEW F, NEW n \in Manifest, NEW t, Sane(F), n.chain = F.manifest.chain,
         \A v \in Target : LedgerIn(F, n, v),
         \A v \in Target \ F.folder : n.ledger[v] = F.manifest.ledger[v],
         \A v \in F.folder : NamedIn(F, n, v, F.state[v])
  PROVE  Sane(Applied(F, Put("manifest", t, n)))
<1>. DEFINE G == Applied(F, Put("manifest", t, n))
<1>1. /\ G.manifest = n /\ G.folder = F.folder /\ G.state = F.state /\ G.receipt = F.receipt
      /\ G.candidate = F.candidate /\ G.recovery = F.recovery
      /\ G = [manifest |-> n, folder |-> F.folder, state |-> F.state, receipt |-> F.receipt,
              candidate |-> F.candidate, recovery |-> F.recovery]
  BY DEF Applied, Put
<1>. HIDE DEF G
<1>2. F \in Disk
  BY DEF Sane, Founded
<1>3. G \in Disk
  BY <1>1, <1>2 DEF Disk
<1>4. \A v \in Target : LedgerIn(G, n, v)
  BY <1>1 DEF LedgerIn
<1>5. Founded(G)
  BY <1>1, <1>3, <1>4 DEF Sane, Founded
<1>6. ASSUME NEW v \in G.folder PROVE RecordIn(G, v)
  <2>1. NamedIn(G, n, v, F.state[v])
    BY <1>1 DEF NamedIn
  <2>. QED
    BY <1>1, <2>1 DEF Sane, RecordIn
<1>7. Sane(G)
  BY <1>5, <1>6 DEF Sane
<1>. QED
  BY <1>7 DEF G

-----------------------------------------------------------------------------
(* What each method writes fits.                                            *)

LEMMA SaneRecord ==
  ASSUME NEW t \in Target, Sane(Now), state[t] # Absent
  PROVE  /\ t \in folder /\ Proper(state[t]) /\ manifest.chain[t] # <<>>
         /\ Last(manifest.chain[t]).attempt = state[t].attempt
         /\ NamedIn(Now, manifest, t, state[t])
         /\ \/ receipt[t][state[t].attempt] = state[t]
            \/ state[t].status = "running"
BY NowIs DEF Sane, Founded, RecordIn

LEMMA FreshDigest ==
  ASSUME NEW t \in Target, Typing, Counted
  PROVE  /\ \A i \in DOMAIN manifest.chain[t] : manifest.chain[t][i].digest # Digest
         /\ Digest = writes + 1 /\ Digest \in Int /\ Digest # 0
<1>1. manifest.chain[t] \in Seq(Entry) /\ writes \in Nat
  BY DEF Typing, Manifest, Counted
<1>2. \A i \in DOMAIN manifest.chain[t] :
        manifest.chain[t][i].digest \in Int /\ manifest.chain[t][i].digest <= writes
  <2>. SUFFICES ASSUME NEW i \in DOMAIN manifest.chain[t]
                PROVE  /\ manifest.chain[t][i].digest \in Int
                       /\ manifest.chain[t][i].digest <= writes
    OBVIOUS
  <2>1. manifest.chain[t][i] \in Entry
    BY <1>1
  <2>. QED
    BY <2>1 DEF Counted, UpTo, Entry
<1>. QED
  BY <1>1, <1>2 DEF Digest

\* a record that its executor has not ended, or not for good
LEMMA UpdateFits ==
  ASSUME NEW F, NEW t \in F.folder, NEW u \in Record, Sane(F),
         F.state[t].status \in {"running", "success_candidate", "ambiguous"},
         u.attempt = F.state[t].attempt, u.recovered = F.state[t].recovered, Proper(u),
         IF u.candidate = 0 THEN u.status # "success_candidate"
                            ELSE F.candidate[t][u.attempt] = u.candidate,
         \A i \in DOMAIN F.manifest.chain[t] : F.manifest.chain[t][i].digest # u.digest
  PROVE  Fits(F, F.manifest, t, u)
<1>. DEFINE m == F.manifest
            s == F.state[t]
<1>1. /\ F \in Disk /\ m \in Manifest /\ t \in Target /\ Founded(F)
      /\ \A v \in F.folder : RecordIn(F, v)
  BY DEF Sane, Founded, Disk
<1>2. Beside(F, t)
  BY <1>1 DEF Beside
<1>3. LedgerIn(F, m, t)
  BY <1>1 DEF Founded
<1>4. /\ m.chain[t] # <<>> /\ Last(m.chain[t]).attempt = s.attempt
      /\ NamedIn(F, m, t, s)
  BY <1>1 DEF RecordIn
<1>5. LedgerReflected(m, t, u)
  <2>1. LedgerReflected(m, t, s)
    BY <1>4 DEF NamedIn
  <2>2. s.status # "failed"
    OBVIOUS
  <2>. QED
    BY <2>1, <2>2 DEF LedgerReflected
<1>6. NamedIn(F, m, t, u)
  BY <1>4, <1>5 DEF NamedIn
<1>. QED
  BY <1>1, <1>2, <1>3, <1>4, <1>6 DEF Fits

\* PrepareAmbiguous, MarkSideEffect, RecordFailure and MarkCompleted
LEMMA UpdateBegins ==
  ASSUME NEW w, NEW t \in Target, NEW s \in Record, Typing, Counted, Sane(Now),
         state[t].status \in {"running", "success_candidate", "ambiguous"},
         s.attempt = state[t].attempt, s.recovered = state[t].recovered,
         s.candidate = state[t].candidate, s.status \in Status, s.status # "success_candidate",
         s.status # "completed" => state[t].status # "success_candidate",
         Update(w, t, s, <<>>)
  PROVE  Begun(w)
<1>. DEFINE u == [s EXCEPT !.digest = Digest]
<1>1. Begin(w, <<>> \o WriteState(manifest, t, u), 1)
  BY DEF Update
<1>2. /\ u \in Record /\ u.digest = Digest /\ u.attempt = s.attempt /\ u.status = s.status
      /\ u.recovered = s.recovered /\ u.candidate = s.candidate
  BY FreshDigest DEF Record
<1>. HIDE DEF u
<1>3. state[t] # Absent
  BY DEF Absent
<1>4. /\ t \in folder /\ Proper(state[t]) /\ NamedIn(Now, manifest, t, state[t])
  BY <1>3, SaneRecord
<1>5. Proper(u)
  BY <1>2, <1>4 DEF Proper
<1>6. IF u.candidate = 0 THEN u.status # "success_candidate"
                         ELSE Now.candidate[t][u.attempt] = u.candidate
  BY <1>2, <1>4 DEF NamedIn
<1>7. Fits(Now, manifest, t, u)
  BY <1>2, <1>4, <1>5, <1>6, FreshDigest, UpdateFits, NowIs
<1>. QED
  BY <1>1, <1>7, UpdatePlanned

LEMMA CandidateBegins ==
  ASSUME NEW w, NEW t \in Target, Typing, Counted, Sane(Now), SaveCandidate(w, t)
  PROVE  Begun(w)
<1>. DEFINE s == state[t]
            e == [attempt |-> s.attempt, digest |-> Digest]
            u == [s EXCEPT !.status = "success_candidate", !.candidate = Digest,
                           !.digest = Digest]
            a == Put("candidate", t, e)
            G == Applied(Now, a)
<1>1. Begin(w, <<a>> \o WriteState(manifest, t, u), 1) /\ s.status = "running"
  BY DEF SaveCandidate, Update, Executing
<1>2. /\ Digest \in Int /\ Digest # 0 /\ s \in Record /\ s.attempt \in Int
  BY FreshDigest DEF Typing, Record
<1>3. s # Absent
  BY <1>1 DEF Absent
<1>4. /\ t \in folder /\ Proper(s) /\ NamedIn(Now, manifest, t, s)
  BY <1>3, SaneRecord
<1>5. s.candidate = 0 /\ s.attempt \in Attempt
  BY <1>1, <1>4 DEF Proper
<1>6. /\ u \in Record /\ u.digest = Digest /\ u.attempt = s.attempt
      /\ u.recovered = s.recovered /\ u.candidate = Digest /\ u.status = "success_candidate"
  BY <1>2 DEF Record, Status
<1>7. a \in Item
  BY <1>2 DEF Put, Item, Entry
<1>8. Now \in Disk
  BY DEF Sane, Founded
<1>9. /\ G.manifest = manifest /\ G.folder = folder /\ G.state = state /\ G.receipt = receipt
      /\ G.candidate = [candidate EXCEPT ![t][s.attempt] = Digest] /\ G.recovery = recovery
      /\ G = [manifest |-> manifest, folder |-> folder, state |-> state, receipt |-> receipt,
              candidate |-> [candidate EXCEPT ![t][s.attempt] = Digest], recovery |-> recovery]
  BY NowIs DEF Applied, Put
<1>10. /\ G.candidate \in [Target -> [Attempt -> Int]] /\ G.candidate[t][s.attempt] = Digest
       /\ \A v \in Target : v # t => G.candidate[v] = candidate[v]
  <2>1. candidate \in [Target -> [Attempt -> Int]]
    BY <1>8, NowIs DEF Disk
  <2>2. candidate[t] \in [Attempt -> Int]
    BY <2>1
  <2>. HIDE DEF G, s
  <2>. QED
    BY <1>2, <1>5, <1>9, <2>1, <2>2
<1>. HIDE DEF G, u, a
<1>11. G \in Disk
  BY <1>8, <1>9, <1>10, NowIs DEF Disk
<1>12. Sane(G)
  <2>1. folder \subseteq Target
    BY DEF Typing
  <2>2. \A v \in Now.folder : Now.state[v].candidate # 0 =>
           G.candidate[v][Now.state[v].attempt] = Now.candidate[v][Now.state[v].attempt]
    BY <1>5, <1>10, <2>1, NowIs
  <2>. QED
    BY <1>9, <1>11, <2>2, SaneBeside, NowIs
<1>13. Proper(u)
  BY <1>5, <1>6 DEF Proper, Status
<1>14. Fits(G, manifest, t, u)
  <2>1. \A i \in DOMAIN G.manifest.chain[t] : G.manifest.chain[t][i].digest # u.digest
    BY <1>6, <1>9, FreshDigest
  <2>2. /\ t \in G.folder /\ G.state[t] = s /\ u.candidate # 0
        /\ G.candidate[t][u.attempt] = u.candidate /\ G.manifest = manifest
    BY <1>2, <1>4, <1>6, <1>9, <1>10
  <2>. HIDE DEF s
  <2>. QED
    BY <1>1, <1>6, <1>12, <1>13, <2>1, <2>2, UpdateFits
<1>. QED
  BY <1>1, <1>7, <1>12, <1>14, PrefixPlanned DEF G

\* a recovery receipt that no record names yet
LEMMA RecoveryApplied ==
  ASSUME NEW t, NEW d \in Int, Sane(Now)
  PROVE  LET G == Applied(Now, Put("recovery", t, d)) IN
         /\ G.manifest = manifest /\ G.folder = folder /\ G.state = state
         /\ G.receipt = receipt /\ G.candidate = candidate /\ G.recovery = recovery \cup {d}
         /\ Sane(G)
<1>. DEFINE G == Applied(Now, Put("recovery", t, d))
<1>1. Now \in Disk
  BY DEF Sane, Founded
<1>2. /\ G.manifest = manifest /\ G.folder = folder /\ G.state = state
      /\ G.receipt = receipt /\ G.candidate = candidate /\ G.recovery = recovery \cup {d}
      /\ G = [manifest |-> manifest, folder |-> folder, state |-> state, receipt |-> receipt,
              candidate |-> candidate, recovery |-> recovery \cup {d}]
  BY NowIs DEF Applied, Put
<1>. HIDE DEF G
<1>3. G \in Disk
  BY <1>1, <1>2, NowIs DEF Disk
<1>4. Sane(G)
  BY <1>2, <1>3, SaneBeside, NowIs
<1>. QED
  BY <1>2, <1>4 DEF G

\* the ledger of t with one decision more
LEMMA DecidedLedger ==
  ASSUME NEW t \in Target, NEW to \in Int, NEW file \in Int, Typing
  PROVE  LET m == Decided(manifest, t, to, file)
             d == [from |-> state[t].attempt, to |-> to, receipt |-> file]
             k == Len(manifest.ledger[t]) + 1
         IN /\ m \in Manifest /\ m.chain = manifest.chain
            /\ \A v \in Target : v # t => m.ledger[v] = manifest.ledger[v]
            /\ k \in DOMAIN m.ledger[t] /\ m.ledger[t][k] = d
            /\ DOMAIN manifest.ledger[t] \subseteq DOMAIN m.ledger[t]
            /\ \A i \in DOMAIN m.ledger[t] :
                 i # k => i \in DOMAIN manifest.ledger[t]
            /\ \A i \in DOMAIN manifest.ledger[t] :
                 /\ m.ledger[t][i] = manifest.ledger[t][i]
                 /\ manifest.ledger[t][i] \in Decision
<1>. DEFINE m == Decided(manifest, t, to, file)
            d == [from |-> state[t].attempt, to |-> to, receipt |-> file]
            l == manifest.ledger[t]
            k == Len(l) + 1
<1>1. d \in Decision /\ l \in Seq(Decision) /\ m \in Manifest
  BY DecidedCovers DEF Decision, Typing, Record, Manifest
<1>2. /\ m.chain = manifest.chain
      /\ m.ledger = [manifest.ledger EXCEPT ![t] = Append(l, d)]
  BY DEF Decided, Typing, Manifest
<1>3. /\ \A v \in Target : v # t => m.ledger[v] = manifest.ledger[v]
      /\ m.ledger[t] = Append(l, d)
  BY <1>2 DEF Typing, Manifest
<1>. HIDE DEF m, d, l
<1>4. /\ k \in DOMAIN Append(l, d) /\ Append(l, d)[k] = d
      /\ DOMAIN l \subseteq DOMAIN Append(l, d)
      /\ \A i \in DOMAIN Append(l, d) : i # k => i \in DOMAIN l
      /\ \A i \in DOMAIN l : Append(l, d)[i] = l[i] /\ l[i] \in Decision
  BY <1>1
<1>5. /\ m \in Manifest /\ m.chain = manifest.chain
      /\ \A v \in Target : v # t => m.ledger[v] = manifest.ledger[v]
      /\ k \in DOMAIN m.ledger[t] /\ m.ledger[t][k] = d
      /\ DOMAIN l \subseteq DOMAIN m.ledger[t]
      /\ \A i \in DOMAIN m.ledger[t] : i # k => i \in DOMAIN l
      /\ \A i \in DOMAIN l : m.ledger[t][i] = l[i] /\ l[i] \in Decision
  BY <1>1, <1>2, <1>3, <1>4
<1>. QED
  BY <1>5 DEF m, d, l

LEMMA RecoverRetryBegins ==
  ASSUME NEW w, NEW t \in Target, Typing, Counted, Sane(Now), RecoverRetry(w, t)
  PROVE  Begun(w)
<1>. DEFINE s == state[t]
            to == s.attempt + 1
            m == Decided(manifest, t, to, Digest)
            d == [from |-> s.attempt, to |-> to, receipt |-> Digest]
            k == Len(manifest.ledger[t]) + 1
            u == [s EXCEPT !.status = "retry_scheduled", !.attempt = to,
                    !.next = to, !.recovered = Digest, !.digest = Digest]
            a == Put("recovery", t, Digest)
            G == Applied(Now, a)
<1>1. /\ Begin(w, <<a>> \o WriteState(m, t, u), 1)
      /\ s.status = "failed" /\ to <= LastAttempt
      /\ \A i \in DOMAIN manifest.ledger[t] : manifest.ledger[t][i].from # s.attempt
  <2>1. Begin(w, <<a>> \o WriteState(m, t, u), 1)
    BY DEF RecoverRetry, RecoveryReceipt
  <2>2. /\ s.status = "failed" /\ to <= LastAttempt
        /\ \A i \in DOMAIN manifest.ledger[t] : manifest.ledger[t][i].from # s.attempt
    BY Zenon DEF RecoverRetry, Undecided
  <2>. QED
    BY <2>1, <2>2
<1>2. /\ Digest \in Int /\ Digest # 0 /\ s \in Record /\ s.attempt \in Int /\ to \in Int
  <2>1. Digest \in Int /\ Digest # 0
    BY FreshDigest
  <2>2. s \in Record
    BY DEF Typing
  <2>3. s.attempt \in Int
    BY <2>2 DEF Record
  <2>. QED
    BY <2>1, <2>2, <2>3
<1>3. s # Absent
  BY <1>1 DEF Absent
<1>4. /\ t \in folder /\ Proper(s) /\ NamedIn(Now, manifest, t, s)
      /\ Last(manifest.chain[t]).attempt = s.attempt
      /\ receipt[t][s.attempt] = s
  BY <1>1, <1>3, SaneRecord
<1>5. s.candidate = 0 /\ s.attempt \in Attempt /\ to \in Attempt
  BY <1>1, <1>4, ReceiptChainAssumption DEF Proper, Attempt
<1>6. /\ u \in Record /\ u.digest = Digest /\ u.attempt = to /\ u.next = to
      /\ u.recovered = Digest /\ u.candidate = 0 /\ u.status = "retry_scheduled"
  <2>1. u \in Record
    BY <1>2, Altered, StatusNames, Zenon
  <2>2. u.candidate = s.candidate
    BY <1>2 DEF Record
  <2>. QED
    BY <1>2, <1>5, <2>1, <2>2 DEF Record
<1>7. a \in Item
  BY <1>2 DEF Put, Item
<1>8. /\ G.manifest = manifest /\ G.folder = folder /\ G.state = state
      /\ G.receipt = receipt /\ G.recovery = recovery \cup {Digest} /\ Sane(G)
  BY <1>2, RecoveryApplied
<1>9. /\ m \in Manifest /\ m.chain = manifest.chain
      /\ \A v \in Target : v # t => m.ledger[v] = manifest.ledger[v]
      /\ k \in DOMAIN m.ledger[t] /\ m.ledger[t][k] = d
      /\ \A i \in DOMAIN m.ledger[t] : i # k => i \in DOMAIN manifest.ledger[t]
      /\ \A i \in DOMAIN manifest.ledger[t] :
           m.ledger[t][i] = manifest.ledger[t][i] /\ manifest.ledger[t][i] \in Decision
  BY <1>2, DecidedLedger
<1>10. d.from = s.attempt /\ d.to = to /\ d.receipt = Digest
  OBVIOUS
<1>. HIDE DEF G, u, a, m, d, k
<1>11. LedgerIn(G, m, t)
  <2>1. LedgerIn(G, manifest, t)
    BY <1>8 DEF Sane, Founded
  <2>. QED
    BY <1>8, <1>9, <1>10, <2>1 DEF LedgerIn
<1>12. LedgerReflected(m, t, u)
  <2>. SUFFICES ASSUME NEW i \in DOMAIN m.ledger[t]
                PROVE  /\ m.ledger[t][i].to # m.ledger[t][i].from
                       /\ u.attempt >= m.ledger[t][i].to
    BY DEF LedgerReflected
  <2>1. CASE i = k
    BY <1>2, <1>6, <1>9, <1>10, <2>1
  <2>2. CASE i # k
    <3>1. /\ i \in DOMAIN manifest.ledger[t] /\ m.ledger[t][i] = manifest.ledger[t][i]
          /\ manifest.ledger[t][i] \in Decision
      BY <1>9, <2>2
    <3>2. IF manifest.ledger[t][i].to = manifest.ledger[t][i].from
          THEN s.attempt = manifest.ledger[t][i].from
          ELSE s.attempt >= manifest.ledger[t][i].to
      BY <1>4, <3>1 DEF NamedIn, LedgerReflected
    <3>3. manifest.ledger[t][i].to \in Int
      BY <3>1 DEF Decision
    <3>. QED
      BY <1>1, <1>2, <1>6, <3>1, <3>2, <3>3
  <2>. QED
    BY <2>1, <2>2
<1>13. NamedIn(G, m, t, u)
  BY <1>6, <1>8, <1>9, <1>10, <1>12 DEF NamedIn
<1>14. Proper(u)
  BY <1>5, <1>6 DEF Proper, Status
<1>15. Beside(G, t)
  BY <1>8 DEF Sane, Beside
<1>16. \A i \in DOMAIN m.chain[t] : m.chain[t][i].digest # u.digest
  BY <1>6, <1>9, FreshDigest
<1>17. Fits(G, m, t, u)
  <2>1. G.receipt[t][Last(m.chain[t]).attempt] # Absent
    BY <1>3, <1>4, <1>8, <1>9
  <2>2. t \in G.folder
    BY <1>4, <1>8
  <2>3. /\ m.chain = G.manifest.chain
        /\ \A v \in Target \ {t} : m.ledger[v] = G.manifest.ledger[v]
    BY <1>8, <1>9
  <2>. HIDE DEF s
  <2>. QED
    BY <1>6, <1>9, <1>11, <1>13, <1>14, <1>15, <1>16, <2>1, <2>2, <2>3 DEF Fits
<1>. QED
  BY <1>1, <1>7, <1>8, <1>17, PrefixPlanned DEF G

\* one file more, and sane files
LEMMA OnePlanned ==
  ASSUME NEW F, NEW a \in Item, Sane(F), Sane(Applied(F, a))
  PROVE  <<a>> \in Seq(Item) /\ Len(<<a>>) = 1 /\ <<a>>[1] = a /\ HasPlan(F, <<a>>)
<1>. DEFINE s == <<a>>
<1>1. s \in Seq(Item) /\ Len(s) = 1 /\ s[1] = a
  OBVIOUS
<1>2. HasPlan(Applied(F, a), <<>>)
  BY PlanDone
<1>. HIDE DEF s
<1>3. /\ <<>> \in Seq(Item) /\ Len(s) = Len(<<>>) + 1
      /\ \A i \in 1 .. Len(<<>>) : s[i + 1] = <<>>[i]
  BY <1>1
<1>4. HasPlan(F, s)
  BY <1>1, <1>2, <1>3, PlanFirst
<1>. QED
  BY <1>1, <1>4 DEF s

LEMMA PublishBegins ==
  ASSUME NEW w, Typing, Counted, Sane(Now), Publish(w) PROVE Begun(w)
<1>1. PICK x \in RunStatus :
        Begin(w, <<Put("manifest", NoOne, [manifest EXCEPT !.status = x])>>, 0)
  BY DEF Publish, RunStatus
<1>. DEFINE n == [manifest EXCEPT !.status = x]
            b == Put("manifest", NoOne, n)
<1>2. n \in Manifest /\ n.chain = manifest.chain /\ n.ledger = manifest.ledger
  BY DEF Typing, Manifest
<1>3. b \in Item
  BY <1>2 DEF Put, Item
<1>. HIDE DEF n
<1>4. \A v \in Target : LedgerIn(Now, n, v)
  BY <1>2, NowIs DEF Sane, Founded, LedgerIn
<1>5. \A v \in folder : NamedIn(Now, n, v, state[v])
  <2>. SUFFICES ASSUME NEW v \in folder PROVE NamedIn(Now, n, v, state[v])
    OBVIOUS
  <2>1. NamedIn(Now, manifest, v, state[v])
    BY NowIs DEF Sane, RecordIn
  <2>. QED
    BY <1>2, <2>1 DEF NamedIn, LedgerReflected
<1>6. Sane(Applied(Now, b))
  BY <1>2, <1>4, <1>5, SaneManifest, NowIs
<1>7. Begin(w, <<b>>, 0)
  BY <1>1 DEF n
<1>. HIDE DEF b
<1>8. <<b>> \in Seq(Item) /\ <<b>> # <<>> /\ HasPlan(Now, <<b>>)
  BY <1>3, <1>6, OnePlanned
<1>. QED
  BY <1>7, <1>8, PlanBegins

LEMMA RecoverFailBegins ==
  ASSUME NEW w, NEW t \in Target, Typing, Counted, Sane(Now), RecoverFail(w, t)
  PROVE  Begun(w)
<1>. DEFINE s == state[t]
            m == Decided(manifest, t, s.attempt, Digest)
            d == [from |-> s.attempt, to |-> s.attempt, receipt |-> Digest]
            k == Len(manifest.ledger[t]) + 1
            a == Put("recovery", t, Digest)
            b == Put("manifest", t, m)
            G == Applied(Now, a)
<1>1. /\ Begin(w, <<a>> \o <<b>>, 1)
      /\ s.status = "failed"
  BY DEF RecoverFail, RecoveryReceipt, Undecided
<1>2. /\ Digest \in Int /\ s.attempt \in Int
  BY FreshDigest DEF Typing, Record
<1>3. s # Absent
  BY <1>1 DEF Absent
<1>4. t \in folder /\ NamedIn(Now, manifest, t, s)
  BY <1>3, SaneRecord
<1>5. /\ G.manifest = manifest /\ G.folder = folder /\ G.state = state /\ G.receipt = receipt
      /\ G.candidate = candidate /\ G.recovery = recovery \cup {Digest} /\ Sane(G)
  BY <1>2, RecoveryApplied
<1>6. /\ m \in Manifest /\ m.chain = manifest.chain
      /\ \A v \in Target : v # t => m.ledger[v] = manifest.ledger[v]
      /\ m.ledger[t][k] = d
      /\ DOMAIN manifest.ledger[t] \subseteq DOMAIN m.ledger[t]
      /\ \A i \in DOMAIN m.ledger[t] : i # k => i \in DOMAIN manifest.ledger[t]
      /\ \A i \in DOMAIN manifest.ledger[t] : m.ledger[t][i] = manifest.ledger[t][i]
  BY <1>2, DecidedLedger
<1>7. d.from = s.attempt /\ d.to = s.attempt /\ d.receipt = Digest
  OBVIOUS
<1>8. a \in Item /\ b \in Item
  BY <1>2, <1>6 DEF Put, Item
<1>. HIDE DEF G, m, d, k
<1>9. ASSUME NEW v \in Target PROVE LedgerIn(G, m, v)
  <2>1. LedgerIn(G, manifest, v)
    BY <1>5 DEF Sane, Founded
  <2>2. CASE v = t
    BY <1>5, <1>6, <1>7, <2>1, <2>2 DEF LedgerIn
  <2>3. CASE v # t
    BY <1>6, <2>1, <2>3 DEF LedgerIn
  <2>. QED
    BY <2>2, <2>3
<1>10. ASSUME NEW v \in G.folder PROVE NamedIn(G, m, v, G.state[v])
  <2>1. v \in Target /\ NamedIn(G, manifest, v, state[v])
    BY <1>5 DEF Sane, RecordIn, Typing
  <2>2. CASE v = t
    <3>1. LedgerReflected(manifest, t, s)
      BY <1>4 DEF NamedIn
    <3>2. LedgerReflected(m, t, s)
      BY <1>1, <1>6, <1>7, <3>1 DEF LedgerReflected
    <3>. QED
      BY <1>5, <1>6, <2>1, <2>2, <3>2 DEF NamedIn
  <2>3. CASE v # t
    BY <1>5, <1>6, <2>1, <2>3 DEF NamedIn, LedgerReflected
  <2>. QED
    BY <2>2, <2>3
<1>11. Sane(Applied(G, b))
  <2>1. \A v \in Target \ G.folder : m.ledger[v] = G.manifest.ledger[v]
    BY <1>4, <1>5, <1>6
  <2>. QED
    BY <1>5, <1>6, <1>9, <1>10, <2>1, SaneManifest
<1>. HIDE DEF a, b
<1>. DEFINE q == <<a>>
            r == <<b>>
            z == q \o r
<1>12. q \in Seq(Item) /\ Len(q) = 1 /\ q[1] = a
  BY <1>8
<1>13. r \in Seq(Item) /\ Len(r) = 1 /\ r[1] = b /\ HasPlan(G, r)
  BY <1>5, <1>8, <1>11, OnePlanned
<1>14. Begin(w, z, 1)
  BY <1>1
<1>. HIDE DEF q, r
<1>15. /\ z \in Seq(Item) /\ Len(z) = Len(q) + Len(r)
       /\ \A i \in 1 .. (Len(q) + Len(r)) : z[i] = IF i <= Len(q) THEN q[i] ELSE r[i - Len(q)]
  BY <1>12, <1>13, Concatenated, Zenon
<1>. HIDE DEF z
<1>16. Len(z) = Len(r) + 1 /\ z[1] = a /\ \A i \in 1 .. Len(r) : z[i + 1] = r[i]
  BY <1>12, <1>13, <1>15
<1>17. HasPlan(Now, z) /\ z # <<>>
  <2>1. HasPlan(Applied(Now, z[1]), r)
    BY <1>13, <1>16 DEF G
  <2>2. z # <<>>
    BY <1>13, <1>15, <1>16
  <2>. QED
    BY <1>13, <1>15, <1>16, <2>1, <2>2, PlanFirst
<1>. QED
  BY <1>14, <1>15, <1>17, PlanBegins

\* the directory of a target, which may be there
LEMMA FolderApplied ==
  ASSUME NEW t \in Target, Sane(Now)
  PROVE  LET G == Applied(Now, Put("folder", t, t)) IN
         /\ G.manifest = manifest /\ G.folder = folder \cup {t} /\ G.state = state
         /\ G.receipt = receipt /\ G.candidate = candidate /\ G.recovery = recovery
         /\ Beside(G, t)
         /\ t \in folder => Sane(G)
<1>. DEFINE G == Applied(Now, Put("folder", t, t))
<1>1. Now \in Disk /\ Founded(Now) /\ \A v \in folder : RecordIn(Now, v)
  BY NowIs DEF Sane, Founded
<1>2. /\ G.manifest = manifest /\ G.folder = folder \cup {t} /\ G.state = state
      /\ G.receipt = receipt /\ G.candidate = candidate /\ G.recovery = recovery
      /\ G = [manifest |-> manifest, folder |-> folder \cup {t}, state |-> state,
              receipt |-> receipt, candidate |-> candidate, recovery |-> recovery]
  BY NowIs DEF Applied, Put
<1>. HIDE DEF G
<1>3. G \in Disk
  BY <1>1, <1>2, NowIs DEF Disk
<1>4. \A v \in Target : LedgerIn(Now, manifest, v) => LedgerIn(G, G.manifest, v)
  BY <1>2, NowIs DEF LedgerIn
<1>5. Founded(G)
  BY <1>1, <1>2, <1>3, <1>4, NowIs DEF Founded
<1>6. \A v \in G.folder \ {t} : RecordIn(G, v)
  BY <1>1, <1>2, RecordSame, NowIs
<1>7. t \in folder => Sane(G)
  BY <1>2, <1>3, SaneBeside, NowIs
<1>. QED
  BY <1>2, <1>5, <1>6, <1>7 DEF Beside, G

LEMMA StartAttemptBegins ==
  ASSUME NEW w, NEW t \in Target, NEW n \in Int, Typing, Counted, Sane(Now),
         \/ state[t] = Absent /\ n = 1
         \/ state[t].status = "running" /\ n = state[t].attempt
         \/ /\ state[t].status = "retry_scheduled"
            /\ n = state[t].attempt \/ n = state[t].attempt + 1,
         StartAttempt(w, t, n)
  PROVE  Begun(w)
<1>. DEFINE s == state[t]
            u == [Absent EXCEPT !.status = "running", !.attempt = n, !.digest = Digest]
            a == Put("folder", t, t)
            G == Applied(Now, a)
            m == manifest
<1>1. Begin(w, <<a>> \o WriteState(m, t, u), 1) /\ n <= LastAttempt
  BY DEF StartAttempt, MakeFolder
<1>2. /\ Digest \in Int /\ s \in Record /\ s.attempt \in Int
      /\ \A i \in DOMAIN m.chain[t] : m.chain[t][i].digest # Digest
  BY FreshDigest DEF Typing, Record
<1>3. /\ u \in Record /\ u.digest = Digest /\ u.attempt = n /\ u.status = "running"
      /\ u.candidate = 0 /\ u.recovered = 0
  <2>1. u \in Record
    BY <1>2, AbsentRecord DEF Record, Status
  <2>. QED
    BY <2>1 DEF Absent
<1>4. a \in Item
  BY DEF Put, Item
<1>5. /\ G.manifest = m /\ G.folder = folder \cup {t} /\ G.state = state
      /\ G.receipt = receipt /\ Beside(G, t) /\ (t \in folder => Sane(G))
  BY FolderApplied
<1>. HIDE DEF u, a, G
<1>6. /\ n \in Attempt /\ LedgerReflected(m, t, u)
      /\ \/ m.chain[t] = <<>>
         \/ Last(m.chain[t]).attempt = n
         \/ receipt[t][Last(m.chain[t]).attempt] # Absent
      /\ Sane(G) \/ s = Absent
  <2>1. CASE s = Absent
    <3>1. t \notin folder
      <4>1. t \in folder => s.status \in Status
        BY NowIs DEF Sane, RecordIn, Proper
      <4>. QED
        BY <2>1, <4>1 DEF Absent, Status
    <3>2. m.chain[t] = <<>> /\ m.ledger[t] = <<>>
      BY <3>1, NowIs DEF Sane, Founded
    <3>3. LedgerReflected(m, t, u)
      BY <3>2 DEF LedgerReflected
    <3>4. n = 1
      BY <2>1 DEF Absent
    <3>. QED
      BY <1>1, <2>1, <3>2, <3>3, <3>4 DEF Attempt
  <2>2. CASE s # Absent
    <3>1. /\ t \in folder /\ Proper(s) /\ NamedIn(Now, m, t, s)
          /\ Last(m.chain[t]).attempt = s.attempt
          /\ receipt[t][s.attempt] = s \/ s.status = "running"
      BY <2>2, SaneRecord
    <3>2. /\ n = s.attempt \/ n = s.attempt + 1
          /\ s.status = "running" => n = s.attempt
          /\ s.status # "failed"
      BY <2>2
    <3>3. n \in Attempt
      BY <1>1, <1>2, <3>1, <3>2, ReceiptChainAssumption DEF Proper, Attempt
    <3>4. LedgerReflected(m, t, u)
      <4>. SUFFICES ASSUME NEW i \in DOMAIN m.ledger[t]
                    PROVE  /\ m.ledger[t][i].to # m.ledger[t][i].from
                           /\ n >= m.ledger[t][i].to
        BY <1>3 DEF LedgerReflected
      <4>1. /\ m.ledger[t][i].to # m.ledger[t][i].from
            /\ s.attempt >= m.ledger[t][i].to
        BY <3>1, <3>2 DEF NamedIn, LedgerReflected
      <4>2. m.ledger[t][i].to \in Int
        <5>1. m.ledger[t] \in Seq(Decision)
          BY DEF Typing, Manifest
        <5>2. m.ledger[t][i] \in Decision
          BY <5>1
        <5>. QED
          BY <5>2 DEF Decision
      <4>. QED
        BY <1>2, <3>2, <4>1, <4>2
    <3>5. Last(m.chain[t]).attempt = n \/ receipt[t][Last(m.chain[t]).attempt] # Absent
      BY <2>2, <3>1, <3>2
    <3>. QED
      BY <1>5, <3>1, <3>3, <3>4, <3>5
  <2>. QED
    BY <2>1, <2>2
<1>7. Fits(G, m, t, u)
  <2>1. Proper(u)
    BY <1>3, <1>6 DEF Proper, Status
  <2>2. NamedIn(G, m, t, u)
    BY <1>3, <1>6 DEF NamedIn
  <2>3. LedgerIn(G, m, t)
    BY <1>5 DEF Beside, Founded
  <2>4. m \in Manifest
    BY DEF Typing
  <2>. QED
    BY <1>2, <1>3, <1>5, <1>6, <2>1, <2>2, <2>3, <2>4 DEF Fits
<1>. QED
  BY <1>1, <1>4, <1>5, <1>6, <1>7, PrefixPlanned DEF G

LEMMA NotEmpty == ASSUME NEW s, Len(s) # 0 PROVE s # <<>>
<1>1. Len(<<>>) = 0
  OBVIOUS
<1>. QED
  BY <1>1, Zenon

\* a claim of the record, and the record of the decision on top of it
LEMMA TwoWritesBegin ==
  ASSUME NEW w, NEW t \in Target, NEW c \in Record, NEW u \in Record,
         Typing, Counted, Sane(Now), state[t].status = "ambiguous",
         c.attempt = state[t].attempt, c.recovered = state[t].recovered,
         c.candidate = state[t].candidate, c.status = "ambiguous", c.digest = Digest,
         u.attempt = c.attempt, u.recovered = c.recovered, u.candidate = c.candidate,
         u.status \in Retriable, u.digest = Digest + 1,
         Begin(w, WriteState(manifest, t, c) \o WriteState(Chained(manifest, t, c), t, u), 2)
  PROVE  Begun(w)
<1>. DEFINE n == Chained(manifest, t, c)
            p == WriteState(manifest, t, c)
            q == WriteState(n, t, u)
            s == p \o q
            G == Rewritten(Now, n, t, c)
<1>1. state[t] # Absent
  BY DEF Absent
<1>2. t \in folder /\ Proper(state[t])
  BY <1>1, SaneRecord
<1>3. state[t].candidate = 0 /\ c.candidate = 0 /\ u.candidate = 0 /\ Proper(c) /\ Proper(u)
  BY <1>2 DEF Proper, Retriable, Status
<1>4. Fits(Now, manifest, t, c)
  BY <1>2, <1>3, FreshDigest, UpdateFits, NowIs
<1>5. Sane(G)
  BY <1>4, SaneWrite, NowIs
<1>6. /\ G.manifest = n /\ G.folder = folder /\ G.state = [state EXCEPT ![t] = c]
  BY NowIs DEF Rewritten
<1>7. G.state[t] = c
  BY <1>6 DEF Typing
<1>8. n \in Manifest /\ \A i \in DOMAIN n.chain[t] : n.chain[t][i].digest # u.digest
  <2>1. n \in Manifest
    BY ChainedCovers DEF Typing
  <2>2. /\ manifest.chain[t] \in Seq(Entry) /\ writes \in Nat /\ Digest = writes + 1
    BY FreshDigest DEF Typing, Manifest, Counted
  <2>. DEFINE e == [attempt |-> c.attempt, digest |-> c.digest]
  <2>3. n.chain[t] = Append(manifest.chain[t], e) /\ e \in Entry
    BY DEF Chained, Typing, Manifest, Entry, Record
  <2>4. e.digest = writes + 1 /\ u.digest = writes + 2
    BY <2>2
  <2>5. ASSUME NEW i \in DOMAIN manifest.chain[t] PROVE manifest.chain[t][i].digest # u.digest
    <3>1. manifest.chain[t][i].digest \in Int /\ manifest.chain[t][i].digest <= writes
      <4>1. manifest.chain[t][i] \in Entry
        BY <2>2
      <4>. QED
        BY <4>1 DEF Counted, UpTo, Entry
    <3>. QED
      BY <2>2, <2>4, <3>1
  <2>. HIDE DEF e, n
  <2>6. ASSUME NEW i \in DOMAIN n.chain[t]
        PROVE  \/ n.chain[t][i] = e
               \/ i \in DOMAIN manifest.chain[t] /\ n.chain[t][i] = manifest.chain[t][i]
    BY <2>2, <2>3
  <2>. QED
    BY <2>1, <2>2, <2>4, <2>5, <2>6
<1>9. Fits(G, n, t, u)
  <2>. HIDE DEF G, n
  <2>1. u.status # "success_candidate"
    BY DEF Retriable
  <2>. QED
    BY <1>2, <1>3, <1>5, <1>6, <1>7, <1>8, <2>1, UpdateFits
<1>10. HasPlan(G, q)
  BY <1>5, <1>9, WriteStatePlan
<1>11. /\ p \in Seq(Item) /\ Len(p) = 3
       /\ p[1] = Put("state", t, c) /\ p[2] = Put("receipt", t, c) /\ p[3] = Put("manifest", t, n)
       /\ q \in Seq(Item) /\ Len(q) = 3
  BY <1>8, WriteStateFiles DEF Typing
<1>12. Begin(w, s, 2)
  OBVIOUS
<1>. HIDE DEF p, q, G, n
<1>13. /\ s \in Seq(Item) /\ Len(s) = Len(p) + Len(q)
       /\ \A i \in 1 .. (Len(p) + Len(q)) : s[i] = IF i <= Len(p) THEN p[i] ELSE q[i - Len(p)]
  BY <1>11, Concatenated, Zenon
<1>. HIDE DEF s
<1>14. /\ Len(s) = Len(q) + 3 /\ s[1] = p[1] /\ s[2] = p[2] /\ s[3] = p[3]
       /\ \A i \in 1 .. Len(q) : s[i + 3] = q[i]
  BY <1>11, <1>13
<1>15. HasPlan(Now, s)
  BY <1>4, <1>10, <1>11, <1>13, <1>14, WritePlan DEF G, n
<1>16. s # <<>>
  <2>1. Len(s) # 0
    BY <1>11, <1>14
  <2>. QED
    BY <2>1, NotEmpty
<1>. QED
  BY <1>12, <1>13, <1>15, <1>16, PlanBegins

LEMMA ResolveBegins ==
  ASSUME NEW w, NEW t \in Target, Typing, Counted, Sane(Now), Resolve(w, t)
  PROVE  Begun(w)
<1>. DEFINE c == [state[t] EXCEPT !.digest = Digest]
            u(status, n) == [c EXCEPT !.status = status, !.next = n, !.resolved = TRUE,
                                      !.digest = Digest + 1]
            p(r) == WriteState(manifest, t, c) \o WriteState(Chained(manifest, t, c), t, r)
            good(r) == /\ r.attempt = c.attempt /\ r.recovered = c.recovered
                       /\ r.candidate = c.candidate /\ r.digest = Digest + 1
                       /\ r.status \in Retriable
<1>1. Digest \in Int /\ Digest + 1 \in Int /\ state[t] \in Record /\ state[t].attempt \in Int
  BY FreshDigest DEF Typing, Record
<1>2. /\ c \in Record /\ c.attempt = state[t].attempt /\ c.digest = Digest
      /\ c.status = state[t].status /\ c.recovered = state[t].recovered
      /\ c.candidate = state[t].candidate
  BY <1>1 DEF Record
<1>3. c.status = "ambiguous"
  BY DEF Resolve
<1>4. \A x \in Status, n \in Int :
        /\ u(x, n) \in Record
        /\ u(x, n).status = x /\ u(x, n).attempt = c.attempt
        /\ u(x, n).recovered = c.recovered /\ u(x, n).candidate = c.candidate
        /\ u(x, n).digest = Digest + 1
  <2>. HIDE DEF c
  <2>. QED
    BY <1>1, <1>2 DEF Record
<1>5. \E r \in Record : Begin(w, p(r), 2) /\ good(r)
  <2>1. 0 \in Int /\ c.attempt + 1 \in Int /\ "failed" \in Status /\ "retry_scheduled" \in Status
    BY <1>1, <1>2, StatusNames
  <2>2. /\ u("failed", 0) \in Record /\ good(u("failed", 0))
        /\ u("retry_scheduled", c.attempt + 1) \in Record
        /\ good(u("retry_scheduled", c.attempt + 1))
    <3>. HIDE DEF u
    <3>. QED
      BY <1>4, <2>1 DEF Retriable
  <2>3. Begin(w, p(u("failed", 0)), 2) \/ Begin(w, p(u("retry_scheduled", c.attempt + 1)), 2)
    BY DEF Resolve
  <2>. HIDE DEF u, good, p
  <2>. QED
    BY <2>2, <2>3
<1>6. PICK r \in Record : Begin(w, p(r), 2) /\ good(r)
  BY <1>5
<1>. HIDE DEF c
<1>. QED
  BY <1>2, <1>3, <1>6, TwoWritesBegin

LEMMA MethodBegins ==
  ASSUME NEW w, NEW t \in Target, Typing, Counted, Planned, Sane(Now), Method(w, t)
  PROVE  Begun(w)
<1>1. /\ state[t] \in Record /\ state[t].attempt \in Int /\ state[t].next \in Int
      /\ 1 \in Int /\ Absent.status = "absent"
  BY DEF Typing, Record, Absent
<1>2. CASE Prepare(w, t)
  <2>1. CASE state[t] = Absent /\ StartAttempt(w, t, 1)
    BY <1>1, <2>1, StartAttemptBegins
  <2>2. CASE state[t].status = "running" /\ StartAttempt(w, t, state[t].attempt)
    BY <1>1, <2>2, StartAttemptBegins
  <2>3. CASE state[t].status = "retry_scheduled" /\ StartAttempt(w, t, state[t].next)
    <3>1. state[t].next = state[t].attempt \/ state[t].next = state[t].attempt + 1
      BY <2>3 DEF Planned, Sound, Retries
    <3>. QED
      BY <1>1, <2>3, <3>1, StartAttemptBegins
  <2>. QED
    BY <1>2, <2>1, <2>2, <2>3 DEF Prepare
<1>3. CASE PrepareAmbiguous(w, t)
  <2>. DEFINE s == [state[t] EXCEPT !.status = "ambiguous"]
  <2>1. /\ s \in Record /\ s.status = "ambiguous" /\ s.attempt = state[t].attempt
        /\ s.recovered = state[t].recovered /\ s.candidate = state[t].candidate
    BY <1>1, StatusNames DEF Record
  <2>2. Update(w, t, s, <<>>) /\ state[t].status = "running"
    BY <1>3 DEF PrepareAmbiguous
  <2>. HIDE DEF s
  <2>. QED
    BY <2>1, <2>2, StatusNames, UpdateBegins
<1>4. CASE MarkSideEffect(w, t)
  <2>. DEFINE s == [state[t] EXCEPT !.effect = TRUE]
  <2>1. /\ s \in Record /\ s.status = state[t].status /\ s.attempt = state[t].attempt
        /\ s.recovered = state[t].recovered /\ s.candidate = state[t].candidate
    BY <1>1 DEF Record
  <2>2. Update(w, t, s, <<>>) /\ state[t].status = "running"
    BY <1>4 DEF MarkSideEffect, Executing
  <2>3. "running" \in Status
    BY DEF Status
  <2>. HIDE DEF s
  <2>. QED
    BY <2>1, <2>2, <2>3, UpdateBegins
<1>5. CASE RecordFailure(w, t)
  <2>. DEFINE s == [state[t] EXCEPT !.status = "failed"]
              u == [state[t] EXCEPT !.status = "retry_scheduled", !.next = state[t].attempt + 1]
  <2>1. s \in Record /\ u \in Record
    <3>1. state[t].attempt + 1 \in Int
      BY <1>1
    <3>. QED
      BY <1>1, <3>1, Altered, StatusNames, Zenon
  <2>2. /\ s.status = "failed" /\ s.attempt = state[t].attempt
        /\ s.recovered = state[t].recovered /\ s.candidate = state[t].candidate
        /\ u.status = "retry_scheduled" /\ u.attempt = state[t].attempt
        /\ u.recovered = state[t].recovered /\ u.candidate = state[t].candidate
    BY <1>1 DEF Record
  <2>3. Update(w, t, s, <<>>) \/ Update(w, t, u, <<>>)
    BY <1>5 DEF RecordFailure
  <2>4. state[t].status = "running"
    BY <1>5 DEF RecordFailure, Executing
  <2>. HIDE DEF s, u
  <2>. QED
    BY <2>1, <2>2, <2>3, <2>4, StatusNames, UpdateBegins
<1>6. CASE MarkCompleted(w, t)
  <2>. DEFINE s == [state[t] EXCEPT !.status = "completed"]
  <2>1. /\ s \in Record /\ s.status = "completed" /\ s.attempt = state[t].attempt
        /\ s.recovered = state[t].recovered /\ s.candidate = state[t].candidate
    BY <1>1, StatusNames DEF Record
  <2>2. Update(w, t, s, <<>>) /\ state[t].status = "success_candidate"
    BY <1>6 DEF MarkCompleted
  <2>. HIDE DEF s
  <2>. QED
    BY <2>1, <2>2, StatusNames, UpdateBegins
<1>. QED
  BY <1>2, <1>3, <1>4, <1>5, <1>6, CandidateBegins, ResolveBegins, RecoverRetryBegins,
     RecoverFailBegins DEF Method

-----------------------------------------------------------------------------
(* Whoever writes keeps to a plan.                                          *)

\* a run that is opened is sane, for its records were read
LEMMA OpenedSane ==
  ASSUME NEW w \in Writer, ChainInv, LogInv, Writing, Opens(w) PROVE Sane(Now)
<1>1. lock = NoOne /\ Intact
  BY DEF Opens
<1>2. ~torn
  BY <1>1, DamagedRefused DEF ChainInv, LogInv, Stopped
<1>. QED
  BY <1>1, <1>2 DEF Writing

LEMMA BegunKeeps ==
  ASSUME NEW w \in Writer, ChainInv, Begun(w), lock = NoOne PROVE Writing'
<1>1. PICK s \in Seq(Item) :
        /\ s # <<>> /\ HasPlan(Now, s)
        /\ lock' = w /\ job' = [job EXCEPT ![w] = s]
        /\ UNCHANGED <<files, torn>>
  BY DEF Begun
<1>2. \A v \in Writer : job[v] = <<>>
  BY ReceiptChainAssumption DEF ChainInv, Held
<1>3. \A v \in Writer : job'[v] = IF v = w THEN s ELSE <<>>
  BY <1>1, <1>2 DEF ChainInv, Typing
<1>4. Now' = Now
  BY <1>1 DEF Now, files
<1>5. \A v \in Writer : job'[v] # <<>> => HasPlan(Now', job'[v])
  BY <1>1, <1>3, <1>4
<1>6. lock' # NoOne /\ lock' \in Writer /\ job'[lock'] # <<>>
  BY <1>1, <1>3, ReceiptChainAssumption
<1>. QED
  BY <1>5, <1>6 DEF Writing

LEMMA WriteFilePlan ==
  ASSUME NEW w \in Writer, ChainInv, LogInv, Writing, WriteFile(w) PROVE Writing'
<1>. USE DEF ChainInv
<1>1. PICK s \in Seq(Item) : s = job[w] /\ s # <<>>
  BY DEF Typing, WriteFile
<1>. DEFINE r == Tail(s)
<1>2. /\ Head(s) = s[1] /\ r \in Seq(Item) /\ Len(s) \in Nat \ {0} /\ Len(r) = Len(s) - 1
  BY <1>1, FirstAndRest
<1>3. /\ job' = [job EXCEPT ![w] = r] /\ Replace(s[1])
      /\ lock' = IF Len(s) = 1 THEN NoOne ELSE lock
  BY <1>1, <1>2 DEF WriteFile
<1>4. lock = w /\ \A v \in Writer : v # w => job[v] = <<>>
  BY <1>1 DEF Held
<1>5. \A v \in Writer : job'[v] = IF v = w THEN r ELSE <<>>
  BY <1>3, <1>4 DEF Typing
<1>6. Now' = Applied(Now, s[1])
  BY <1>3, NowIs DEF Replace, Applied, Now
<1>7. HasPlan(Now', r)
  BY <1>1, <1>6, PlanRest DEF Writing
<1>. HIDE DEF r
<1>8. CASE Len(s) = 1
  <2>1. r = <<>> /\ lock' = NoOne
    BY <1>2, <1>3, <1>8
  <2>2. Sane(Now')
    BY <1>7, <2>1, <1>2, PlanNow
  <2>3. \A v \in Writer : job'[v] = <<>>
    BY <1>5, <2>1
  <2>. QED
    BY <2>1, <2>2, <2>3 DEF Writing
<1>9. CASE Len(s) # 1
  <2>1. r # <<>> /\ lock' = w
    BY <1>2, <1>3, <1>4, <1>9
  <2>2. \A v \in Writer : job'[v] # <<>> => HasPlan(Now', job'[v])
    BY <1>5, <1>7
  <2>3. lock' # NoOne /\ lock' \in Writer /\ job'[lock'] # <<>>
    BY <1>5, <2>1, ReceiptChainAssumption
  <2>. QED
    BY <2>2, <2>3 DEF Writing
<1>. QED
  BY <1>8, <1>9

LEMMA CrashPlan ==
  ASSUME NEW w \in Writer, ChainInv, LogInv, Writing, Crash(w) PROVE Writing'
<1>. USE DEF ChainInv
<1>1. /\ job' = [job EXCEPT ![w] = <<>>] /\ torn' = (torn \/ MidWrite(w))
      /\ lock' = IF lock = w THEN NoOne ELSE lock
      /\ Now' = Now
  BY DEF Crash, files, Now
<1>2. \A v \in Writer : job'[v] = IF v = w THEN <<>> ELSE job[v]
  BY <1>1 DEF Typing
<1>3. \A v \in Writer : job'[v] # <<>> => HasPlan(Now', job'[v])
  BY <1>1, <1>2 DEF Writing
<1>4. CASE lock = w
  <2>1. job[w] # <<>> /\ job[w] \in Seq(Item)
    BY <1>4, ReceiptChainAssumption DEF Writing, Typing
  <2>2. Sane(Now) \/ MidIn(Now, After(job[w], 0))
    BY <2>1, PlanNow DEF Writing
  <2>3. ASSUME MidIn(Now, After(job[w], 0)) PROVE MidWrite(w)
    <3>1. PICK t \in After(job[w], 0) \cap Target :
            \/ t \in folder /\ state[t] = Absent
            \/ /\ state[t] # Absent
               /\ \A i \in DOMAIN manifest.chain[t] :
                    manifest.chain[t][i].digest # state[t].digest
      BY <2>3, NowIs DEF MidIn
    <3>2. \E i \in DOMAIN job[w] : job[w][i].target = t
      BY <2>1, <3>1 DEF After
    <3>. QED
      BY <3>1, <3>2 DEF MidWrite
  <2>4. ~torn' => Sane(Now')
    BY <1>1, <2>2, <2>3
  <2>5. lock' = NoOne
    BY <1>1, <1>4
  <2>. QED
    BY <1>3, <2>4, <2>5 DEF Writing
<1>5. CASE lock # w
  <2>1. lock' = lock /\ job[w] = <<>>
    BY <1>1, <1>5 DEF Held
  <2>2. lock # NoOne => job'[lock] # <<>> /\ lock \in Writer
    BY <1>2, <1>5 DEF Writing
  <2>3. ~torn' => ~torn
    BY <1>1
  <2>. QED
    BY <1>1, <1>3, <2>1, <2>2, <2>3 DEF Writing
<1>. QED
  BY <1>4, <1>5

LEMMA WritingStep ==
  ASSUME ChainInv, LogInv, Writing, [Next]_vars PROVE Writing'
<1>1. ASSUME NEW w \in Writer, NEW t \in Target, Method(w, t) PROVE Writing'
  <2>1. Opens(w)
    BY <1>1, MethodOpens DEF ChainInv, LogInv
  <2>2. Begun(w)
    BY <1>1, <2>1, OpenedSane, MethodBegins DEF ChainInv, LogInv
  <2>. QED
    BY <2>1, <2>2, BegunKeeps DEF Opens
<1>2. ASSUME NEW w \in Writer, Publish(w) PROVE Writing'
  <2>1. Opens(w)
    BY <1>2, PublishOpens DEF ChainInv, LogInv
  <2>2. Begun(w)
    BY <1>2, <2>1, OpenedSane, PublishBegins DEF ChainInv, LogInv
  <2>. QED
    BY <2>1, <2>2, BegunKeeps DEF Opens
<1>3. ASSUME UNCHANGED <<files, lock, job, torn>> PROVE Writing'
  <2>1. Now' = Now
    BY <1>3 DEF files, Now
  <2>. QED
    BY <1>3, <2>1 DEF Writing
<1>4. CASE \E w \in Writer, t \in Target : Send(w, t)
  BY <1>3, <1>4 DEF Send, files
<1>5. CASE Reader
  <2>1. UNCHANGED <<files, lock, job, torn>>
    BY <1>5 DEF Reader, ReadManifest, ListTargets, ReadState, ReadAnchor, ReadReceipts,
                BindState, Report, Check, Look
  <2>. QED
    BY <1>3, <2>1
<1>6. CASE UNCHANGED vars
  BY <1>3, <1>6 DEF vars, files
<1>. QED
  BY <1>1, <1>2, <1>4, <1>5, <1>6, WriteFilePlan, CrashPlan DEF Next, Method

LEMMA WritingInit == Init => Writing
<1>. SUFFICES ASSUME Init PROVE Writing
  OBVIOUS
<1>1. Now \in Disk
  <2>1. manifest \in Manifest /\ state \in [Target -> Record]
    BY ChainInit DEF ChainInv, Typing
  <2>2. receipt \in [Target -> [Attempt -> Record]]
    BY AbsentRecord DEF Init
  <2>3. candidate \in [Target -> [Attempt -> Int]]
    BY DEF Init
  <2>4. folder \in SUBSET Target /\ recovery \in SUBSET Int
    BY DEF Init
  <2>. QED
    BY <2>1, <2>2, <2>3, <2>4 DEF Disk, Now
<1>2. \A v \in Target : /\ manifest.chain[v] = <<>> /\ manifest.ledger[v] = <<>>
                        /\ state[v] = Absent /\ \A n \in Attempt : receipt[v][n] = Absent
  BY DEF Init
<1>3. Founded(Now)
  BY <1>1, <1>2, NowIs DEF Founded, LedgerIn, AnchoredIn
<1>4. folder = {}
  BY DEF Init
<1>5. Sane(Now)
  BY <1>3, <1>4, NowIs DEF Sane
<1>. QED
  BY <1>5 DEF Init, Writing

\* For any targets, processes, attempts and writes: when nobody holds the lock,
\* the records are readable exactly when no write of one was cut short. Neither
\* the methods, nor a status published by anybody at any time, nor a crash
\* between or beside them make them unreadable. Whether the status then agrees
\* with them is not part of it (_write_state_locked,
\* _append_recovery_decision_locked, update_manifest, against
\* _validate_all_attempt_receipts).
THEOREM RefusedExactlyTorn == Spec => []RefusedIffTorn
<1>1. ChainInv /\ LogInv /\ Writing /\ [Next]_vars => Writing'
  BY WritingStep
<1>2. ChainInv /\ LogInv /\ Writing => RefusedIffTorn
  BY DamagedRefused, SaneIntact DEF ChainInv, LogInv, Stopped, Writing, RefusedIffTorn
<1>. QED
  BY <1>1, <1>2, WritingInit, ChainsGrow, LogInvKept, PTL DEF Spec

=============================================================================
