-------------------------- MODULE CallPartsProofs --------------------------
(* Proofs about two parts of a call. Throttle implements CapacityCount, for  *)
(* any clients and bounds: at most one client counts at a time, and what it  *)
(* is about to write is what CapacityCount says of the two numbers it has    *)
(* read.                                                                     *)
(*                                                                           *)
(* FileReads, for any writers, contents and number of attempts: a reader     *)
(* takes only what the file held at one instant, and an entry that is        *)
(* replaced, never written in place, does not become unreadable. The         *)
(* argument is that of the stamps. A file that is written moves its mtime,   *)
(* unless it is silent; so what has been read of it is still what it holds   *)
(* as long as its mtime is the one of the first look. A file that is only    *)
(* replaced keeps its mtime, its ctime moves when it loses its name, and it  *)
(* never gets the name back.                                                 *)
EXTENDS Throttle, FileReads, FiniteSetTheorems, SequenceTheorems, TLAPS

\* The bounds are numbers. (The provers know nothing of powers: that the
\* delay of the policy is a number is said of the product as a whole.)
Numbers ==
  /\ MaxSlots \in Int /\ MinSlots \in Int /\ Ramp \in Int
  /\ None \notin Int \cup Client
  /\ RetryAfter \subseteq Int
  /\ \A n \in Nat \ {0}, f \in Fractions : (LocalCap(n) * f) \div 4 \in Int

Counting == {"count", "capacity", "streak"}

\* the policy allows at least one request at a time (slots.py:43, 45)
SomeSlots == MinSlots >= 1 /\ MaxSlots >= MinSlots

\* the lock is that of the client that counts
Locked == \A c \in Client : cl[c].at \in Counting <=> lock = c

Fallen(old) == Max({MinSlots, old \div 2})
Risen(old)  == Min({MaxSlots, old + 1})

Due(old, new, n) ==
  /\ n = 0
  /\ \/ new = Fallen(old)
     \/ streak + 1 >= Ramp /\ new = Risen(old)

Counts ==
  \A c \in Client :
    /\ cl[c].at \notin {"capacity", "streak"} => cl[c].cap = None
    /\ cl[c].at = "capacity" => cl[c].cap \in Int /\ Due(capacity, cl[c].cap, cl[c].count)
    /\ cl[c].at = "streak" =>
         IF cl[c].cap = None THEN cl[c].count = streak + 1 /\ streak + 1 < Ramp
         ELSE cl[c].cap \in Int /\ Due(cl[c].cap, capacity, cl[c].count)

IInv == TypeOK /\ Locked /\ Counts

-----------------------------------------------------------------------------
LEMMA MaxMin ==
  ASSUME NEW a \in Int, NEW b \in Int PROVE Max({a, b}) \in Int /\ Min({a, b}) \in Int
<1>1. \E x \in {a, b} : \A y \in {a, b} : x >= y
  OBVIOUS
<1>2. \E x \in {a, b} : \A y \in {a, b} : x <= y
  OBVIOUS
<1>3. Max({a, b}) \in {a, b}
  BY <1>1, Zenon DEF Max
<1>4. Min({a, b}) \in {a, b}
  BY <1>2, Zenon DEF Min
<1> QED BY <1>3, <1>4

LEMMA Asked == ASSUME Numbers PROVE \A a \in RetryAfter \cup {0} : a \in Int
<1>1. TAKE a \in RetryAfter \cup {0}
<1>2. RetryAfter \subseteq Int
  BY Zenon DEF Numbers
<1>3. 0 \in Int
  OBVIOUS
<1> QED BY <1>2, <1>3, Zenon

\* Whatever the policy says, the provider is not asked before its time.
LEMMA Delays ==
  ASSUME Numbers, NEW n \in Nat \ {0}, NEW f \in Fractions, NEW a \in RetryAfter \cup {0}
  PROVE  Delay(n, f, a) \in Int /\ Delay(n, f, a) >= a
<1> DEFINE d == (LocalCap(n) * f) \div 4
<1>1. d \in Int /\ a \in Int
  BY Asked, Zenon DEF Numbers
<1>2. Delay(n, f, a) = Max({d, a})
  BY DEF Delay
<1> HIDE DEF d
<1>3. \E x \in {d, a} : \A y \in {d, a} : x >= y
  BY <1>1
<1>4. Max({d, a}) \in {d, a} /\ \A y \in {d, a} : Max({d, a}) >= y
  BY <1>3, Zenon DEF Max
<1> QED BY <1>1, <1>2, <1>4

LEMMA Inits == ASSUME Numbers PROVE Init => IInv
BY DEF Numbers, Init, IInv, TypeOK, ClientState, Locked, Counts, Counting, New

\* a client elsewhere than at counting moves on, keeps no number and no lock
Elsewhere(c) ==
  /\ cl[c].at \notin Counting /\ cl'[c].at \notin Counting /\ cl'[c].cap = None
  /\ \A d \in Client \ {c} : cl'[d] = cl[d]
  /\ UNCHANGED <<capacity, streak, lock>>

LEMMA StaysElsewhere ==
  ASSUME Numbers, IInv, NEW c \in Client, Elsewhere(c), TypeOK'
  PROVE  IInv' /\ UNCHANGED <<Seen, streak>>
<1>1. \A d \in Client : d # c => cl'[d] = cl[d]
  BY DEF Elsewhere
<1>2. Locked'
  BY <1>1 DEF IInv, Locked, Elsewhere
<1>3. Counts'
  BY <1>1 DEF IInv, Counts, Due, Fallen, Risen, Elsewhere, Counting
<1>4. UNCHANGED Torn /\ (Torn => cl'[lock] = cl[lock])
  BY <1>1 DEF Torn, IInv, TypeOK, Locked, Elsewhere, Counting
<1> QED BY <1>2, <1>3, <1>4 DEF IInv, Elsewhere, Seen

\* c has become s and no one else has changed
LEMMA Becomes ==
  ASSUME TypeOK, NEW c \in Client, NEW s \in ClientState, Set(c, s)
  PROVE  /\ cl' \in [Client -> ClientState]
         /\ cl'[c] = s
         /\ \A d \in Client \ {c} : cl'[d] = cl[d]
BY DEF TypeOK, Set

LEMMA Starts == ASSUME Numbers PROVE New \in ClientState /\ New.at = "look" /\ New.cap = None
BY DEF Numbers, New, ClientState

LEMMA Moved ==
  ASSUME Numbers, IInv, NEW c \in Client, NEW s \in ClientState, Set(c, s),
         cl[c].at \notin Counting, s.at \notin Counting, s.cap = None,
         s.at = "try" => s.slot \in Int, UNCHANGED <<capacity, streak, lock, now>>
  PROVE  IInv' /\ UNCHANGED <<Seen, streak>>
<1>1. /\ cl' \in [Client -> ClientState]
      /\ cl'[c] = s
      /\ \A d \in Client \ {c} : cl'[d] = cl[d]
  BY Becomes DEF IInv
<1>2. TypeOK'
  BY <1>1 DEF IInv, TypeOK
<1> QED BY <1>1, <1>2, StaysElsewhere DEF Elsewhere

\* c becomes s, elsewhere than at counting
LEMMA Moves ==
  ASSUME Numbers, IInv, NEW c \in Client,
         Look(c) \/ Try(c) \/ GiveUp(c) \/ Answer(c) \/ Leave(c) \/ Resume(c)
  PROVE  IInv' /\ UNCHANGED <<Seen, streak>>
<1>t. cl[c] \in ClientState /\ now \in Int /\ capacity \in Int
  BY DEF IInv, TypeOK
<1>n. cl[c].at \notin Counting => cl[c].cap = None
  BY DEF IInv, Counts, Counting
<1>1. CASE Look(c)
  <2> DEFINE a == [cl[c] EXCEPT !.at = "try"]
  <2>a. a \in ClientState /\ a.at = "try" /\ a.cap = cl[c].cap /\ a.slot = cl[c].slot
    BY <1>t DEF ClientState
  <2> HIDE DEF a
  <2> DEFINE b == [a EXCEPT !.limit = capacity]
  <2>b. b \in ClientState /\ b.at = a.at /\ b.cap = a.cap /\ b.slot = a.slot
    BY <2>a, <1>t DEF ClientState
  <2> HIDE DEF b
  <2> DEFINE s == [b EXCEPT !.slot = 0]
  <2>s. s \in ClientState /\ s.slot = 0 /\ s.at = b.at /\ s.cap = b.cap
    BY <2>b, <1>t DEF ClientState
  <2> HIDE DEF s
  <2>2. cl[c].at = "look" /\ Set(c, s) /\ UNCHANGED <<capacity, streak, lock, now>>
    BY <1>1 DEF Look, Step, Limit, a, b, s
  <2> QED BY <1>n, <2>a, <2>b, <2>s, <2>2, Moved DEF Counting
<1>2. CASE Try(c)
  <2>1. cl[c].at = "try" /\ UNCHANGED <<capacity, streak, lock, now>> /\ cl[c].slot \in Int
    BY <1>2 DEF Try, Step, IInv, TypeOK
  <2> DEFINE n == [cl[c] EXCEPT !.slot = cl[c].slot + 1]
  <2>n. n \in ClientState /\ n.slot = cl[c].slot + 1 /\ n.at = cl[c].at /\ n.cap = cl[c].cap
    BY <1>t, <2>1 DEF ClientState
  <2> HIDE DEF n
  <2> DEFINE g == [cl[c] EXCEPT !.at = "send"]
  <2>g. g \in ClientState /\ g.at = "send" /\ g.cap = cl[c].cap
    BY <1>t DEF ClientState
  <2> HIDE DEF g
  <2> DEFINE a == [cl[c] EXCEPT !.at = "look"]
  <2>a. a \in ClientState /\ a.at = "look" /\ a.cap = cl[c].cap /\ a.slot = cl[c].slot
    BY <1>t DEF ClientState
  <2> HIDE DEF a
  <2> DEFINE s == [a EXCEPT !.slot = None]
  <2>s. s \in ClientState /\ s.slot = None /\ s.at = a.at /\ s.cap = a.cap
    BY <2>a DEF ClientState
  <2> HIDE DEF s
  <2>2. Set(c, n) \/ Set(c, g) \/ Set(c, s)
    BY <1>2 DEF Try, Go, n, g, a, s
  <2> QED BY <1>n, <2>1, <2>n, <2>g, <2>a, <2>s, <2>2, Moved DEF Counting
<1>3. CASE GiveUp(c)
  <2> DEFINE s == [New EXCEPT !.at = "over"]
  <2>s. s \in ClientState /\ s.at = "over" /\ s.cap = New.cap
    BY Starts DEF ClientState
  <2> HIDE DEF s
  <2>2. cl[c].at = "look" /\ Set(c, s) /\ UNCHANGED <<capacity, streak, lock, now>>
    BY <1>3 DEF GiveUp, Step, End, s
  <2> QED BY <2>s, <2>2, Starts, Moved DEF Counting
<1>4. CASE Answer(c)
  <2>1. cl[c].at = "send" /\ UNCHANGED <<capacity, streak, lock, now>>
    BY <1>4 DEF Answer, Step
  <2> DEFINE l == [cl[c] EXCEPT !.at = "lock"]
  <2>l. l \in ClientState /\ l.at = "lock" /\ l.cap = cl[c].cap
    BY <1>t DEF ClientState
  <2> HIDE DEF l
  <2> DEFINE o == [l EXCEPT !.says = "ok"]
  <2>o. o \in ClientState /\ o.at = l.at /\ o.cap = l.cap
    BY <2>l DEF ClientState
  <2> HIDE DEF o
  <2> DEFINE t == [l EXCEPT !.says = "transient"]
  <2>t. t \in ClientState /\ t.at = l.at /\ t.cap = l.cap
    BY <2>l DEF ClientState
  <2> HIDE DEF t
  <2> DEFINE u(after) == [t EXCEPT !.after = after]
  <2>u. \A after \in RetryAfter : /\ u(after) \in ClientState
                              /\ u(after).at = t.at /\ u(after).cap = t.cap
    BY <2>t DEF ClientState
  <2> HIDE DEF u
  <2> DEFINE a == [cl[c] EXCEPT !.at = "leave"]
  <2>a. a \in ClientState /\ a.at = "leave" /\ a.cap = cl[c].cap
    BY <1>t DEF ClientState
  <2> HIDE DEF a
  <2> DEFINE s == [a EXCEPT !.says = "fatal"]
  <2>s. s \in ClientState /\ s.at = a.at /\ s.cap = a.cap
    BY <2>a DEF ClientState
  <2> HIDE DEF s
  <2>2. Set(c, o) \/ Set(c, s) \/ \E after \in RetryAfter : Set(c, u(after))
    BY <1>4 DEF Answer, Passing, Answered, Fatal, l, o, t, u, a, s
  <2>3. CASE Set(c, o) \/ Set(c, s)
    BY <1>n, <2>1, <2>l, <2>o, <2>a, <2>s, <2>3, Moved DEF Counting
  <2>4. ASSUME NEW after \in RetryAfter, Set(c, u(after)) PROVE IInv' /\ UNCHANGED <<Seen, streak>>
    BY <1>n, <2>1, <2>l, <2>t, <2>u, <2>4, Moved DEF Counting
  <2> QED BY <2>2, <2>3, <2>4
<1>5. CASE Leave(c)
  <2>1. cl[c].at = "leave" /\ UNCHANGED <<capacity, streak, lock, now>>
    BY <1>5 DEF Leave, Step
  <2> DEFINE o == [New EXCEPT !.at = "over"]
  <2>o. o \in ClientState /\ o.at = "over" /\ o.cap = New.cap
    BY Starts DEF ClientState
  <2> HIDE DEF o
  <2>2. CASE Set(c, o)
    BY <2>1, <2>o, <2>2, Starts, Moved DEF Counting
  <2>3. ASSUME NEW f \in Fractions,
             Set(c, [New EXCEPT !.at = "waiting", !.attempt = cl[c].attempt + 1,
                                !.due = now + Delay(cl[c].attempt, f, cl[c].after),
                                !.asked = now + cl[c].after])
      PROVE  IInv' /\ UNCHANGED <<Seen, streak>>
    <3>0. cl[c].attempt \in Nat \ {0} /\ cl[c].after \in RetryAfter \cup {0}
      BY <1>t DEF ClientState
    <3>1. Delay(cl[c].attempt, f, cl[c].after) \in Int
      BY <3>0, Delays
    <3>n. cl[c].attempt + 1 \in Nat \ {0} /\ now + cl[c].after \in Int
      <4>1. cl[c].after \in Int
        BY <3>0, Asked
      <4>2. now + cl[c].after \in Int
        BY <1>t, <4>1
      <4>3. cl[c].attempt + 1 \in Nat \ {0}
        BY <3>0
      <4> QED BY <4>2, <4>3
    <3> DEFINE due == now + Delay(cl[c].attempt, f, cl[c].after)
    <3>d. due \in Int
      BY <1>t, <3>1
    <3> HIDE DEF due
    <3> DEFINE w == [New EXCEPT !.at = "waiting"]
    <3>w. w \in ClientState /\ w.at = "waiting" /\ w.cap = New.cap
      BY Starts, <3>n, <3>d DEF ClientState
    <3> HIDE DEF w
    <3> DEFINE a == [w EXCEPT !.attempt = cl[c].attempt + 1]
    <3>a. a \in ClientState /\ a.at = w.at /\ a.cap = w.cap
      BY <3>w, <3>n, <3>d DEF ClientState
    <3> HIDE DEF a
    <3> DEFINE b == [a EXCEPT !.due = due]
    <3>b. b \in ClientState /\ b.at = a.at /\ b.cap = a.cap
      BY <3>a, <3>n, <3>d DEF ClientState
    <3> HIDE DEF b
    <3> DEFINE s == [b EXCEPT !.asked = now + cl[c].after]
    <3>s. s \in ClientState /\ s.at = b.at /\ s.cap = b.cap
      BY <3>b, <3>n, <3>d DEF ClientState
    <3> HIDE DEF s
    <3>2. Set(c, s)
      BY <2>3 DEF due, w, a, b, s
    <3> QED BY <2>1, <3>2, <3>w, <3>a, <3>b, <3>s, Starts, Moved DEF Counting
  <2> QED BY <1>5, <2>2, <2>3 DEF Leave, End, o
<1>6. CASE Resume(c)
  <2> DEFINE s == [cl[c] EXCEPT !.at = "look"]
  <2>s. s \in ClientState /\ s.at = "look" /\ s.cap = cl[c].cap
    BY <1>t DEF ClientState
  <2> HIDE DEF s
  <2>2. cl[c].at = "waiting" /\ Set(c, s) /\ UNCHANGED <<capacity, streak, lock, now>>
    BY <1>6 DEF Resume, Step, Go, s
  <2> QED BY <1>n, <2>s, <2>2, Moved DEF Counting
<1> QED BY <1>1, <1>2, <1>3, <1>4, <1>5, <1>6

\* what the steps that count have in common
LEMMA Counter ==
  ASSUME Numbers, IInv, NEW c \in Client, NEW s \in ClientState, Set(c, s),
         s.at # "try", UNCHANGED now, capacity' \in Int, streak' \in Int,
         lock = None \/ lock = c, lock' = IF s.at \in Counting THEN c ELSE None
  PROVE  /\ TypeOK' /\ Locked' /\ cl'[c] = s
         /\ \A d \in Client \ {c} : cl'[d] = cl[d] /\ cl[d].at \notin Counting
<1>1. /\ cl' \in [Client -> ClientState]
      /\ cl'[c] = s
      /\ \A d \in Client \ {c} : cl'[d] = cl[d]
  BY Becomes DEF IInv
<1>2. TypeOK'
  BY <1>1 DEF IInv, TypeOK
<1>3. \A d \in Client \ {c} : cl[d].at \notin Counting
  BY DEF IInv, Locked, Numbers
<1>4. Locked'
  BY <1>1, <1>3 DEF Locked, Numbers
<1> QED BY <1>1, <1>2, <1>3, <1>4

LEMMA Locks ==
  ASSUME Numbers, IInv, NEW c \in Client, Lock(c)
  PROVE  IInv' /\ UNCHANGED <<Seen, streak>>
<1>t. cl[c] \in ClientState /\ TypeOK
  BY DEF IInv, TypeOK
<1> DEFINE s == [cl[c] EXCEPT !.at = "count"]
<1>s. s \in ClientState /\ s.at = "count" /\ s.cap = cl[c].cap /\ s.count = cl[c].count
  BY <1>t DEF ClientState
<1> HIDE DEF s
<1>1. /\ cl[c].at = "lock" /\ lock = None /\ lock' = c /\ Set(c, s)
      /\ UNCHANGED <<capacity, streak, now>>
  BY DEF Lock, LockFree, Step, Go, s
<1>2. /\ TypeOK' /\ Locked' /\ cl'[c] = s
      /\ \A d \in Client \ {c} : cl'[d] = cl[d] /\ cl[d].at \notin Counting
  BY <1>1, <1>s, <1>t, Counter DEF TypeOK, Counting
<1>3. Counts'
  BY <1>1, <1>2, <1>s DEF IInv, Counts, Due, Fallen, Risen, Counting
<1>4. ~Torn /\ ~Torn'
  BY <1>1, <1>2, <1>s DEF Torn
<1> QED BY <1>1, <1>2, <1>3, <1>4 DEF IInv, Seen

\* both files are read, and nothing is written yet
LEMMA Computes ==
  ASSUME Numbers, IInv, NEW c \in Client, Count(c)
  PROVE  IInv' /\ UNCHANGED <<Seen, streak>>
<1>t. cl[c] \in ClientState /\ TypeOK
  BY DEF IInv, TypeOK
<1>1. Fallen(capacity) \in Int /\ Risen(capacity) \in Int
  <2>1. capacity \div 2 \in Int /\ capacity + 1 \in Int /\ MinSlots \in Int /\ MaxSlots \in Int
    BY <1>t DEF TypeOK, Numbers
  <2>2. Max({MinSlots, capacity \div 2}) \in Int
    BY <2>1, MaxMin
  <2>3. Min({MaxSlots, capacity + 1}) \in Int
    BY <2>1, MaxMin
  <2> QED BY <2>2, <2>3 DEF Fallen, Risen
<1>i. streak \in Int /\ streak + 1 \in Int
  BY <1>t DEF TypeOK
<1>2. /\ cl[c].at = "count" /\ cl[c].cap = None /\ lock = c
      /\ UNCHANGED <<capacity, streak, lock, now>>
  BY DEF Count, Step, IInv, Counts, Locked, Counting
<1> DEFINE Onward(s) == /\ s \in ClientState /\ Set(c, s)
                        /\ \/ /\ s.at = "capacity" /\ s.cap \in Int
                              /\ Due(capacity, s.cap, s.count)
                           \/ /\ s.at = "streak" /\ s.cap = None
                              /\ s.count = streak + 1 /\ streak + 1 < Ramp
<1>3. \E s : Onward(s)
  <2> HIDE DEF Onward
  <2> DEFINE a == [cl[c] EXCEPT !.at = "capacity"]
  <2>a. a \in ClientState /\ a.at = "capacity" /\ a.cap = cl[c].cap /\ a.count = cl[c].count
    BY <1>t DEF ClientState
  <2> HIDE DEF a
  <2> DEFINE b == [a EXCEPT !.cap = Fallen(capacity)]
  <2>b. b \in ClientState /\ b.cap = Fallen(capacity) /\ b.at = a.at /\ b.count = a.count
    BY <2>a, <1>1 DEF ClientState
  <2> HIDE DEF b
  <2> DEFINE f == [b EXCEPT !.count = 0]
  <2>f. f \in ClientState /\ f.count = 0 /\ f.at = b.at /\ f.cap = b.cap
    BY <2>b DEF ClientState
  <2> HIDE DEF f
  <2> DEFINE d == [a EXCEPT !.cap = Risen(capacity)]
  <2>d. d \in ClientState /\ d.cap = Risen(capacity) /\ d.at = a.at /\ d.count = a.count
    BY <2>a, <1>1 DEF ClientState
  <2> HIDE DEF d
  <2> DEFINE r == [d EXCEPT !.count = 0]
  <2>r. r \in ClientState /\ r.count = 0 /\ r.at = d.at /\ r.cap = d.cap
    BY <2>d DEF ClientState
  <2> HIDE DEF r
  <2> DEFINE e == [cl[c] EXCEPT !.at = "streak"]
  <2>e. e \in ClientState /\ e.at = "streak" /\ e.cap = cl[c].cap /\ e.count = cl[c].count
    BY <1>t DEF ClientState
  <2> HIDE DEF e
  <2> DEFINE g == [e EXCEPT !.count = streak + 1]
  <2>g. g \in ClientState /\ g.count = streak + 1 /\ g.at = e.at /\ g.cap = e.cap
    BY <2>e, <1>i DEF ClientState
  <2> HIDE DEF g
  <2>1. \/ Set(c, f)
        \/ streak + 1 \geq Ramp /\ Set(c, r)
        \/ ~(streak + 1 \geq Ramp) /\ Set(c, g)
    BY Zenon DEF Count, Fallen, Risen, a, b, f, d, r, e, g
  <2>2. CASE Set(c, f)
    <3>1. f.at = "capacity" /\ f.cap = Fallen(capacity) /\ f.count = 0
      BY <2>a, <2>b, <2>f
    <3>2. Due(capacity, f.cap, f.count)
      BY <3>1, Zenon DEF Due
    <3>3. Onward(f)
      BY <1>1, <2>2, <2>f, <3>1, <3>2 DEF Onward
    <3> QED BY <3>3
  <2>3. CASE streak + 1 \geq Ramp /\ Set(c, r)
    <3>1. r.at = "capacity" /\ r.cap = Risen(capacity) /\ r.count = 0
      BY <2>a, <2>d, <2>r
    <3>2. Due(capacity, r.cap, r.count)
      BY <2>3, <3>1, Zenon DEF Due
    <3>3. Onward(r)
      BY <1>1, <2>3, <2>r, <3>1, <3>2 DEF Onward
    <3> QED BY <3>3
  <2>4. CASE ~(streak + 1 \geq Ramp) /\ Set(c, g)
    <3>1. Onward(g)
      BY <1>t, <1>2, <2>4, <2>e, <2>g DEF Onward, TypeOK, Numbers
    <3> QED BY <3>1
  <2> QED BY <2>1, <2>2, <2>3, <2>4
<1>4. PICK s : Onward(s)
  BY <1>3
<1>5. /\ TypeOK' /\ Locked' /\ cl'[c] = s
      /\ \A d \in Client \ {c} : cl'[d] = cl[d] /\ cl[d].at \notin Counting
  BY <1>2, <1>4, <1>t, Counter DEF TypeOK, Counting
<1>6. Counts'
  BY <1>2, <1>4, <1>5 DEF IInv, Counts, Due, Fallen, Risen, Counting, Numbers
<1>7. ~Torn /\ ~Torn'
  BY <1>2, <1>4, <1>5 DEF Torn
<1> QED BY <1>2, <1>5, <1>6, <1>7 DEF IInv, Seen

\* the capacity is written and not yet seen
LEMMA WritesCapacity ==
  ASSUME Numbers, IInv, NEW c \in Client, WriteCapacity(c)
  PROVE  IInv' /\ UNCHANGED <<Seen, streak>>
<1>t. cl[c] \in ClientState /\ TypeOK
  BY DEF IInv, TypeOK
<1> DEFINE a == [cl[c] EXCEPT !.at = "streak"]
<1>a. a \in ClientState /\ a.at = "streak" /\ a.cap = cl[c].cap /\ a.count = cl[c].count
  BY <1>t DEF TypeOK, ClientState
<1> HIDE DEF a
<1> DEFINE s == [a EXCEPT !.cap = capacity]
<1>s. s \in ClientState /\ s.cap = capacity /\ s.at = a.at /\ s.count = a.count
  BY <1>a, <1>t DEF TypeOK, ClientState
<1> HIDE DEF s
<1>1. /\ cl[c].at = "capacity" /\ lock = c /\ Set(c, s) /\ capacity' = cl[c].cap
      /\ cl[c].cap \in Int /\ Due(capacity, capacity', cl[c].count)
      /\ UNCHANGED <<streak, lock, now>>
  BY DEF WriteCapacity, Step, IInv, Locked, Counts, Counting, a, s
<1>2. /\ TypeOK' /\ Locked' /\ cl'[c] = s
      /\ \A d \in Client \ {c} : cl'[d] = cl[d] /\ cl[d].at \notin Counting
  BY <1>1, <1>a, <1>s, <1>t, Counter DEF TypeOK, Counting
<1>3. Counts'
  <2>1. /\ cl'[c].at = "streak" /\ cl'[c].cap = capacity /\ cl'[c].count = cl[c].count
        /\ capacity \in Int /\ capacity # None
    BY <1>2, <1>a, <1>s, <1>t DEF TypeOK, Numbers
  <2>2. Due(cl[c].cap, capacity, cl[c].count)'
    BY <1>1, <2>1, Zenon DEF Due, Fallen, Risen
  <2> QED BY <1>2, <2>1, <2>2 DEF IInv, Counts, Counting
<1>4. ~Torn /\ Torn' /\ Seen' = capacity
  BY <1>1, <1>2, <1>a, <1>s, <1>t DEF Torn, Seen, TypeOK, Numbers
<1> QED BY <1>1, <1>2, <1>3, <1>4 DEF IInv, Seen

\* the streak is written, and both numbers are seen at once
LEMMA WritesStreak ==
  ASSUME Numbers, IInv, NEW c \in Client, WriteStreak(c)
  PROVE  IInv' /\ Counted!Next
<1>t. cl[c] \in ClientState /\ TypeOK
  BY DEF IInv, TypeOK
<1> DEFINE a == [cl[c] EXCEPT !.at = "leave"]
<1>a. a \in ClientState /\ a.at = "leave" /\ a.cap = cl[c].cap /\ a.count = cl[c].count
  BY <1>t DEF ClientState
<1> HIDE DEF a
<1> DEFINE b == [a EXCEPT !.cap = None]
<1>b. b \in ClientState /\ b.cap = None /\ b.at = a.at /\ b.count = a.count
  BY <1>a DEF ClientState
<1> HIDE DEF b
<1> DEFINE d == [b EXCEPT !.count = None]
<1>d. d \in ClientState /\ d.count = None /\ d.at = b.at /\ d.cap = b.cap
  BY <1>b DEF ClientState
<1> HIDE DEF d
<1> DEFINE s == [d EXCEPT !.limit = None]
<1>s. s \in ClientState /\ s.at = d.at /\ s.cap = d.cap /\ s.count = d.count
  BY <1>d DEF ClientState
<1> HIDE DEF s
<1>1. /\ cl[c].at = "streak" /\ lock = c /\ lock' = None /\ Set(c, s)
      /\ streak' = cl[c].count /\ UNCHANGED <<capacity, now>>
  BY DEF WriteStreak, Step, IInv, Locked, Counting, a, b, d, s
<1>c. IF cl[c].cap = None THEN cl[c].count = streak + 1 /\ streak + 1 < Ramp
        ELSE cl[c].cap \in Int /\ Due(cl[c].cap, capacity, cl[c].count)
  BY <1>1 DEF IInv, Counts
<1>2. cl[c].count \in Int
  BY <1>c, <1>t DEF TypeOK, Due
<1>3. /\ TypeOK' /\ Locked' /\ cl'[c] = s
      /\ \A e \in Client \ {c} : cl'[e] = cl[e] /\ cl[e].at \notin Counting
  BY <1>1, <1>2, <1>a, <1>b, <1>d, <1>s, <1>t, Counter DEF TypeOK, Counting
<1>4. Counts'
  BY <1>1, <1>3, <1>a, <1>b, <1>d, <1>s DEF IInv, Counts, Counting
<1>5. Seen' = capacity
  BY <1>1 DEF Torn, Seen
<1>6. CASE cl[c].cap = None
  <2>1. Seen = capacity
    BY <1>1, <1>6 DEF Seen, Torn
  <2>2. Counted!Succeeded
    BY <1>1, <1>5, <1>6, <1>c, <2>1 DEF Counted!Succeeded
  <2> QED BY <1>3, <1>4, <2>2 DEF IInv, Counted!Next
<1>7. CASE cl[c].cap # None
  <2>1. Seen = cl[c].cap
    BY <1>1, <1>7 DEF Seen, Torn, Numbers
  <2>2. streak' = 0 /\ (Seen' = Fallen(Seen) \/ (streak + 1 >= Ramp /\ Seen' = Risen(Seen)))
    BY <1>1, <1>5, <1>7, <1>c, <2>1 DEF Due
  <2>3. Counted!Halved = Fallen(Seen) /\ Counted!Raised = Risen(Seen)
    BY Zenon DEF Counted!Halved, Counted!Raised, Fallen, Risen, Max, Min, Counted!Max, Counted!Min
  <2>4. Counted!Throttled \/ Counted!Succeeded
    BY <2>2, <2>3, <1>t DEF Counted!Throttled, Counted!Succeeded, TypeOK, Numbers
  <2> QED BY <1>3, <1>4, <2>4 DEF IInv, Counted!Next
<1> QED BY <1>6, <1>7

\* a client that dies leaves nothing, or the capacity it has written
LEMMA Dies ==
  ASSUME Numbers, IInv, NEW c \in Client, Crash(c)
  PROVE  IInv' /\ (UNCHANGED <<Seen, streak>> \/ Counted!Interrupted)
<1>t. cl[c] \in ClientState /\ TypeOK
  BY DEF IInv, TypeOK
<1> DEFINE s == [New EXCEPT !.at = "over"]
<1>s. s \in ClientState /\ s.at = "over" /\ s.cap = None
  BY Starts DEF ClientState
<1> HIDE DEF s
<1>1. Set(c, s) /\ UNCHANGED <<capacity, streak, now>> /\ lock' = IF lock = c THEN None ELSE lock
  BY DEF Crash, End, s
<1>2. CASE cl[c].at \notin Counting
  <2>1. lock # c
    BY <1>2 DEF IInv, Locked
  <2> QED BY <1>1, <1>2, <1>s, <2>1, Moved DEF Counting
<1>3. CASE cl[c].at \in Counting
  <2>1. lock = c
    BY <1>3 DEF IInv, Locked
  <2>2. /\ TypeOK' /\ Locked' /\ cl'[c] = s
        /\ \A d \in Client \ {c} : cl'[d] = cl[d] /\ cl[d].at \notin Counting
    BY <1>1, <1>s, <1>t, <2>1, Counter DEF TypeOK, Counting
  <2>3. Counts'
    BY <1>s, <2>2 DEF IInv, Counts, Counting
  <2>4. Seen' = capacity
    BY <1>1, <2>1 DEF Torn, Seen
  <2>5. CASE ~Torn
    BY <1>1, <2>2, <2>3, <2>4, <2>5 DEF IInv, Seen
  <2>6. CASE Torn
    <3>1. Seen = cl[c].cap /\ Due(cl[c].cap, capacity, cl[c].count)
      BY <2>1, <2>6 DEF Torn, Seen, IInv, Counts
    <3>2. capacity = Fallen(Seen) \/ (streak + 1 >= Ramp /\ capacity = Risen(Seen))
      BY <3>1 DEF Due
    <3>3. Counted!Halved = Fallen(Seen) /\ Counted!Raised = Risen(Seen)
      BY Zenon DEF Counted!Halved, Counted!Raised, Fallen, Risen, Max, Min, Counted!Max, Counted!Min
    <3>4. Counted!Interrupted
      BY <1>1, <1>t, <2>4, <3>2, <3>3 DEF Counted!Interrupted, TypeOK, Numbers
    <3> QED BY <2>2, <2>3, <3>4 DEF IInv
  <2> QED BY <2>5, <2>6
<1> QED BY <1>2, <1>3

LEMMA Steps ==
  ASSUME Numbers, IInv, [Next]_vars
  PROVE  IInv' /\ [Counted!Next]_<<Seen, streak>>
<1>1. CASE UNCHANGED vars
  BY <1>1 DEF vars, IInv, TypeOK, Locked, Counts, Due, Fallen, Risen, Seen, Torn
<1>2. CASE Tick
  <2>1. UNCHANGED <<capacity, streak, lock, cl>> /\ now' \in Int
    BY <1>2 DEF Tick, IInv, TypeOK
  <2> QED BY <2>1 DEF IInv, TypeOK, Locked, Counts, Due, Fallen, Risen, Seen, Torn
<1>3. ASSUME NEW c \in Client,
             Look(c) \/ Try(c) \/ GiveUp(c) \/ Answer(c) \/ Leave(c) \/ Resume(c)
      PROVE  IInv' /\ UNCHANGED <<Seen, streak>>
  BY <1>3, Moves
<1>4. ASSUME NEW c \in Client, Lock(c) \/ Count(c) \/ WriteCapacity(c)
      PROVE  IInv' /\ UNCHANGED <<Seen, streak>>
  BY <1>4, Locks, Computes, WritesCapacity
<1>5. ASSUME NEW c \in Client, WriteStreak(c)
      PROVE  IInv' /\ Counted!Next
  BY <1>5, WritesStreak
<1>6. ASSUME NEW c \in Client, Crash(c)
      PROVE  IInv' /\ (UNCHANGED <<Seen, streak>> \/ Counted!Next)
  BY <1>6, Dies DEF Counted!Next
<1> QED BY <1>1, <1>2, <1>3, <1>4, <1>5, <1>6 DEF Next

\* The lock is held by no one but the client that counts, and a client that
\* counts has the two numbers its files hold (slots.py:56, 63, 82).
THEOREM CountsAlone == ASSUME Numbers PROVE Spec => []IInv
<1>1. Init => IInv
  BY Inits
<1>2. IInv /\ [Next]_vars => IInv'
  BY Steps
<1> QED BY <1>1, <1>2, PTL DEF Spec

\* Whatever the processes do, and wherever one dies, no answer of the provider
\* is lost from the capacity file (slots.py:34).
THEOREM CapacityIsCounted == ASSUME Numbers PROVE Spec => CapacityCounted
<1>1. Init => Counted!Init
  BY DEF Init, Counted!Init, Seen, Torn
<1>2. IInv /\ [Next]_vars => [Counted!Next]_<<Seen, streak>>
  BY Steps
<1> QED BY <1>1, <1>2, CountsAlone, PTL DEF Spec, CapacityCounted, Counted!Spec

-----------------------------------------------------------------------------
(* Slots. A client that has looked since the capacity fell tries no slot at *)
(* or above it, and no two clients hold the same one.                       *)

Trying(c) ==
  /\ cl[c].slot \in Nat
  /\ c \in fresh => cl[c].limit \in Int /\ cl[c].limit <= capacity /\ cl[c].slot < cl[c].limit

Held(c) == cl[c].slot \in Nat /\ (c \in fresh => cl[c].slot < capacity)

SlotsOK ==
  /\ capacity >= 1 /\ fresh \subseteq Client
  /\ \A c \in Client : cl[c].at = "try" => Trying(c)
  /\ \A c \in Client : Holding(c) => Held(c)
  /\ \A c, d \in Client : c # d /\ Holding(c) /\ Holding(d) => cl[c].slot # cl[d].slot

\* c moves on and keeps the slot it has, or has none
LEMMA KeepsSlot ==
  ASSUME IInv, SlotsOK, NEW c \in Client, NEW s, Set(c, s), UNCHANGED <<capacity, fresh>>,
         s.at # "try",
         s.at \notin {"look", "waiting", "over"} => Holding(c) /\ s.slot = cl[c].slot
  PROVE  SlotsOK'
<1>1. cl'[c] = s /\ \A d \in Client \ {c} : cl'[d] = cl[d]
  BY DEF Set, IInv, TypeOK
<1>2. \A d \in Client : Holding(d)' => Holding(d) /\ cl'[d].slot = cl[d].slot
  BY <1>1 DEF Holding
<1>3. \A d \in Client : cl'[d].at = "try" => cl[d].at = "try" /\ cl'[d] = cl[d]
  BY <1>1
<1> QED BY <1>1, <1>2, <1>3 DEF SlotsOK, Trying, Held

LEMMA Initially == ASSUME Numbers, SomeSlots PROVE Init => SlotsOK
BY DEF Numbers, SomeSlots, Init, New, SlotsOK, Trying, Held, Holding

\* the capacity is at least one whatever is written
LEMMA StaysOpen ==
  ASSUME Numbers, SomeSlots, NEW old \in Int, old >= 1
  PROVE  Fallen(old) >= 1 /\ Risen(old) >= 1
<1>1. \E x \in {MinSlots, old \div 2} : \A y \in {MinSlots, old \div 2} : x >= y
  BY DEF Numbers
<1>2. \E x \in {MaxSlots, old + 1} : \A y \in {MaxSlots, old + 1} : x <= y
  BY DEF Numbers
<1>3. \A y \in {MinSlots, old \div 2} : Fallen(old) >= y
  BY <1>1, Zenon DEF Fallen, Max
<1>4. Fallen(old) \in {MinSlots, old \div 2}
  BY <1>1, Zenon DEF Fallen, Max
<1>5. Risen(old) \in {MaxSlots, old + 1}
  BY <1>2, Zenon DEF Risen, Min
<1> QED BY <1>3, <1>4, <1>5 DEF Numbers, SomeSlots

LEMMA SlotSteps ==
  ASSUME Numbers, SomeSlots, IInv, SlotsOK, [Next]_vars
  PROVE  SlotsOK'
<1>t. \A c \in Client : cl[c] \in ClientState
  BY DEF IInv, TypeOK
<1>1. CASE UNCHANGED vars \/ Tick
  BY <1>1 DEF vars, Tick, SlotsOK, Trying, Held, Holding
<1>2. ASSUME NEW c \in Client, Look(c) PROVE SlotsOK'
  <2> DEFINE s == [cl[c] EXCEPT !.at = "try", !.limit = capacity, !.slot = 0]
  <2>1. s.at = "try" /\ s.limit = capacity /\ s.slot = 0
    BY <1>t DEF ClientState
  <2>2. cl'[c] = s /\ \A d \in Client \ {c} : cl'[d] = cl[d]
    BY <1>2 DEF Look, Limit, Set, IInv, TypeOK
  <2> HIDE DEF s
  <2>3. UNCHANGED capacity /\ fresh' = fresh \cup {c} /\ capacity \in Int
    BY <1>2 DEF Look, IInv, TypeOK
  <2>4. \A d \in Client : Holding(d)' => d # c /\ Holding(d) /\ cl'[d] = cl[d]
    BY <2>1, <2>2 DEF Holding
  <2>5. \A d \in Client : cl'[d].at = "try" => Trying(d)'
    BY <2>1, <2>2, <2>3 DEF SlotsOK, Trying
  <2> QED BY <2>3, <2>4, <2>5 DEF SlotsOK, Held
<1>3. ASSUME NEW c \in Client, Try(c) PROVE SlotsOK'
  <2>1. cl[c].at = "try" /\ Trying(c) /\ UNCHANGED <<capacity, fresh>> /\ capacity \in Int
    BY <1>3 DEF Try, Step, SlotsOK, IInv, TypeOK
  <2>2. CASE Set(c, [cl[c] EXCEPT !.slot = @ + 1]) /\ cl[c].slot + 1 < cl[c].limit
    <3> DEFINE s == [cl[c] EXCEPT !.slot = cl[c].slot + 1]
    <3>1. s.at = "try" /\ s.limit = cl[c].limit /\ s.slot = cl[c].slot + 1
      BY <1>t, <2>1 DEF ClientState
    <3>2. cl'[c] = s /\ \A d \in Client \ {c} : cl'[d] = cl[d]
      BY <2>2 DEF Set, IInv, TypeOK
    <3> HIDE DEF s
    <3>3. \A d \in Client : Holding(d)' => Holding(d) /\ cl'[d] = cl[d]
      BY <3>1, <3>2 DEF Holding
    <3>4. Trying(c)'
      BY <2>1, <2>2, <3>1, <3>2 DEF Trying
    <3>5. \A d \in Client : cl'[d].at = "try" => Trying(d)'
      BY <2>1, <3>2, <3>4 DEF SlotsOK, Trying
    <3> QED BY <2>1, <3>3, <3>5 DEF SlotsOK, Held
  <2>3. CASE Set(c, [cl[c] EXCEPT !.at = "look", !.slot = None])
    <3>1. [cl[c] EXCEPT !.at = "look", !.slot = None].at = "look"
      BY <1>t DEF ClientState
    <3> QED BY <2>1, <2>3, <3>1, KeepsSlot
  <2>4. CASE Go(c, "send") /\ ~ \E d \in Client : Holding(d) /\ cl[d].slot = cl[c].slot
    <3> DEFINE s == [cl[c] EXCEPT !.at = "send"]
    <3>1. s.at = "send" /\ s.slot = cl[c].slot
      BY <1>t DEF ClientState
    <3>2. cl'[c] = s /\ \A d \in Client \ {c} : cl'[d] = cl[d]
      BY <2>4 DEF Go, Set, IInv, TypeOK
    <3> HIDE DEF s
    <3>3. \A d \in Client : Holding(d)' =>
            /\ cl'[d].slot = cl[d].slot
            /\ d # c => Holding(d)
      <4>1. \A d \in Client : d # c => cl'[d] = cl[d]
        BY <3>2
      <4>2. cl'[c].slot = cl[c].slot
        BY <3>1, <3>2
      <4> QED BY <4>1, <4>2, Zenon DEF Holding
    <3>4. Held(c)'
      BY <2>1, <3>1, <3>2 DEF Held, Trying
    <3>5. \A d \in Client : Holding(d)' => Held(d)'
      BY <2>1, <3>3, <3>4 DEF SlotsOK, Held
    <3>6. \A d, e \in Client : d # e /\ Holding(d)' /\ Holding(e)' => cl'[d].slot # cl'[e].slot
      BY <2>4, <3>3 DEF SlotsOK
    <3>7. \A d \in Client : cl'[d].at = "try" => Trying(d)'
      BY <2>1, <3>1, <3>2 DEF SlotsOK, Trying
    <3> QED BY <2>1, <3>5, <3>6, <3>7 DEF SlotsOK
  <2> QED BY <1>3, <2>2, <2>3, <2>4 DEF Try
<1>n. New.at = "look" BY DEF New
<1>4. ASSUME NEW c \in Client, GiveUp(c) \/ Crash(c) PROVE SlotsOK'
  <2>1. [New EXCEPT !.at = "over"].at = "over"
    BY DEF New
  <2> QED BY <1>4, <2>1, KeepsSlot DEF GiveUp, Crash, End
<1>5. ASSUME NEW c \in Client, Answer(c) PROVE SlotsOK'
  <2>1. Holding(c) /\ UNCHANGED <<capacity, fresh>>
    BY <1>5 DEF Answer, Step, Holding
  <2>2. ASSUME NEW at \in {"lock", "leave"}, NEW says, NEW s,
               s = [cl[c] EXCEPT !.at = at, !.says = says]
        PROVE  s.at = at /\ s.slot = cl[c].slot
    BY <1>t, <2>2 DEF ClientState
  <2>3. ASSUME NEW after, NEW s, s = [cl[c] EXCEPT !.at = "lock", !.says = "transient", !.after = after]
        PROVE  s.at = "lock" /\ s.slot = cl[c].slot
    BY <1>t, <2>3 DEF ClientState
  <2>4. ASSUME Passing(c) PROVE SlotsOK'
    BY <2>1, <2>3, <2>4, KeepsSlot DEF Passing
  <2>5. ASSUME Answered(c) \/ Fatal(c) PROVE SlotsOK'
    BY <2>1, <2>2, <2>5, KeepsSlot DEF Answered, Fatal
  <2> QED BY <1>5, <2>4, <2>5 DEF Answer
<1>6. ASSUME NEW c \in Client, Lock(c) \/ Count(c) \/ WriteStreak(c) PROVE SlotsOK'
  <2>1. Holding(c) /\ UNCHANGED <<capacity, fresh>>
    BY <1>6 DEF Lock, Count, WriteStreak, Step, Holding
  <2> DEFINE l == [cl[c] EXCEPT !.at = "count"]
             w == [cl[c] EXCEPT !.at = "leave", !.cap = None, !.count = None, !.limit = None]
             n(at, cap, count) == [cl[c] EXCEPT !.at = at, !.cap = cap, !.count = count]
             m == [cl[c] EXCEPT !.at = "streak", !.count = streak + 1]
  <2>2. /\ l.at = "count" /\ l.slot = cl[c].slot
        /\ w.at = "leave" /\ w.slot = cl[c].slot
        /\ m.at = "streak" /\ m.slot = cl[c].slot
    BY <1>t DEF ClientState
  <2>3. \A cap, count : /\ n("capacity", cap, count).at = "capacity"
                        /\ n("capacity", cap, count).slot = cl[c].slot
    BY <1>t DEF ClientState
  <2>4. \/ Set(c, l) \/ Set(c, w) \/ Set(c, m)
        \/ \E cap, count : Set(c, n("capacity", cap, count))
    BY <1>6, Zenon DEF Lock, Go, Count, WriteStreak
  <2> HIDE DEF l, w, n, m
  <2> QED BY <2>1, <2>2, <2>3, <2>4, KeepsSlot
<1>7. ASSUME NEW c \in Client, WriteCapacity(c) PROVE SlotsOK'
  <2>1. /\ cl[c].at = "capacity" /\ Holding(c) /\ capacity' = cl[c].cap /\ capacity \in Int
        /\ cl[c].cap \in Int /\ (cl[c].cap = Fallen(capacity) \/ cl[c].cap = Risen(capacity))
    BY <1>7 DEF WriteCapacity, Step, Holding, IInv, TypeOK, Counts, Due
  <2>2. capacity' >= 1
    BY <2>1, StaysOpen DEF SlotsOK
  <2> DEFINE s == [cl[c] EXCEPT !.at = "streak", !.cap = capacity]
  <2>3. s.at = "streak" /\ s.slot = cl[c].slot
    BY <1>t DEF ClientState
  <2>4. cl'[c] = s /\ \A d \in Client \ {c} : cl'[d] = cl[d]
    BY <1>7 DEF WriteCapacity, Set, IInv, TypeOK
  <2> HIDE DEF s
  <2>5. \A d \in Client : Holding(d)' => Holding(d) /\ cl'[d].slot = cl[d].slot
    BY <2>1, <2>3, <2>4 DEF Holding
  <2>6. \A d \in Client : cl'[d].at = "try" => cl[d].at = "try" /\ cl'[d] = cl[d]
    BY <2>3, <2>4
  <2>7. \/ fresh' = {}
        \/ fresh' = fresh /\ capacity' >= capacity
    BY <1>7, <2>1 DEF WriteCapacity
  <2>8. \A d \in Client : Holding(d) => Held(d)
    BY DEF SlotsOK
  <2>9. \A d \in Client : Holding(d)' => Held(d)'
    BY <2>1, <2>5, <2>7, <2>8 DEF Held
  <2>10. \A d \in Client : cl'[d].at = "try" => Trying(d)'
    BY <2>1, <2>6, <2>7 DEF SlotsOK, Trying
  <2> QED BY <2>2, <2>5, <2>7, <2>9, <2>10 DEF SlotsOK
<1>8. ASSUME NEW c \in Client, Leave(c) \/ Resume(c) PROVE SlotsOK'
  <2>1. UNCHANGED <<capacity, fresh>>
    BY <1>8 DEF Leave, Resume
  <2> DEFINE r == [cl[c] EXCEPT !.at = "look"]
             o == [New EXCEPT !.at = "over"]
             w(n, due, asked) ==
               [New EXCEPT !.at = "waiting", !.attempt = n, !.due = due, !.asked = asked]
  <2>2. r.at = "look" /\ o.at = "over" /\ \A n, due, asked : w(n, due, asked).at = "waiting"
    BY <1>t DEF ClientState, New
  <2>3. Set(c, r) \/ Set(c, o) \/ \E n, due, asked : Set(c, w(n, due, asked))
    BY <1>8, Zenon DEF Leave, Resume, Go, End
  <2> HIDE DEF r, o, w
  <2> QED BY <2>1, <2>2, <2>3, KeepsSlot
<1> QED BY <1>1, <1>2, <1>3, <1>4, <1>5, <1>6, <1>7, <1>8 DEF Next

\* The clients that have looked since the capacity fell, and hold a slot, hold
\* different ones below it, however many others still hold theirs (slots.py:85).
THEOREM FreshStayWithin == ASSUME Numbers, SomeSlots PROVE Spec => []FreshWithinCapacity
<1>1. Init => SlotsOK
  BY Initially
<1>2. IInv /\ SlotsOK /\ [Next]_vars => SlotsOK'
  BY SlotSteps
<1>3. ASSUME IInv, SlotsOK PROVE FreshWithinCapacity
  <2> DEFINE S == {c \in fresh : Holding(c)}
             T == 0 .. (capacity - 1)
             f == [c \in S |-> cl[c].slot]
  <2>1. capacity \in Int /\ capacity >= 1
    BY <1>3 DEF IInv, TypeOK, SlotsOK
  <2>2. \A c \in S : cl[c].slot \in T
    BY <1>3, <2>1 DEF SlotsOK, Held
  <2>3. \A c, d \in S : cl[c].slot = cl[d].slot => c = d
    BY <1>3 DEF SlotsOK
  <2>4. f \in Injection(S, T)
    BY <2>2, <2>3 DEF Injection, IsInjective
  <2>5. IsFiniteSet(T) /\ Cardinality(T) = capacity
    <3>1. IsFiniteSet(T) /\ Cardinality(T) = IF 0 > capacity - 1 THEN 0 ELSE (capacity - 1) - 0 + 1
      BY <2>1, FS_Interval
    <3> HIDE DEF T
    <3> QED BY <2>1, <3>1
  <2> HIDE DEF S, T, f
  <2>6. Cardinality(S) <= Cardinality(T)
    BY <2>4, <2>5, FS_Injection, Zenon
  <2> QED BY <2>5, <2>6 DEF S, FreshWithinCapacity
<1> QED BY <1>1, <1>2, <1>3, CountsAlone, PTL DEF Spec

-----------------------------------------------------------------------------
(* What the provider has asked for.                                         *)

Heeded ==
  /\ now >= 0
  /\ \A c \in Client : IF cl[c].at = "waiting" THEN cl[c].due >= cl[c].asked
                       ELSE now >= cl[c].asked

LEMMA HeedSteps ==
  ASSUME Numbers, IInv, Heeded, [Next]_vars
  PROVE  Heeded'
<1>t. now \in Int /\ \A c \in Client : cl[c] \in ClientState
  BY DEF IInv, TypeOK
<1>u. \A c \in Client : cl[c].due \in Int /\ cl[c].asked \in Int
  BY <1>t DEF ClientState
<1>s. ASSUME NEW c \in Client, NEW s, Set(c, s), UNCHANGED now,
             IF s.at = "waiting" THEN s.due >= s.asked ELSE now >= s.asked
      PROVE  Heeded'
  <2>1. cl'[c] = s /\ \A d \in Client \ {c} : cl'[d] = cl[d]
    BY <1>s DEF Set, IInv, TypeOK
  <2> QED BY <1>s, <2>1 DEF Heeded
<1>1. CASE UNCHANGED vars \/ Tick
  BY <1>1, <1>t, <1>u DEF vars, Tick, Heeded
<1>2. ASSUME NEW c \in Client,
             Look(c) \/ Try(c) \/ Answer(c) \/ Lock(c) \/ Count(c) \/ WriteCapacity(c) \/ WriteStreak(c)
      PROVE  Heeded'
  <2>1. UNCHANGED now /\ cl[c].at # "waiting"
    BY <1>2 DEF Look, Try, Answer, Lock, Count, WriteCapacity, WriteStreak, Step
  <2>c. cl \in [Client -> ClientState]
    BY DEF IInv, TypeOK
  <2>2. cl'[c].asked = cl[c].asked /\ cl'[c].at # "waiting" /\ \A d \in Client \ {c} : cl'[d] = cl[d]
    <3>1. CASE Look(c)
      BY <1>t, <2>c, <3>1 DEF Look, Set, ClientState
    <3>2. CASE Try(c)
      <4>1. CASE Set(c, [cl[c] EXCEPT !.slot = @ + 1])
        BY <1>t, <2>c, <2>1, <4>1 DEF Set, ClientState
      <4>2. CASE Set(c, [cl[c] EXCEPT !.at = "look", !.slot = None])
        BY <1>t, <2>c, <4>2 DEF Set, ClientState
      <4>3. CASE Set(c, [cl[c] EXCEPT !.at = "send"])
        BY <1>t, <2>c, <4>3 DEF Set, ClientState
      <4> QED BY <3>2, <4>1, <4>2, <4>3 DEF Try, Go
    <3>3. CASE Answer(c)
      <4>1. CASE Passing(c)
        BY <1>t, <2>c, <4>1 DEF Passing, Set, ClientState
      <4>2. CASE Answered(c)
        BY <1>t, <2>c, <4>2 DEF Answered, Set, ClientState
      <4>3. CASE Fatal(c)
        BY <1>t, <2>c, <4>3 DEF Fatal, Set, ClientState
      <4> QED BY <3>3, <4>1, <4>2, <4>3 DEF Answer
    <3>4. CASE Lock(c)
      BY <1>t, <2>c, <3>4 DEF Lock, Go, Set, ClientState
    <3>5. CASE Count(c)
      BY <1>t, <2>c, <3>5 DEF Count, Set, ClientState
    <3>6. CASE WriteCapacity(c)
      BY <1>t, <2>c, <3>6 DEF WriteCapacity, Set, ClientState
    <3>7. CASE WriteStreak(c)
      BY <1>t, <2>c, <3>7 DEF WriteStreak, Set, ClientState
    <3> QED BY <1>2, <3>1, <3>2, <3>3, <3>4, <3>5, <3>6, <3>7
  <2> QED BY <2>1, <2>2 DEF Heeded
<1>3. ASSUME NEW c \in Client, GiveUp(c) \/ Crash(c) PROVE Heeded'
  <2>1. [New EXCEPT !.at = "over"].at = "over" /\ [New EXCEPT !.at = "over"].asked = 0
    BY DEF New
  <2> QED BY <1>3, <1>s, <2>1 DEF GiveUp, Crash, End, Step, Heeded
<1>4. ASSUME NEW c \in Client, Leave(c) PROVE Heeded'
  <2>1. CASE End(c)
    <3>1. [New EXCEPT !.at = "over"].at = "over" /\ [New EXCEPT !.at = "over"].asked = 0
      BY DEF New
    <3> QED BY <1>4, <1>s, <2>1, <3>1 DEF Leave, End, Step, Heeded
  <2>2. ASSUME NEW f \in Fractions,
               Set(c, [New EXCEPT !.at = "waiting", !.attempt = cl[c].attempt + 1,
                                  !.due = now + Delay(cl[c].attempt, f, cl[c].after),
                                  !.asked = now + cl[c].after])
        PROVE  Heeded'
    <3> DEFINE d == Delay(cl[c].attempt, f, cl[c].after)
               a == cl[c].after
    <3>1. cl[c].attempt \in Nat \ {0} /\ a \in RetryAfter \cup {0}
      BY <1>t DEF ClientState
    <3>2. d \in Int /\ d >= a /\ a \in Int
      BY <3>1, Delays, Asked
    <3> DEFINE s == [New EXCEPT !.at = "waiting", !.attempt = cl[c].attempt + 1,
                                !.due = now + d, !.asked = now + a]
    <3> HIDE DEF d, a
    <3>3. s.at = "waiting" /\ s.due = now + d /\ s.asked = now + a
      BY DEF New
    <3>4. UNCHANGED now /\ Set(c, s)
      BY <1>4, <2>2 DEF Leave, Step, d, a
    <3> HIDE DEF s
    <3> QED BY <1>s, <1>t, <3>2, <3>3, <3>4
  <2> QED BY <1>4, <2>1, <2>2 DEF Leave
<1>5. ASSUME NEW c \in Client, Resume(c) PROVE Heeded'
  <2>1. cl[c].at = "waiting" /\ now >= cl[c].due /\ UNCHANGED now
    BY <1>5 DEF Resume, Step
  <2>2. \E s : Set(c, s) /\ s.asked = cl[c].asked /\ s.at = "look"
    BY <1>5, <1>t DEF Resume, Go, ClientState
  <2> QED BY <1>s, <1>t, <1>u, <2>1, <2>2 DEF Heeded
<1> QED BY <1>1, <1>2, <1>3, <1>4, <1>5 DEF Next

\* No attempt is sent before the time its provider has asked for, however the
\* policy jitters, multiplies and caps its own delay (retry.py:122).
THEOREM ProviderIsHeeded == ASSUME Numbers PROVE Spec => []AskedFor
<1>1. Init => Heeded
  BY DEF Init, New, Heeded
<1>2. IInv /\ Heeded /\ [Next]_vars => Heeded'
  BY HeedSteps
<1>3. Heeded => AskedFor
  BY DEF Heeded, AskedFor
<1> QED BY <1>1, <1>2, <1>3, CountsAlone, PTL DEF Spec

-----------------------------------------------------------------------------
(* FileReads.                                                                *)

\* Nothing is no file, and there is at least one attempt (_safe_io.py:32)
Bounds == Nothing \notin Nat /\ MaxReads \in Nat \ {0}

Halves == [1..2 -> Version]
File   == [halves : Halves, mtime : Nat, ctime : Nat]
Stamps == Nat \X Nat \X Nat
Places == {"start", "open", "displaced", "verify", "excuse", "read", "check", "named", "keyed",
           "expand", "done"}
Reader ==
  [at : Places, attempts : Nat, bound : Stamps \cup {Nothing}, open : Nat \cup {Nothing},
   was : Stamps \cup (Stamps \X Stamps) \cup {Nothing}, got : Seq(Version),
   key : Seq(Version) \cup {Nothing}, result : {"ok", "missing", "changed", Nothing}]

Files ==
  /\ file \in Seq(File)
  /\ path \in DOMAIN file \cup {Nothing}
  /\ silent \in BOOLEAN /\ edited \in BOOLEAN /\ removed \in BOOLEAN

HasOpen == rd.at \in {"verify", "excuse", "read", "check", "named"}
Bound   == HasOpen \/ rd.at \in {"open", "displaced", "keyed"}

\* what the reader has bound and opened is one of the files there have been
Opened ==
  /\ rd \in Reader
  /\ Bound => rd.bound \in Stamps /\ rd.bound[1] \in DOMAIN file
  /\ HasOpen => rd.open = rd.bound[1] /\ file[rd.open].halves \in past

\* what it has read of it is what it holds, unless its mtime has moved
Reading ==
  /\ rd.at \in {"verify", "excuse"} => rd.got = <<>>
  /\ rd.at \in {"read", "check"} =>
       /\ rd.was \in Stamps /\ rd.was[2] <= file[rd.open].mtime
       /\ Len(rd.got) = 2 <=> rd.at = "check"
       /\ Len(rd.got) <= 2
       /\ ~silent /\ rd.was[2] = file[rd.open].mtime =>
            \A i \in 1 .. Len(rd.got) : rd.got[i] = file[rd.open].halves[i]
  /\ rd.at = "named" =>
       /\ rd.was \in Stamps \X Stamps
       /\ ~silent /\ rd.was[1][2] = rd.was[2][2] => rd.got \in past
  /\ rd.at = "expand" \/ Taken => silent \/ rd.got \in past

ReadsInv == Files /\ Opened /\ Reading

-----------------------------------------------------------------------------
\* two halves read are the two halves
LEMMA Whole ==
  ASSUME NEW got \in Seq(Version), NEW halves \in Halves, Len(got) = 2,
         \A i \in 1 .. Len(got) : got[i] = halves[i]
  PROVE  got = halves
<1>1. got = [i \in 1 .. 2 |-> got[i]]
  BY SeqDef
<1>2. halves = [i \in 1 .. 2 |-> halves[i]]
  BY DEF Halves
<1> QED BY <1>1, <1>2

LEMMA Pairs == ASSUME NEW v \in Version PROVE <<v, v>> \in Halves
BY DEF Halves

LEMMA EachFile ==
  ASSUME Files
  PROVE  \A f \in DOMAIN file : /\ file[f] \in File /\ file[f].halves \in Halves
                                /\ file[f].mtime \in Nat /\ file[f].ctime \in Nat
<1>1. TAKE f \in DOMAIN file
<1>2. f \in 1 .. Len(file) /\ file \in Seq(File)
  BY DEF Files
<1>3. file[f] \in File
  BY <1>2, ElementOfSeq
<1> QED BY <1>3 DEF File

LEMMA FirstReads == ASSUME Bounds PROVE ReadsInit => ReadsInv
<1>1. ASSUME ReadsInit, NEW v \in Version, file = <<[halves |-> <<v, v>>, mtime |-> 0, ctime |-> 0]>>
      PROVE  ReadsInv
  <2>1. [halves |-> <<v, v>>, mtime |-> 0, ctime |-> 0] \in File
    BY Pairs DEF File
  <2>2. file \in Seq(File) /\ 1 \in DOMAIN file
    BY <1>1, <2>1
  <2>3. rd \in Reader
    BY <1>1 DEF ReadsInit, Idle, Reader, Places
  <2> QED BY <1>1, <2>2, <2>3
          DEF ReadsInit, Idle, ReadsInv, Files, Opened, Reading, Bound, HasOpen, Taken
<1> QED BY <1>1 DEF ReadsInit

-----------------------------------------------------------------------------
(* Writers. *)

\* what they leave of the files there were
Later ==
  /\ Files'
  /\ UNCHANGED <<kind, rd>>
  /\ DOMAIN file \subseteq DOMAIN file'
  /\ \A f \in DOMAIN file :
       /\ file[f].mtime \in Nat /\ file'[f].mtime \in Nat /\ file'[f].mtime >= file[f].mtime
       /\ ~silent' /\ file'[f].mtime = file[f].mtime => file'[f].halves = file[f].halves
       /\ f = rd.open => file'[f].halves \in past' \/ file'[f].halves = file[f].halves
  /\ past \subseteq past'
  /\ silent => silent'

LEMMA LaterKeeps == ASSUME Bounds, ReadsInv, Later PROVE ReadsInv'
<1> USE DEF ReadsInv, Later
<1>1. Opened'
  <2>1. rd' \in Reader /\ rd' = rd
    BY DEF Opened
  <2>2. ASSUME Bound PROVE rd.bound[1] \in DOMAIN file'
    BY <2>2 DEF Opened
  <2>3. ASSUME HasOpen PROVE file'[rd.open].halves \in past'
    BY <2>3 DEF Opened, Bound
  <2> QED BY <2>1, <2>2, <2>3 DEF Opened, Bound, HasOpen
<1>2. Reading'
  <2>1. ASSUME rd.at \in {"read", "check"}
        PROVE  /\ rd.was[2] <= file'[rd.open].mtime
               /\ ~silent' /\ rd.was[2] = file'[rd.open].mtime =>
                    \A i \in 1 .. Len(rd.got) : rd.got[i] = file'[rd.open].halves[i]
    <3>1. rd.open \in DOMAIN file
      BY <2>1 DEF Opened, Bound, HasOpen
    <3>2. rd.was[2] \in Nat /\ file[rd.open].mtime \in Nat /\ file'[rd.open].mtime \in Nat
      <4>1. file[rd.open].mtime \in Nat /\ file'[rd.open].mtime \in Nat
        BY <3>1
      <4> QED BY <2>1, <4>1 DEF Reading, Stamps
    <3> QED BY <2>1, <3>1, <3>2 DEF Reading
  <2> QED BY <2>1 DEF Reading, Taken
<1> QED BY <1>1, <1>2

\* the file that loses its name
LEMMA UnlinkedFile ==
  ASSUME Bounds, Files
  PROVE  /\ Unlinked \in Seq(File) /\ Len(Unlinked) = Len(file)
         /\ \A f \in DOMAIN file : /\ Unlinked[f].mtime = file[f].mtime
                                   /\ Unlinked[f].halves = file[f].halves
<1>1. CASE path = Nothing
  BY <1>1 DEF Unlinked, Files
<1>2. CASE path # Nothing
  <2>1. path \in DOMAIN file /\ file[path] \in File
    BY <1>2 DEF Files
  <2> DEFINE g == [file[path] EXCEPT !.ctime = file[path].ctime + 1]
  <2>2. g \in File /\ g.mtime = file[path].mtime /\ g.halves = file[path].halves
    BY <2>1 DEF File
  <2>3. Unlinked = [file EXCEPT ![path] = g]
    BY <1>2 DEF Unlinked
  <2> HIDE DEF g
  <2> QED BY <2>1, <2>2, <2>3 DEF Files
<1> QED BY <1>1, <1>2

LEMMA Replaces == ASSUME Bounds, ReadsInv, Replace PROVE Later
<1>1. PICK v \in Version :
        file' = Append(Unlinked, [halves |-> <<v, v>>, mtime |-> 0, ctime |-> 0])
  BY DEF Replace
<1> DEFINE g == [halves |-> <<v, v>>, mtime |-> 0, ctime |-> 0]
<1>2. g \in File
  BY Pairs DEF File
<1>3. Files
  BY DEF ReadsInv
<1> HIDE DEF g
<1>4. /\ file' \in Seq(File) /\ Len(file') = Len(file) + 1 /\ Len(file) \in Nat
      /\ \A f \in 1 .. Len(file) : file'[f] = Unlinked[f]
  BY <1>1, <1>2, <1>3, UnlinkedFile, AppendProperties DEF g, Files
<1>5. DOMAIN file = 1 .. Len(file) /\ DOMAIN file' = 1 .. (Len(file) + 1)
  BY <1>3, <1>4 DEF Files
<1>6. \A f \in DOMAIN file : file'[f].mtime = file[f].mtime /\ file'[f].halves = file[f].halves
                             /\ file[f].mtime \in Nat
  BY <1>3, <1>4, <1>5, UnlinkedFile, EachFile
<1>7. path' \in DOMAIN file' /\ UNCHANGED <<edited, silent, removed, kind, rd>> /\ past' = past
  BY <1>4, <1>5 DEF Replace, Changed
<1> QED BY <1>3, <1>4, <1>5, <1>6, <1>7 DEF Later, Files

LEMMA Removes == ASSUME Bounds, ReadsInv, Unlink PROVE Later
<1>1. Files
  BY DEF ReadsInv
<1>2. /\ file' = Unlinked /\ path' = Nothing /\ removed' = TRUE /\ past' = past
      /\ UNCHANGED <<edited, silent, kind, rd>>
  BY DEF Unlink, Changed
<1>3. \A f \in DOMAIN file : file[f].mtime \in Nat
  BY <1>1, EachFile
<1>4. file' \in Seq(File) /\ DOMAIN file' = DOMAIN file
  BY <1>1, <1>2, UnlinkedFile DEF Files
<1> QED BY <1>1, <1>2, <1>3, <1>4, UnlinkedFile DEF Later, Files

LEMMA Edits == ASSUME Bounds, ReadsInv, Edit PROVE Later
<1>1. Files /\ path \in DOMAIN file /\ file[path] \in File
  BY DEF ReadsInv, Files, Edit
<1>2. PICK h \in {1, 2}, v \in Version, moves \in BOOLEAN :
        LET new == [file[path].halves EXCEPT ![h] = v]
            by == IF moves THEN 1 ELSE 0
        IN  /\ new # file[path].halves
            /\ file' = [file EXCEPT ![path] = [halves |-> new, mtime |-> @.mtime + by,
                                               ctime |-> @.ctime + by]]
            /\ silent' = (silent \/ ~moves)
            /\ Changed(path, new)
  BY DEF Edit
<1> DEFINE new == [file[path].halves EXCEPT ![h] = v]
           by == IF moves THEN 1 ELSE 0
           g == [halves |-> new, mtime |-> file[path].mtime + by, ctime |-> file[path].ctime + by]
<1>3. new \in Halves
  BY <1>1 DEF File, Halves
<1>4. by \in Nat /\ (by = 0 <=> ~moves)
  OBVIOUS
<1>5. file' = [file EXCEPT ![path] = g] /\ silent' = (silent \/ ~moves) /\ Changed(path, new)
  BY <1>2
<1> HIDE DEF new, by
<1>6. /\ g \in File /\ g.halves = new /\ g.mtime \in Nat /\ g.mtime >= file[path].mtime
      /\ g.mtime = file[path].mtime => ~moves
  BY <1>1, <1>3, <1>4 DEF File
<1> HIDE DEF g
<1>7. file' \in Seq(File) /\ DOMAIN file' = DOMAIN file
  BY <1>1, <1>5, <1>6 DEF Files
<1>8. \A f \in DOMAIN file : file'[f] = IF f = path THEN g ELSE file[f]
  BY <1>5, <1>1 DEF Files
<1>9. past' = (IF path # Nothing /\ rd.open = path THEN past \cup {new} ELSE past) /\ path # Nothing
  BY <1>5, <1>1 DEF Changed, Bounds, Files
<1>10. \A f \in DOMAIN file : file[f].mtime \in Nat
  BY <1>1, EachFile
<1>11. silent' \in BOOLEAN /\ edited' = TRUE /\ UNCHANGED <<path, removed, kind, rd>>
  BY <1>1, <1>5 DEF Edit, Files, Changed
<1>12. ASSUME NEW f \in DOMAIN file
       PROVE  /\ file'[f].mtime \in Nat /\ file'[f].mtime >= file[f].mtime
              /\ ~silent' /\ file'[f].mtime = file[f].mtime => file'[f].halves = file[f].halves
              /\ f = rd.open => file'[f].halves \in past' \/ file'[f].halves = file[f].halves
  <2>1. CASE f # path
    BY <1>8, <1>10, <2>1
  <2>2. CASE f = path
    <3>1. file'[f] = g
      BY <1>8, <2>2
    <3>2. ~silent' => g.mtime # file[f].mtime
      BY <1>5, <1>6, <2>2
    <3>3. f = rd.open => g.halves \in past'
      BY <1>6, <1>9, <2>2
    <3> QED BY <1>6, <2>2, <3>1, <3>2, <3>3
  <2> QED BY <2>1, <2>2
<1>13. silent => silent'
  BY <1>5
<1>14. past \subseteq past'
  BY <1>9
<1> HIDE DEF new, by
<1> QED BY <1>1, <1>7, <1>10, <1>11, <1>12, <1>13, <1>14 DEF Later, Files

-----------------------------------------------------------------------------
(* The reader. *)

LEMMA Ends ==
  ASSUME Bounds, ReadsInv, NEW r \in {"missing", "changed", "ok"}, ReaderAt(rd.at), ReaderEnds(r),
         r = "ok" => silent \/ rd.got \in past
  PROVE  ReadsInv'
<1> DEFINE s == [rd EXCEPT !.at = "done", !.result = r]
<1>1. s \in Reader /\ s.at = "done" /\ s.result = r /\ s.got = rd.got
  BY DEF ReadsInv, Opened, Reader, Places
<1>2. rd' = s /\ past' = past /\ UNCHANGED <<path, file, kind, edited, silent, removed>>
  BY DEF ReaderEnds, ReaderIs, ReaderAt
<1> HIDE DEF s
<1> QED BY <1>1, <1>2 DEF ReadsInv, Files, Opened, Reading, Bound, HasOpen, Taken

\* what has been bound stays bound
LEMMA Goes ==
  ASSUME Bounds, ReadsInv, Bound, NEW to \in {"open", "displaced", "excuse", "keyed"}, ReaderAt(rd.at), ReaderTo(to),
         to = "excuse" => HasOpen /\ rd.got = <<>>
  PROVE  ReadsInv'
<1> DEFINE s == [rd EXCEPT !.at = to]
<1>1. /\ s \in Reader /\ s.at = to /\ s.got = rd.got /\ s.bound = rd.bound /\ s.open = rd.open
      /\ s.result = rd.result
  BY DEF ReadsInv, Opened, Reader, Places
<1>2. rd' = s /\ past' = past /\ UNCHANGED <<path, file, kind, edited, silent, removed>>
  BY DEF ReaderTo, ReaderIs, ReaderAt
<1> HIDE DEF s
<1>3. Files'
  BY <1>2 DEF ReadsInv, Files
<1>4. Opened'
  BY <1>1, <1>2 DEF ReadsInv, Opened, Bound, HasOpen
<1>5. Reading'
  BY <1>1, <1>2 DEF ReadsInv, Reading, Taken
<1> QED BY <1>3, <1>4, <1>5 DEF ReadsInv

LEMMA Opens == ASSUME Bounds, ReadsInv, Probe \/ Open PROVE ReadsInv'
<1>f. Files /\ rd \in Reader
  BY DEF ReadsInv, Opened
<1>i. ASSUME path # Nothing PROVE path \in DOMAIN file /\ path \in Nat /\ Identity(path) \in Stamps
  BY <1>f, <1>i, EachFile DEF Files, Identity, Stamps
<1>1. CASE ReaderAt(rd.at) /\ ReaderEnds("missing")
  BY <1>1, Ends
<1>2. CASE Probe /\ path # Nothing
  <2> DEFINE s == [rd EXCEPT !.at = "open", !.bound = Identity(path)]
  <2>1. /\ s \in Reader /\ s.at = "open" /\ s.bound = Identity(path)
    BY <1>f, <1>i, <1>2 DEF Reader, Places
  <2>2. rd' = s /\ past' = past /\ UNCHANGED <<path, file, kind, edited, silent, removed>>
    BY <1>2 DEF Probe, ReaderIs, ReaderAt
  <2>3. s.bound[1] = path
    BY <2>1 DEF Identity
  <2> HIDE DEF s
  <2> QED BY <1>f, <1>i, <1>2, <2>1, <2>2, <2>3 DEF ReadsInv, Files, Opened, Reading, Bound, HasOpen, Taken
<1>3. CASE Open /\ path # Nothing /\ Identity(path) # rd.bound
  <2>1. Bound /\ ReaderAt(rd.at) /\ ReaderTo("displaced")
    BY <1>3 DEF Open, ReaderAt, Bound
  <2> QED BY <2>1, Goes
<1>4. CASE Open /\ path # Nothing /\ Identity(path) = rd.bound
  <2> DEFINE s == [rd EXCEPT !.at = "verify", !.open = path, !.got = <<>>]
  <2>1. s \in Reader /\ s.at = "verify" /\ s.open = path /\ s.bound = rd.bound /\ s.got = <<>>
    <3>1. <<>> \in Seq(Version) /\ path \in Nat \cup {Nothing}
      BY <1>i, <1>4
    <3> QED BY <1>f, <3>1 DEF Reader, Places
  <2>2. /\ rd' = s /\ past' = {file[path].halves}
        /\ UNCHANGED <<path, file, kind, edited, silent, removed>>
    BY <1>4 DEF Open, ReaderAt
  <2>3. rd.bound[1] = path /\ rd.bound \in Stamps
    BY <1>4, <1>i DEF Identity
  <2> HIDE DEF s
  <2> QED BY <1>f, <1>i, <1>4, <2>1, <2>2, <2>3 DEF ReadsInv, Files, Opened, Reading, Bound, HasOpen, Taken
<1>5. Probe => ReaderAt(rd.at)
  BY DEF Probe, ReaderAt
<1>6. Open => ReaderAt(rd.at)
  BY DEF Open, ReaderAt
<1> QED BY <1>1, <1>2, <1>3, <1>4, <1>5, <1>6 DEF Probe, Open

LEMMA Verifies == ASSUME Bounds, ReadsInv, Displaced \/ Verify \/ Excuse PROVE ReadsInv'
<1>f. Files /\ rd \in Reader
  BY DEF ReadsInv, Opened
<1>s. ReaderAt(rd.at)
  BY DEF Displaced, Verify, Excuse, ReaderAt
<1>1. CASE ReaderEnds("missing") \/ ReaderEnds("changed")
  BY <1>1, <1>s, Ends
<1>2. CASE Displaced /\ ReaderIs([rd EXCEPT !.at = "start", !.attempts = @ + 1])
  <2> DEFINE s == [rd EXCEPT !.at = "start", !.attempts = rd.attempts + 1]
  <2>1. s \in Reader /\ s.at = "start"
    <3>1. rd.attempts + 1 \in Nat
      BY <1>f DEF Reader
    <3> QED BY <1>f, <3>1 DEF Reader, Places
  <2>2. rd' = s /\ past' = past /\ UNCHANGED <<path, file, kind, edited, silent, removed>>
    BY <1>2, <1>s DEF ReaderIs, ReaderAt
  <2> HIDE DEF s
  <2> QED BY <1>f, <2>1, <2>2 DEF ReadsInv, Files, Opened, Reading, Bound, HasOpen, Taken
<1>3. ASSUME HasOpen, NEW w \in Stamps, w[2] = file[rd.open].mtime,
             ReaderIs([rd EXCEPT !.at = "read", !.was = w]), rd.got = <<>>
      PROVE  ReadsInv'
  <2> DEFINE s == [rd EXCEPT !.at = "read", !.was = w]
  <2>1. /\ s \in Reader /\ s.at = "read" /\ s.was = w /\ s.got = <<>> /\ s.open = rd.open
        /\ s.bound = rd.bound
    BY <1>f, <1>3 DEF Reader, Places
  <2>2. rd' = s /\ past' = past /\ UNCHANGED <<path, file, kind, edited, silent, removed>>
    BY <1>3, <1>s DEF ReaderIs, ReaderAt
  <2> HIDE DEF s
  <2>3. Opened'
    BY <1>3, <2>1, <2>2 DEF ReadsInv, Opened, Bound, HasOpen
  <2>4. file[rd.open].mtime \in Nat
    BY <1>3, <1>f, EachFile DEF ReadsInv, Opened, Bound
  <2>5. Reading'
    <3>1. rd'.at = "read" /\ rd'.was = w /\ Len(rd'.got) = 0 /\ file' = file /\ rd'.open = rd.open
      BY <2>1, <2>2
    <3>2. w[2] <= file[rd.open].mtime
      BY <1>3, <2>4
    <3> QED BY <3>1, <3>2 DEF Reading, Taken
  <2> QED BY <1>f, <2>2, <2>3, <2>5 DEF ReadsInv, Files
<1>i. ASSUME HasOpen PROVE Identity(rd.open) \in Stamps /\ rd.open \in DOMAIN file
  <2>1. rd.open \in DOMAIN file
    BY <1>i DEF ReadsInv, Opened, Bound
  <2>2. rd.open \in Nat
    BY <1>f, <2>1 DEF Files
  <2> QED BY <2>1, <2>2, <1>f, EachFile DEF Identity, Stamps
<1>4. CASE Verify
  <2>1. HasOpen /\ Bound /\ rd.got = <<>>
    BY <1>4 DEF Verify, ReaderAt, HasOpen, Bound, ReadsInv, Reading
  <2>2. CASE Identity(rd.open) = rd.bound /\ ReaderIs([rd EXCEPT !.at = "read", !.was = rd.bound])
    <3>1. rd.bound \in Stamps /\ rd.bound[2] = file[rd.open].mtime
      BY <1>i, <2>1, <2>2 DEF Identity
    <3> QED BY <1>3, <2>1, <2>2, <3>1
  <2>3. CASE ReaderTo("excuse")
    BY <1>s, <2>1, <2>3, Goes
  <2> QED BY <1>4, <2>2, <2>3 DEF Verify
<1>5. CASE Excuse /\ ReaderIs([rd EXCEPT !.at = "read", !.was = Identity(rd.open)])
  <2>1. HasOpen /\ rd.got = <<>>
    BY <1>5 DEF Excuse, ReaderAt, HasOpen, ReadsInv, Reading
  <2>2. Identity(rd.open)[2] = file[rd.open].mtime
    BY DEF Identity
  <2> QED BY <1>3, <1>5, <1>i, <2>1, <2>2
<1>6. ASSUME Excuse
      PROVE  \/ ReaderEnds("missing") \/ ReaderEnds("changed")
             \/ ReaderIs([rd EXCEPT !.at = "read", !.was = Identity(rd.open)])
  BY <1>6 DEF Excuse
<1>7. ASSUME Displaced
      PROVE  \/ ReaderEnds("missing") \/ ReaderEnds("changed")
             \/ ReaderIs([rd EXCEPT !.at = "start", !.attempts = @ + 1])
  BY <1>7 DEF Displaced
<1> QED BY <1>1, <1>2, <1>4, <1>5, <1>6, <1>7

LEMMA Reads == ASSUME Bounds, ReadsInv, Read PROVE ReadsInv'
<1>f. Files /\ rd \in Reader
  BY DEF ReadsInv, Opened
<1>1. /\ rd.at = "read" /\ HasOpen /\ rd.open \in DOMAIN file /\ rd.got \in Seq(Version)
      /\ Len(rd.got) \in {0, 1} /\ UNCHANGED <<path, file, kind, edited, silent, removed>>
      /\ rd.was \in Stamps /\ rd.was[2] <= file[rd.open].mtime
  <2>1. rd.at = "read" /\ HasOpen /\ Bound /\ UNCHANGED <<path, file, kind, edited, silent, removed>>
    BY DEF Read, ReaderAt, HasOpen, Bound
  <2>2. rd.got \in Seq(Version) /\ Len(rd.got) \in Nat
    BY <1>f DEF Reader
  <2>3. /\ rd.was \in Stamps /\ rd.was[2] <= file[rd.open].mtime
        /\ Len(rd.got) # 2 /\ Len(rd.got) <= 2
    BY <2>1 DEF ReadsInv, Reading
  <2>4. rd.open \in DOMAIN file
    BY <2>1 DEF ReadsInv, Opened
  <2>5. ASSUME NEW l \in Nat, l # 2, l <= 2 PROVE l \in {0, 1}
    BY <2>5
  <2>6. Len(rd.got) \in {0, 1}
    BY <2>2, <2>3, <2>5
  <2> QED BY <2>1, <2>2, <2>3, <2>4, <2>6
<1> DEFINE n == Len(rd.got) + 1
           v == file[rd.open].halves[n]
           g == Append(rd.got, v)
<1>2. n \in {1, 2} /\ v \in Version
  <2>1. n \in 1 .. 2
    <3>1. Len(rd.got) = 0 \/ Len(rd.got) = 1
      BY <1>1
    <3>2. \A l : l = 0 \/ l = 1 => l + 1 \in 1 .. 2
      OBVIOUS
    <3> QED BY <3>1, <3>2, Zenon
  <2>2. file[rd.open].halves \in [1 .. 2 -> Version]
    BY <1>1, <1>f, EachFile DEF Halves
  <2> HIDE DEF n
  <2> QED BY <2>1, <2>2
<1>3. g \in Seq(Version) /\ Len(g) = n /\ g[n] = v /\ \A i \in 1 .. Len(rd.got) : g[i] = rd.got[i]
  BY <1>1, <1>2
<1> DEFINE s == [rd EXCEPT !.got = g, !.at = IF n = 2 THEN "check" ELSE "read"]
<1>4. rd' = s /\ past' = past
  BY DEF Read, ReaderIs
<1>5. /\ s \in Reader /\ s.got = g /\ s.open = rd.open /\ s.bound = rd.bound /\ s.was = rd.was
      /\ s.at \in {"read", "check"} /\ (s.at = "check" <=> n = 2)
  <2> HIDE DEF g, n
  <2> QED BY <1>2, <1>3, <1>f DEF Reader, Places
<1> HIDE DEF s
<1>6. Opened'
  BY <1>1, <1>4, <1>5 DEF ReadsInv, Opened, Bound, HasOpen
<1>7. ASSUME ~silent, rd.was[2] = file[rd.open].mtime, NEW i \in 1 .. n
      PROVE  g[i] = file[rd.open].halves[i]
  <2>1. \A j \in 1 .. Len(rd.got) : rd.got[j] = file[rd.open].halves[j]
    BY <1>1, <1>7 DEF ReadsInv, Reading
  <2>2. i \in 1 .. Len(rd.got) \/ i = n
    BY <1>1
  <2> QED BY <1>3, <2>1, <2>2
<1> HIDE DEF g, n
<1>8. Reading'
  BY <1>1, <1>2, <1>3, <1>4, <1>5, <1>7 DEF Reading, Taken
<1> QED BY <1>1, <1>6, <1>8, <1>f DEF ReadsInv, Files

\* an unchanged file was read as a whole
LEMMA Read2 ==
  ASSUME Bounds, ReadsInv, rd.at = "check", rd.was[2] = file[rd.open].mtime
  PROVE  silent \/ rd.got \in past
<1>1. rd.open \in DOMAIN file /\ file[rd.open].halves \in past /\ rd.got \in Seq(Version)
  BY DEF ReadsInv, Opened, Bound, HasOpen, Reader
<1>2. file[rd.open].halves \in Halves
  BY <1>1, EachFile DEF ReadsInv
<1>3. Len(rd.got) = 2
  BY DEF ReadsInv, Reading
<1>4. ~silent => \A i \in 1 .. Len(rd.got) : rd.got[i] = file[rd.open].halves[i]
  BY DEF ReadsInv, Reading
<1>5. ~silent => rd.got = file[rd.open].halves
  BY <1>1, <1>2, <1>3, <1>4, Whole
<1> QED BY <1>1, <1>5

LEMMA Checks == ASSUME Bounds, ReadsInv, Check \/ MakeKey \/ ReadAgain PROVE ReadsInv'
<1>f. Files /\ rd \in Reader
  BY DEF ReadsInv, Opened
<1>s. ReaderAt(rd.at) /\ rd.at = "check"
  BY DEF Check, MakeKey, ReadAgain, ReaderAt
<1>1. CASE Check
  BY <1>1, <1>s, Ends DEF Check
<1>2. ASSUME NEW k \in Seq(Version) \cup {Nothing}, NEW to \in {"expand", "keyed"}, Unchanged,
             ReaderIs([rd EXCEPT !.key = k, !.at = to])
      PROVE  ReadsInv'
  <2>1. rd.was[2] = file[rd.open].mtime
    BY <1>2 DEF Unchanged, Identity
  <2>2. silent \/ rd.got \in past
    BY <1>s, <2>1, Read2
  <2> DEFINE s == [rd EXCEPT !.key = k, !.at = to]
  <2>3. /\ s \in Reader /\ s.at = to /\ s.got = rd.got /\ s.bound = rd.bound
        /\ s.result = rd.result
    BY <1>f, <1>2 DEF Reader, Places
  <2>4. rd' = s /\ past' = past /\ UNCHANGED <<path, file, kind, edited, silent, removed>>
    BY <1>2, <1>s DEF ReaderIs, ReaderAt
  <2> HIDE DEF s
  <2>5. rd.bound \in Stamps /\ rd.bound[1] \in DOMAIN file
    BY <1>s DEF ReadsInv, Opened, Bound, HasOpen
  <2> QED BY <1>f, <1>2, <2>2, <2>3, <2>4, <2>5 DEF ReadsInv, Files, Opened, Reading, Bound, HasOpen, Taken
<1>3. CASE MakeKey
  <2>1. rd.got \in Seq(Version)
    BY <1>f DEF Reader
  <2> QED BY <1>2, <1>3, <2>1 DEF MakeKey
<1>4. CASE ReadAgain
  <2>1. rd.key \in Seq(Version) \cup {Nothing}
    BY <1>f DEF Reader
  <2>2. [rd EXCEPT !.at = "expand"] = [rd EXCEPT !.key = rd.key, !.at = "expand"]
    BY <1>f DEF Reader
  <2> QED BY <1>2, <1>4, <2>1, <2>2 DEF ReadAgain, ReaderTo
<1> QED BY <1>1, <1>3, <1>4

LEMMA Finals == ASSUME Bounds, ReadsInv, Final PROVE ReadsInv'
<1>f. Files /\ rd \in Reader /\ rd.at = "check" /\ ReaderAt(rd.at)
  BY DEF ReadsInv, Opened, Final, ReaderAt
<1>1. rd.open \in DOMAIN file /\ rd.open \in Nat /\ rd.was \in Stamps
  BY <1>f DEF ReadsInv, Files, Opened, Bound, HasOpen, Reading
<1>2. Identity(rd.open) \in Stamps /\ Identity(rd.open)[2] = file[rd.open].mtime
  BY <1>1, <1>f, EachFile DEF Identity, Stamps
<1> DEFINE w == <<rd.was, Identity(rd.open)>>
           s == [rd EXCEPT !.at = "named", !.was = w]
<1>3. w \in Stamps \X Stamps /\ w[1] = rd.was /\ w[2] = Identity(rd.open)
  BY <1>1, <1>2
<1>4. rd' = s /\ past' = past /\ UNCHANGED <<path, file, kind, edited, silent, removed>>
  BY <1>f DEF Final, ReaderIs, ReaderAt
<1> HIDE DEF w
<1>5. /\ s \in Reader /\ s.at = "named" /\ s.was = w /\ s.got = rd.got /\ s.open = rd.open
      /\ s.bound = rd.bound
  BY <1>f, <1>3 DEF Reader, Places
<1> HIDE DEF s
<1>6. Opened'
  BY <1>f, <1>4, <1>5 DEF ReadsInv, Opened, Bound, HasOpen
<1>7. ~silent /\ rd.was[2] = file[rd.open].mtime => rd.got \in past
  BY <1>f, Read2
<1>8. Reading'
  BY <1>2, <1>3, <1>4, <1>5, <1>7 DEF Reading, Taken
<1> QED BY <1>f, <1>4, <1>6, <1>8 DEF ReadsInv, Files

LEMMA NextKeeps == ASSUME Bounds, ReadsInv, [ReadsNext]_readsVars PROVE ReadsInv'
<1>1. CASE UNCHANGED readsVars
  BY <1>1 DEF readsVars, ReadsInv, Files, Opened, Reading, Bound, HasOpen, Taken
<1>2. CASE Named
  <2>1. ReaderAt(rd.at) /\ rd.at = "named"
    BY <1>2 DEF Named, ReaderAt
  <2> DEFINE initial == rd.was[1]
             final == rd.was[2]
             r == IF path = Nothing THEN "missing"
                  ELSE IF \/ final # initial /\ ~(path # rd.open /\ final[2] = initial[2])
                          \/ path = rd.open /\ Identity(path) # final
                  THEN "changed" ELSE "ok"
  <2>2. ReaderEnds(r)
    BY <1>2 DEF Named
  <2>3. r = "ok" => final[2] = initial[2]
    OBVIOUS
  <2>4. r = "ok" => silent \/ rd.got \in past
    BY <2>1, <2>3 DEF ReadsInv, Reading
  <2>5. r \in {"missing", "changed", "ok"}
    OBVIOUS
  <2> HIDE DEF r
  <2> QED BY <2>1, <2>2, <2>4, <2>5, Ends
<1>3. CASE Send
  BY <1>3, Goes DEF Send, ReaderTo, ReaderAt, Bound
<1>4. CASE Expand
  <2>1. ReaderAt(rd.at) /\ rd.at = "expand" /\ (ReaderEnds("ok") \/ ReaderEnds("changed"))
    BY <1>4 DEF Expand, ReaderAt
  <2>2. silent \/ rd.got \in past
    BY <2>1 DEF ReadsInv, Reading
  <2> QED BY <2>1, <2>2, Ends
<1> QED BY <1>1, <1>2, <1>3, <1>4, Replaces, Removes, Edits, LaterKeeps, Opens, Verifies, Reads,
           Checks, Finals DEF ReadsNext

THEOREM ReadsSound == ASSUME Bounds PROVE ReadsSpec => []ReadsInv
<1>1. ReadsInit => ReadsInv
  BY FirstReads
<1>2. ReadsInv /\ [ReadsNext]_readsVars => ReadsInv'
  BY NextKeeps
<1> QED BY <1>1, <1>2, PTL DEF ReadsSpec

\* What a reader takes is what the file held at one instant while it was open
\* (_safe_io.py:569), as long as every write moves the stamps.
THEOREM VersionsAreWhole == ASSUME Bounds PROVE ReadsSpec => []WholeVersion
<1>1. ReadsInv => WholeVersion
  BY DEF ReadsInv, Reading, WholeVersion
<1> QED BY <1>1, ReadsSound, PTL

-----------------------------------------------------------------------------
(* Entries that are only replaced. *)

Linked(stamps) == stamps[2] = 0 /\ (path = rd.open => stamps[3] = 0)

\* as long as nobody writes in place: no mtime has moved, and the file that
\* has the name has not lost it before
Steady ==
  /\ \A f \in DOMAIN file : file[f].mtime = 0
  /\ path # Nothing => file[path].ctime = 0
  /\ path = Nothing => removed
  /\ rd.attempts < MaxReads
  /\ Bound => rd.bound[2] = 0 /\ rd.bound[3] = 0
  /\ rd.at \in {"displaced", "excuse"} => path # rd.bound[1]
  /\ rd.at \in {"read", "check"} => rd.was[1] = rd.open /\ Linked(rd.was)
  /\ rd.at = "named" => \A i \in {1, 2} : rd.was[i][1] = rd.open /\ Linked(rd.was[i])
  /\ rd.at \in {"keyed", "expand"} => kind # "cache"
  /\ ReplacedReadable

Replaced == ~edited => Steady

\* an entry that is replaced or removed
LEMMA WritersSteady ==
  ASSUME Bounds, ReadsInv, Steady, ~edited, Replace \/ Unlink
  PROVE  Steady'
<1>1. /\ Files /\ path' \notin DOMAIN file /\ (path' = Nothing => removed')
      /\ (removed => removed') /\ UNCHANGED <<kind, rd, edited>>
      /\ \A f \in DOMAIN file' : file'[f].mtime = 0
      /\ path' # Nothing => file'[path'].ctime = 0
  <2>f. Files
    BY DEF ReadsInv
  <2>l. DOMAIN file = 1 .. Len(file) /\ Len(file) \in Nat
    BY <2>f DEF Files
  <2>1. CASE Unlink
    <3>1. path' = Nothing /\ file' = Unlinked /\ removed' = TRUE /\ UNCHANGED <<kind, rd, edited>>
      BY <2>1 DEF Unlink, Changed
    <3>2. DOMAIN file' = DOMAIN file
      BY <2>f, <3>1, UnlinkedFile DEF Files
    <3> QED BY <2>f, <2>l, <3>1, <3>2, UnlinkedFile DEF Steady, Bounds
  <2>2. CASE Replace
    <3>1. PICK v \in Version :
            file' = Append(Unlinked, [halves |-> <<v, v>>, mtime |-> 0, ctime |-> 0])
      BY <2>2 DEF Replace
    <3> DEFINE g == [halves |-> <<v, v>>, mtime |-> 0, ctime |-> 0]
    <3>2. g \in File /\ g.mtime = 0 /\ g.ctime = 0
      BY Pairs DEF File
    <3>3. file' = Append(Unlinked, g) /\ path' = Len(file) + 1 /\ UNCHANGED <<kind, rd, edited, removed>>
      BY <2>2, <3>1 DEF Replace, Changed
    <3> HIDE DEF g
    <3>4. /\ DOMAIN file' = 1 .. (Len(file) + 1) /\ file'[Len(file) + 1] = g
          /\ \A f \in DOMAIN file : file'[f] = Unlinked[f]
      BY <2>f, <2>l, <3>2, <3>3, UnlinkedFile, AppendProperties
    <3>5. \A f \in DOMAIN file' : f \in DOMAIN file \/ f = Len(file) + 1
      BY <2>l, <3>4
    <3>6. \A f \in DOMAIN file : file'[f].mtime = 0
      BY <2>f, <3>4, UnlinkedFile DEF Steady
    <3>7. path' \notin DOMAIN file /\ path' # Nothing
      BY <2>l, <3>3 DEF Bounds
    <3> QED BY <2>f, <3>2, <3>3, <3>4, <3>5, <3>6, <3>7
  <2> QED BY <2>1, <2>2
<1>2. Bound => path' # rd.bound[1]
  BY <1>1 DEF ReadsInv, Opened
<1>3. HasOpen => path' # rd.open
  BY <1>2 DEF ReadsInv, Opened, Bound
<1> QED BY <1>1, <1>2, <1>3 DEF Steady, ReplacedReadable, Linked, Bound, HasOpen

LEMMA NextSteady ==
  ASSUME Bounds, ReadsInv, Replaced, [ReadsNext]_readsVars
  PROVE  Replaced'
<1> SUFFICES ASSUME ~edited' PROVE Steady'
  BY DEF Replaced
<1>0. ~Edit /\ ~edited /\ Steady
  <2>1. ~Edit
    BY DEF Edit
  <2>2. UNCHANGED edited
    BY <2>1 DEF ReadsNext, readsVars, Replace, Unlink, Probe, Open, Displaced, Verify, Excuse, Read, Check,
                MakeKey, ReadAgain, Final, Named, Send, Expand, ReaderAt
  <2> QED BY <2>1, <2>2 DEF Replaced
<1>f. Files /\ rd \in Reader
  BY DEF ReadsInv, Opened
<1>i. \A f \in DOMAIN file : /\ Identity(f)[1] = f /\ Identity(f)[2] = 0
                             /\ f = path => Identity(f) = <<f, 0, 0>>
  <2>1. \A f \in DOMAIN file : path = f => path # Nothing
    BY <1>f DEF Files, Bounds
  <2> QED BY <1>0, <2>1 DEF Identity, Steady
<1>b. Bound => rd.bound = <<rd.bound[1], 0, 0>> /\ rd.bound[1] \in DOMAIN file
  BY <1>0 DEF ReadsInv, Opened, Steady, Stamps
<1>p. path # Nothing => path \in DOMAIN file
  BY <1>f DEF Files
<1>1. CASE UNCHANGED readsVars
  BY <1>0, <1>1 DEF readsVars, Steady, ReplacedReadable, Linked, Bound, HasOpen
<1>2. CASE Replace \/ Unlink
  BY <1>0, <1>2, WritersSteady
\* it ends
<1>e. ASSUME NEW r \in {"missing", "changed", "ok"}, ReaderAt(rd.at), ReaderEnds(r),
             kind = "cache" /\ r # "ok" => removed \/ rd.attempts + 1 = MaxReads
      PROVE  Steady'
  <2> DEFINE s == [rd EXCEPT !.at = "done", !.result = r]
  <2>1. s.at = "done" /\ s.result = r /\ s.attempts = rd.attempts
    BY <1>f DEF Reader
  <2>2. rd' = s /\ UNCHANGED <<path, file, kind, edited, silent, removed>>
    BY <1>e DEF ReaderEnds, ReaderIs, ReaderAt
  <2> HIDE DEF s
  <2> QED BY <1>0, <1>e, <2>1, <2>2 DEF Steady, ReplacedReadable, Linked, Bound, HasOpen
<1>3. CASE Probe
  <2>1. CASE path = Nothing
    BY <1>0, <1>3, <1>e, <2>1 DEF Probe, ReaderAt, Steady
  <2>2. CASE path # Nothing
    <3> DEFINE s == [rd EXCEPT !.at = "open", !.bound = Identity(path)]
    <3>1. s.at = "open" /\ s.bound = Identity(path) /\ s.attempts = rd.attempts
      BY <1>f DEF Reader
    <3>2. rd' = s /\ UNCHANGED <<path, file, kind, edited, silent, removed>>
      BY <1>3, <2>2 DEF Probe, ReaderIs, ReaderAt
    <3> HIDE DEF s
    <3>3. s.bound[2] = 0 /\ s.bound[3] = 0
      BY <1>i, <1>p, <2>2, <3>1
    <3> QED BY <1>0, <3>1, <3>2, <3>3 DEF Steady, ReplacedReadable, Linked, Bound, HasOpen
  <2> QED BY <2>1, <2>2
<1>4. CASE Open
  <2>0. ReaderAt(rd.at) /\ Bound /\ rd.at = "open"
    BY <1>4 DEF Open, ReaderAt, Bound
  <2>1. CASE path = Nothing
    BY <1>0, <1>4, <1>e, <2>0, <2>1 DEF Open, Steady
  <2>2. CASE path # Nothing /\ Identity(path) # rd.bound
    <3>1. path # rd.bound[1]
      BY <1>b, <1>i, <1>p, <2>0, <2>2
    <3> DEFINE s == [rd EXCEPT !.at = "displaced"]
    <3>2. s.at = "displaced" /\ s.bound = rd.bound /\ s.attempts = rd.attempts
      BY <1>f DEF Reader
    <3>3. rd' = s /\ UNCHANGED <<path, file, kind, edited, silent, removed>>
      BY <1>4, <2>2 DEF Open, ReaderTo, ReaderIs, ReaderAt
    <3> HIDE DEF s
    <3> QED BY <1>0, <2>0, <3>1, <3>2, <3>3 DEF Steady, ReplacedReadable, Linked, Bound, HasOpen
  <2>3. CASE path # Nothing /\ Identity(path) = rd.bound
    <3> DEFINE s == [rd EXCEPT !.at = "verify", !.open = path, !.got = <<>>]
    <3>2. s.at = "verify" /\ s.bound = rd.bound /\ s.attempts = rd.attempts
      BY <1>f DEF Reader
    <3>3. rd' = s /\ UNCHANGED <<path, file, kind, edited, silent, removed>>
      BY <1>4, <2>3 DEF Open, ReaderAt
    <3> HIDE DEF s
    <3> QED BY <1>0, <2>0, <3>2, <3>3 DEF Steady, ReplacedReadable, Linked, Bound, HasOpen
  <2> QED BY <2>1, <2>2, <2>3
<1>5. CASE Displaced
  <2>0. ReaderAt(rd.at) /\ Bound /\ rd.at = "displaced" /\ path # rd.bound[1] /\ rd.attempts \in Nat
    BY <1>0, <1>5, <1>f DEF Displaced, ReaderAt, Bound, Steady, Reader
  <2>1. CASE Again
    <3> DEFINE s == [rd EXCEPT !.at = "start", !.attempts = rd.attempts + 1]
    <3>1. s.at = "start" /\ s.attempts = rd.attempts + 1
      BY <1>f DEF Reader
    <3>2. rd' = s /\ UNCHANGED <<path, file, kind, edited, silent, removed>>
      BY <1>5, <2>1 DEF Displaced, ReaderIs, ReaderAt
    <3> HIDE DEF s
    <3>3. s.attempts < MaxReads
      BY <2>1, <3>1 DEF Again
    <3> QED BY <1>0, <3>1, <3>2, <3>3 DEF Steady, ReplacedReadable, Linked, Bound, HasOpen
  <2>2. CASE ~Again
    <3>1. kind = "cache" => removed \/ rd.attempts + 1 = MaxReads
      BY <1>0, <2>0, <2>2 DEF Again, Steady, Bounds
    <3> QED BY <1>5, <1>e, <2>0, <2>2, <3>1 DEF Displaced
  <2> QED BY <2>1, <2>2
\* the stamps of the open file before it is read
<1>r. ASSUME ReaderAt(rd.at), HasOpen, NEW w, w = Identity(rd.open),
             ReaderIs([rd EXCEPT !.at = "read", !.was = w])
      PROVE  Steady'
  <2> DEFINE s == [rd EXCEPT !.at = "read", !.was = w]
  <2>1. s.at = "read" /\ s.was = w /\ s.attempts = rd.attempts /\ s.open = rd.open /\ s.bound = rd.bound
    BY <1>f DEF Reader
  <2>2. rd' = s /\ UNCHANGED <<path, file, kind, edited, silent, removed>>
    BY <1>r DEF ReaderIs, ReaderAt
  <2> HIDE DEF s
  <2>3. rd.open \in DOMAIN file
    BY <1>r DEF ReadsInv, Opened, Bound
  <2>4. w[1] = rd.open /\ w[2] = 0 /\ (path = rd.open => w[3] = 0)
    BY <1>i, <1>r, <2>3
  <2> QED BY <1>0, <1>r, <2>1, <2>2, <2>4 DEF Steady, ReplacedReadable, Linked, Bound, HasOpen
<1>6. CASE Verify
  <2>0. ReaderAt(rd.at) /\ HasOpen /\ Bound /\ rd.open = rd.bound[1]
    BY <1>6 DEF Verify, ReaderAt, HasOpen, Bound, ReadsInv, Opened
  <2>1. CASE Identity(rd.open) = rd.bound
    BY <1>6, <1>r, <2>0, <2>1 DEF Verify
  <2>2. CASE Identity(rd.open) # rd.bound
    <3>1. path # rd.bound[1]
      BY <1>b, <1>i, <2>0, <2>2
    <3> DEFINE s == [rd EXCEPT !.at = "excuse"]
    <3>2. s.at = "excuse" /\ s.bound = rd.bound /\ s.attempts = rd.attempts
      BY <1>f DEF Reader
    <3>3. rd' = s /\ UNCHANGED <<path, file, kind, edited, silent, removed>>
      BY <1>6, <2>2 DEF Verify, ReaderTo, ReaderIs, ReaderAt
    <3> HIDE DEF s
    <3> QED BY <1>0, <2>0, <3>1, <3>2, <3>3 DEF Steady, ReplacedReadable, Linked, Bound, HasOpen
  <2> QED BY <2>1, <2>2
<1>7. CASE Excuse
  <2>0. ReaderAt(rd.at) /\ HasOpen /\ Bound /\ rd.open = rd.bound[1] /\ path # rd.bound[1]
    BY <1>0, <1>7 DEF Excuse, ReaderAt, HasOpen, Bound, ReadsInv, Opened, Steady
  <2>1. OnlyUnlinked(rd.bound)
    BY <1>0, <1>b, <2>0 DEF OnlyUnlinked, Steady
  <2>2. CASE kind = "cache" /\ path = Nothing
    BY <1>0, <1>7, <1>e, <2>0, <2>2 DEF Excuse, Steady
  <2>3. CASE kind = "cache" /\ path # Nothing
    BY <1>7, <1>r, <2>0, <2>1, <2>3 DEF Excuse
  <2>4. CASE kind # "cache"
    BY <1>7, <1>e, <2>0, <2>4 DEF Excuse
  <2> QED BY <2>2, <2>3, <2>4
<1>8. CASE Read
  <2> DEFINE n == Len(rd.got) + 1
             s == [rd EXCEPT !.got = Append(rd.got, file[rd.open].halves[n]),
                             !.at = IF n = 2 THEN "check" ELSE "read"]
  <2>1. /\ s.at \in {"read", "check"} /\ s.attempts = rd.attempts /\ s.open = rd.open
        /\ s.bound = rd.bound /\ s.was = rd.was
    BY <1>f DEF Reader
  <2>2. rd' = s /\ UNCHANGED <<path, file, kind, edited, silent, removed>> /\ rd.at = "read"
    BY <1>8 DEF Read, ReaderIs, ReaderAt
  <2> HIDE DEF s
  <2> QED BY <1>0, <2>1, <2>2 DEF Steady, ReplacedReadable, Linked, Bound, HasOpen
<1>9. CASE Check
  BY <1>9, <1>e DEF Check, ReaderAt
<1>10. CASE MakeKey \/ ReadAgain
  <2>0. kind # "cache" /\ Bound /\ UNCHANGED <<path, file, kind, edited, silent, removed>>
    BY <1>10 DEF MakeKey, ReadAgain, ReaderAt, Bound, HasOpen
  <2>1. rd'.at \in {"keyed", "expand"} /\ rd'.attempts = rd.attempts /\ rd'.bound = rd.bound
    <3>1. CASE MakeKey
      BY <1>f, <3>1 DEF MakeKey, ReaderIs, Reader
    <3>2. CASE ReadAgain
      BY <1>f, <3>2 DEF ReadAgain, ReaderTo, ReaderIs, Reader
    <3> QED BY <1>10, <3>1, <3>2
  <2> QED BY <1>0, <2>0, <2>1 DEF Steady, ReplacedReadable, Linked, Bound, HasOpen
<1>11. CASE Final
  <2>0. rd.at = "check" /\ HasOpen /\ Bound /\ UNCHANGED <<path, file, kind, edited, silent, removed>>
    BY <1>11 DEF Final, ReaderAt, Bound, HasOpen
  <2> DEFINE w == <<rd.was, Identity(rd.open)>>
             s == [rd EXCEPT !.at = "named", !.was = w]
  <2>1. /\ s.at = "named" /\ s.attempts = rd.attempts /\ s.open = rd.open
        /\ s.bound = rd.bound /\ s.was[1] = rd.was /\ s.was[2] = Identity(rd.open)
    BY <1>f DEF Reader
  <2>2. rd' = s
    BY <1>11 DEF Final, ReaderIs
  <2> HIDE DEF s
  <2>3. rd.open \in DOMAIN file
    BY <2>0 DEF ReadsInv, Opened
  <2>4. \A i \in {1, 2} : s.was[i][1] = rd.open /\ Linked(s.was[i])
    BY <1>0, <1>i, <2>0, <2>1, <2>3 DEF Steady, Linked
  <2> QED BY <1>0, <2>0, <2>1, <2>2, <2>4 DEF Steady, ReplacedReadable, Linked, Bound, HasOpen
<1>12. CASE Named
  <2>0. ReaderAt(rd.at) /\ rd.at = "named" /\ HasOpen
    BY <1>12 DEF Named, ReaderAt, HasOpen
  <2>1. CASE path = Nothing
    BY <1>0, <1>12, <1>e, <2>0, <2>1 DEF Named, Steady
  <2>2. CASE path # Nothing
    <3>1. rd.was \in Stamps \X Stamps
      BY <2>0 DEF ReadsInv, Reading
    <3>2. \A i \in {1, 2} : /\ rd.was[i] = <<rd.open, 0, rd.was[i][3]>>
                            /\ path = rd.open => rd.was[i][3] = 0
      BY <1>0, <2>0, <3>1 DEF Steady, Linked, Stamps
    <3>3. path = rd.open => Identity(path) = rd.was[2] /\ rd.was[1] = rd.was[2]
      BY <1>i, <1>p, <2>2, <3>2
    <3>4. rd.was[1][2] = rd.was[2][2]
      BY <3>2
    <3> QED BY <1>12, <1>e, <2>0, <2>2, <3>3, <3>4 DEF Named
  <2> QED BY <2>1, <2>2
<1>13. CASE Send
  <2>0. rd.at = "keyed" /\ Bound /\ UNCHANGED <<path, file, kind, edited, silent, removed>>
    BY <1>13 DEF Send, ReaderAt, Bound
  <2>1. rd'.at = "open" /\ rd'.attempts = rd.attempts /\ rd'.bound = rd.bound
    BY <1>13, <1>f DEF Send, ReaderIs, Reader
  <2> QED BY <1>0, <2>0, <2>1 DEF Steady, ReplacedReadable, Linked, Bound, HasOpen
<1>14. CASE Expand
  BY <1>0, <1>14, <1>e DEF Expand, ReaderAt, Steady
<1> QED BY <1>0, <1>1, <1>2, <1>3, <1>4, <1>5, <1>6, <1>7, <1>8, <1>9, <1>10, <1>11, <1>12, <1>13,
           <1>14 DEF ReadsNext

\* Replacing an entry does not make it unreadable: without a write in place a
\* reader of the cache is refused only after a removal, or once it has lost
\* every attempt to a replacement (_safe_io.py:591).
THEOREM ReplacedStaysReadable == ASSUME Bounds PROVE ReadsSpec => []ReplacedReadable
<1>1. ReadsInit => Replaced
  BY DEF ReadsInit, Idle, Replaced, Steady, ReplacedReadable, Bound, HasOpen, Bounds
<1>2. ReadsInv /\ Replaced /\ [ReadsNext]_readsVars => Replaced'
  BY NextSteady
<1>3. Replaced => ReplacedReadable
  BY DEF Replaced, Steady, ReplacedReadable
<1> QED BY <1>1, <1>2, <1>3, ReadsSound, PTL DEF ReadsSpec
=============================================================================
