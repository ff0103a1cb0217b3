------------------------------ MODULE Throttle ------------------------------
(* Requests of several processes to one provider: a slot of FileSlots as the *)
(* capacity file allows (slots.py), one send (transport.py), its failure     *)
(* classified (failures.py), the capacity adapted, and the next attempt put  *)
(* off by the policy of the node (retry.py). What an attempt leaves behind   *)
(* is the matter of AttemptStore.                                            *)
EXTENDS Integers, FiniteSets, FiniteSetsExt

CONSTANTS Client, None,
          MaxSlots, MinSlots, Ramp,
          MaxAttempts, InitialDelay, Multiplier, MaxDelay,  \* of RetryPolicy
          RetryAfter,     \* what the provider may ask for
          Fractions,      \* the jitters there are, in quarters
          MaxTime,        \* bound
          MaxCrashes      \* bound

VARIABLES capacity, streak,  \* the two files
          lock,              \* who has the lock file of the two
          cl,                \* the clients
          fresh,             \* clients that have looked since the capacity fell
          now, crashes

vars == <<capacity, streak, lock, cl, fresh, now, crashes>>

New == [at |-> "look", limit |-> None, slot |-> None, attempt |-> 1, says |-> None, after |-> 0,
        cap |-> None, count |-> None, due |-> 0, asked |-> 0]

ClientState ==
  [at: {"look", "try", "send", "lock", "count", "capacity", "streak", "leave", "waiting", "over"},
   limit: Int \cup {None}, slot: Int \cup {None}, attempt: Nat \ {0},
   says: {"transient", "ok", "fatal", None}, after: RetryAfter \cup {0},
   cap: Int \cup {None}, count: Int \cup {None}, due: Int, asked: Int]

TypeOK ==
  /\ capacity \in Int /\ streak \in Int /\ now \in Int
  /\ lock \in Client \cup {None}
  /\ cl \in [Client -> ClientState]
  /\ \A c \in Client : cl[c].at = "try" => cl[c].slot \in Int

Step(c, from) == cl[c].at = from /\ UNCHANGED <<now, crashes>>
Set(c, s) == cl' = [cl EXCEPT ![c] = s]
Go(c, to) == Set(c, [cl[c] EXCEPT !.at = to])
End(c) == Set(c, [New EXCEPT !.at = "over"])

-----------------------------------------------------------------------------
(* FileSlots.acquire *)

\* Mutant: the capacity is read when the client comes, not at each round.
LimitOnce(c) == IF cl[c].limit = None THEN capacity ELSE cl[c].limit

Limit(c) == capacity

Look(c) ==
  /\ Step(c, "look")
  /\ Set(c, [cl[c] EXCEPT !.at = "try", !.limit = Limit(c), !.slot = 0])
  /\ fresh' = fresh \cup {c}
  /\ UNCHANGED <<capacity, streak, lock>>

Holding(c) == cl[c].at \notin {"look", "try", "waiting", "over"}

\* one lock file after the other, and again from the first
Try(c) ==
  /\ Step(c, "try")
  /\ IF \E d \in Client : Holding(d) /\ cl[d].slot = cl[c].slot
     THEN Set(c, IF cl[c].slot + 1 < cl[c].limit THEN [cl[c] EXCEPT !.slot = @ + 1]
                 ELSE [cl[c] EXCEPT !.at = "look", !.slot = None])
     ELSE Go(c, "send")
  /\ UNCHANGED <<capacity, streak, lock, fresh>>

\* SlotTimeoutError
GiveUp(c) ==
  /\ Step(c, "look") /\ cl[c].limit # None /\ End(c)
  /\ UNCHANGED <<capacity, streak, lock, fresh>>

-----------------------------------------------------------------------------
(* Transport.send *)

\* provider_failure_from_exception: rate limits, server errors, timeouts and
\* lost connections may pass, and the provider may say when to come again
Passing(c) ==
  \E after \in RetryAfter :
    Set(c, [cl[c] EXCEPT !.at = "lock", !.says = "transient", !.after = after])

\* any other failure; also a truncated or empty answer, which is neither a
\* failure of the provider nor a success
Fatal(c) == Set(c, [cl[c] EXCEPT !.at = "leave", !.says = "fatal"])

\* _response_from_provider
Answered(c) == Set(c, [cl[c] EXCEPT !.at = "lock", !.says = "ok"])

Answer(c) ==
  /\ Step(c, "send")
  /\ Passing(c) \/ Answered(c) \/ Fatal(c)
  /\ UNCHANGED <<capacity, streak, lock, fresh>>

-----------------------------------------------------------------------------
(* AdaptiveCapacity *)

\* Mutant: the two files are changed without their lock.
AnyTime == TRUE

LockFree == lock = None

Lock(c) ==
  /\ Step(c, "lock") /\ LockFree /\ lock' = c /\ Go(c, "count")
  /\ UNCHANGED <<capacity, streak, fresh>>

\* both are read, then each is replaced by its new value
Count(c) ==
  /\ Step(c, "count")
  /\ LET full == streak + 1 \geq Ramp IN
       Set(c, IF cl[c].says = "transient"
              THEN [cl[c] EXCEPT !.at = "capacity", !.cap = Max({MinSlots, capacity \div 2}),
                                 !.count = 0]
              ELSE IF full
              THEN [cl[c] EXCEPT !.at = "capacity", !.cap = Min({MaxSlots, capacity + 1}),
                                 !.count = 0]
              ELSE [cl[c] EXCEPT !.at = "streak", !.count = streak + 1])
  /\ UNCHANGED <<capacity, streak, lock, fresh>>

WriteCapacity(c) ==
  /\ Step(c, "capacity") /\ capacity' = cl[c].cap
  /\ fresh' = IF cl[c].cap < capacity THEN {} ELSE fresh
  /\ Set(c, [cl[c] EXCEPT !.at = "streak", !.cap = capacity])
  /\ UNCHANGED <<streak, lock>>

WriteStreak(c) ==
  /\ Step(c, "streak") /\ streak' = cl[c].count
  /\ lock' = None
  /\ Set(c, [cl[c] EXCEPT !.at = "leave", !.cap = None, !.count = None, !.limit = None])
  /\ UNCHANGED <<capacity, fresh>>

-----------------------------------------------------------------------------
(* RetryPolicy *)

LocalCap(n) == Min({MaxDelay, InitialDelay * (Multiplier ^ (n - 1))})

\* Mutant: the cap of the policy also caps what the provider asks for.
DelayCapped(n, f, after) == Min({MaxDelay, Max({(LocalCap(n) * f) \div 4, after})})

Delay(n, f, after) == Max({(LocalCap(n) * f) \div 4, after})

\* the slot is given back; the attempt is the last, or the next one is due later
Leave(c) ==
  /\ Step(c, "leave")
  /\ IF cl[c].says = "transient" /\ cl[c].attempt < MaxAttempts
     THEN \E f \in Fractions :
            Set(c, [New EXCEPT !.at = "waiting", !.attempt = cl[c].attempt + 1,
                               !.due = now + Delay(cl[c].attempt, f, cl[c].after),
                               !.asked = now + cl[c].after])
     ELSE End(c)
  /\ UNCHANGED <<capacity, streak, lock, fresh>>

\* the run is resumed, and the target is due
Resume(c) ==
  /\ Step(c, "waiting") /\ now >= cl[c].due /\ Go(c, "look")
  /\ UNCHANGED <<capacity, streak, lock, fresh>>

Tick ==
  /\ now < MaxTime /\ now' = now + 1
  /\ UNCHANGED <<capacity, streak, lock, cl, fresh, crashes>>

\* a process dies, and its locks with it
Crash(c) ==
  /\ Holding(c) /\ crashes < MaxCrashes /\ crashes' = crashes + 1
  /\ End(c) /\ lock' = IF lock = c THEN None ELSE lock
  /\ UNCHANGED <<capacity, streak, fresh, now>>

Init ==
  /\ capacity = MaxSlots /\ streak = 0 /\ lock = None
  /\ cl = [c \in Client |-> New] /\ fresh = {} /\ now = 0 /\ crashes = 0

Next ==
  \/ Tick
  \/ \E c \in Client :
       \/ Look(c) \/ Try(c) \/ GiveUp(c) \/ Answer(c) \/ Lock(c) \/ Count(c)
       \/ WriteCapacity(c) \/ WriteStreak(c) \/ Leave(c) \/ Resume(c) \/ Crash(c)

Spec == Init /\ [][Next]_vars

-----------------------------------------------------------------------------
\* The capacity, but for one that is written before its streak.
Torn == lock # None /\ cl[lock].at = "streak" /\ cl[lock].cap # None
Seen == IF Torn THEN cl[lock].cap ELSE capacity

\* Throttles and successes of all processes are counted one by one, none lost:
\* the files implement CapacityCount.
Counted == INSTANCE CapacityCount WITH capacity <- Seen

CapacityCounted == Counted!Spec

\* A fall of the capacity is heeded at the next round: the clients that have
\* looked since, and hold a slot, are no more than it allows, however many
\* others still hold theirs (adoption.md:1167).
FreshWithinCapacity == Cardinality({c \in fresh : Holding(c)}) <= capacity

\* No attempt is sent before the time its provider has asked for, even when
\* that is past the cap of the policy.
AskedFor == \A c \in Client : cl[c].at = "send" => now >= cl[c].asked

=============================================================================
