------------------------------ MODULE LLMCaller ------------------------------
(***************************************************************************)
(* LLMCaller.call from many threads of several processes that share one L1 *)
(* cache and, when FileSlots is enabled, one directory of lock files.      *)
(* Between a caller and the provider stand, in this order: the cache, the  *)
(* process's single-flight lock of the key, the key's lock file, the cache *)
(* again, the process's token budget, a request slot and the durable       *)
(* side-effect boundary.  A thread's pc says how far its call is.          *)
(*                                                                         *)
(* A single-flight lock and a lock file are objects with an identity: a    *)
(* thread may hold one that its table or directory no longer names.        *)
(* L1 entries are immutable and nothing in a run removes them.             *)
(***************************************************************************)
EXTENDS Integers, FiniteSets

CONSTANTS Thread, Process, Key,
          HostOf,     \* the process of a thread
          NoOne,
          KeyLocks,   \* FileSlots is enabled
          KeyTimeout, \* key_lock_timeout_seconds is set
          Slots,      \* request slots
          MaxTokens,  \* Budget.max_tokens of each process
          Estimate,   \* what a request is estimated at
          Usage,      \* what a response may turn out to have used
          MaxCalls    \* bound on the calls made, all threads together

ASSUME ConstantsOK ==
  /\ HostOf \in [Thread -> Process]
  /\ NoOne \notin Process /\ NoOne \notin Key
  /\ IsFiniteSet(Thread) /\ IsFiniteSet(Process) /\ IsFiniteSet(Key)
  /\ KeyLocks \in BOOLEAN /\ KeyTimeout \in BOOLEAN
  /\ Slots \in Nat \ {0}
  /\ MaxTokens \in Nat /\ Estimate \in Nat
  /\ Usage \subseteq Nat /\ \E u \in Usage : \A v \in Usage : v <= u
  /\ MaxCalls \in Nat

VARIABLES
  cached,   \* which process wrote the L1 entry of a key
  pc,       \* where a thread's call is
  key,      \* the key it asks for
  calls,    \* how many calls were made
  failed,   \* its call is raising
  used,     \* usage of the response it received
  trace,    \* its request has a call record: "none" sent, "owed", "kept",
            \* or the disk had no room for the answer
  table,    \* _key_locks of a process: the flight of a key, 0 for none
  flight,   \* _SingleFlightLock objects
  joined,   \* the flight a thread refers to, 0 for none
  path,     \* the inode key_<digest>.lock names, 0 for none
  opened,   \* the inode a thread has open, 0 for none
  spent,    \* Budget._spent
  reserved  \* Budget._reserved

locks  == <<table, flight, joined, path, opened>>
money  == <<spent, reserved>>
vars   == <<cached, pc, key, calls, failed, used, trace, locks, money>>

\* objects: one per thread, and one a table or a directory still names
Id == 1..(Cardinality(Thread) + Cardinality(Process) * Cardinality(Key))

\* a new object takes the smallest number that is free; there always is one
Least(S) == {n \in S : \A m \in S : n <= m}

NewFlight(n) == [done |-> FALSE, error |-> FALSE, waiters |-> n]

Permitted == {"admitted", "slotted", "sending", "responded", "stored"}
Protected == {"guarded"} \cup Permitted
Inside    == {"entered", "opened", "unlocking", "unlinking", "leaving"}
               \cup Protected

Goto(t, s) == pc' = [pc EXCEPT ![t] = s]

\* the way out of the protected section, raising or not
Unwind(t, raising) ==
  /\ Goto(t, IF KeyLocks THEN "unlocking" ELSE "leaving")
  /\ failed' = [failed EXCEPT ![t] = raising]

-----------------------------------------------------------------------------
(* Single flight within a process (_lock_for_key).                         *)

InUse == {joined[t] : t \in Thread}
           \cup {table[p][k] : p \in Process, k \in Key}

\* read_call_cache: an entry is there as a whole, or not at all
Hit(k) == cached[k] # NoOne

\* the first lookup, outside every lock
Call(t, k) ==
  /\ pc[t] = "idle" /\ calls < MaxCalls
  /\ calls' = calls + 1
  /\ \/ Hit(k) /\ UNCHANGED <<pc, key>>
     \/ /\ ~Hit(k)
        /\ Goto(t, "missed") /\ key' = [key EXCEPT ![t] = k]
  /\ UNCHANGED <<cached, failed, used, trace, locks, money>>

\* under _key_locks_lock: the flight of the key, or a new one
Join(t) ==
  LET p == HostOf[t]
      f == table[p][key[t]]
  IN  /\ pc[t] = "missed"
      /\ \/ /\ f # 0
            /\ joined' = [joined EXCEPT ![t] = f]
            /\ flight' = [flight EXCEPT ![f].waiters = @ + 1]
            /\ UNCHANGED table
         \/ /\ f = 0
            /\ \E n \in Least(Id \ InUse) :
                 /\ joined' = [joined EXCEPT ![t] = n]
                 /\ flight' = [flight EXCEPT ![n] = NewFlight(1)]
                 /\ table' = [table EXCEPT ![p][key[t]] = n]
      /\ Goto(t, "queued")
      /\ UNCHANGED <<cached, key, calls, failed, used, trace, path, opened, money>>

\* lock.lock, with no order among those who wait
Enter(t) ==
  /\ pc[t] = "queued"
  /\ \A u \in Thread : ~(joined[u] = joined[t] /\ pc[u] \in Inside)
  /\ Goto(t, IF KeyLocks THEN "entered" ELSE "guarded")
  /\ UNCHANGED <<cached, key, calls, failed, used, trace, locks, money>>

\* Mutant: without the finally, a call that raises keeps the lock.
LeaveReturned(t) ==
  /\ pc[t] = "leaving" /\ ~failed[t]
  /\ flight' = [flight EXCEPT ![joined[t]].done = TRUE]
  /\ Goto(t, "left")
  /\ UNCHANGED <<cached, key, calls, failed, used, trace, table, joined, path,
                 opened, money>>

\* whoever fails first leaves its error to all who share the flight
Leave(t) ==
  /\ pc[t] = "leaving"
  /\ flight' = [flight EXCEPT ![joined[t]].done = TRUE,
                              ![joined[t]].error =
                                 @ \/ (failed[t] /\ ~flight[joined[t]].done)]
  /\ Goto(t, "left")
  /\ UNCHANGED <<cached, key, calls, failed, used, trace, table, joined, path,
                 opened, money>>

\* the caller is back
Return(t) ==
  /\ Goto(t, "idle")
  /\ key' = [key EXCEPT ![t] = NoOne]
  /\ joined' = [joined EXCEPT ![t] = 0]
  /\ failed' = [failed EXCEPT ![t] = FALSE]
  /\ used' = [used EXCEPT ![t] = 0]
  /\ trace' = [trace EXCEPT ![t] = "none"]

\* Mutant: forgets a finished flight though others still wait on it.
DropAtOnce(t) ==
  /\ pc[t] = "left"
  /\ flight' = [flight EXCEPT ![joined[t]].waiters = @ - 1]
  /\ table' = [table EXCEPT ![HostOf[t]][key[t]] =
                 IF @ = joined[t] /\ flight[joined[t]].done THEN 0 ELSE @]
  /\ Return(t)
  /\ UNCHANGED <<cached, calls, path, opened, money>>

\* Mutant: a flight that failed stays in the table.
DropSucceeded(t) ==
  /\ pc[t] = "left"
  /\ flight' = [flight EXCEPT ![joined[t]].waiters = @ - 1]
  /\ table' = [table EXCEPT ![HostOf[t]][key[t]] =
                 IF /\ @ = joined[t]
                    /\ ~flight[joined[t]].error /\ flight'[joined[t]].waiters = 0
                 THEN 0 ELSE @]
  /\ Return(t)
  /\ UNCHANGED <<cached, calls, path, opened, money>>

\* under _key_locks_lock: the last one out removes a finished flight
Drop(t) ==
  /\ pc[t] = "left"
  /\ flight' = [flight EXCEPT ![joined[t]].waiters = @ - 1]
  /\ table' = [table EXCEPT ![HostOf[t]][key[t]] =
                 IF /\ @ = joined[t]
                    /\ flight[joined[t]].done /\ flight'[joined[t]].waiters = 0
                 THEN 0 ELSE @]
  /\ Return(t)
  /\ UNCHANGED <<cached, calls, path, opened, money>>

-----------------------------------------------------------------------------
(* Single flight across processes (FileSlots.acquire_key).                 *)

Flocked(t) == pc[t] \in Protected \cup {"unlocking"}

OpenKey(t) ==
  /\ pc[t] = "entered"
  /\ LET i == path[key[t]]
         free == Id \ ({opened[u] : u \in Thread} \cup {path[k] : k \in Key})
     IN  \E n \in IF i # 0 THEN {i} ELSE Least(free) :
           /\ opened' = [opened EXCEPT ![t] = n]
           /\ path' = [path EXCEPT ![key[t]] = n]
  /\ Goto(t, "opened")
  /\ UNCHANGED <<cached, key, calls, failed, used, trace, table, flight, joined,
                 money>>

LockKey(t) ==
  /\ pc[t] = "opened"
  /\ \A u \in Thread : ~(opened[u] = opened[t] /\ Flocked(u))
  /\ Goto(t, "guarded")
  /\ UNCHANGED <<cached, key, calls, failed, used, trace, locks, money>>

\* someone else has it for too long: SlotTimeoutError
KeyTimedOut(t) ==
  /\ KeyTimeout
  /\ pc[t] = "opened"
  /\ \E u \in Thread : opened[u] = opened[t] /\ Flocked(u)
  /\ Goto(t, "unlinking")
  /\ failed' = [failed EXCEPT ![t] = TRUE]
  /\ UNCHANGED <<cached, key, calls, used, trace, locks, money>>

UnlockKey(t) ==
  /\ pc[t] = "unlocking"
  /\ Goto(t, "unlinking")
  /\ UNCHANGED <<cached, key, calls, failed, used, trace, locks, money>>

\* whatever file the path names by now, and whoever holds it
UnlinkKey(t) ==
  /\ pc[t] = "unlinking"
  /\ path' = [path EXCEPT ![key[t]] = 0]
  /\ opened' = [opened EXCEPT ![t] = 0]
  /\ Goto(t, "leaving")
  /\ UNCHANGED <<cached, key, calls, failed, used, trace, table, flight, joined,
                 money>>

-----------------------------------------------------------------------------
(* Budget (reserve, commit, cancel, _commit_reserved).                     *)

Fits(p) == spent[p] + reserved[p] + Estimate <= MaxTokens

Reserve(p) ==
  /\ reserved' = [reserved EXCEPT ![p] = @ + Estimate]
  /\ UNCHANGED spent

Cancel(p) ==
  /\ reserved' = [reserved EXCEPT ![p] = @ - Estimate]
  /\ UNCHANGED spent

Charge(p, tokens) ==
  /\ reserved' = [reserved EXCEPT ![p] = @ - Estimate]
  /\ spent' = [spent EXCEPT ![p] = @ + tokens]

\* the charge was made, and BudgetExceeded is raised
Exceeded(p) == spent'[p] > MaxTokens

-----------------------------------------------------------------------------
(* The protected section.                                                  *)

\* Mutant: trusts the lookup it made before it had the locks.
AdmitUnchecked(t) ==
  /\ pc[t] = "guarded"
  /\ ~flight[joined[t]].error
  /\ Fits(HostOf[t])
  /\ Reserve(HostOf[t])
  /\ Goto(t, "admitted")
  /\ UNCHANGED <<cached, key, calls, failed, used, trace, locks>>

\* Mutant: compares with what was spent and forgets what is reserved.
AdmitSpent(t) ==
  /\ pc[t] = "guarded"
  /\ ~flight[joined[t]].error /\ cached[key[t]] = NoOne
  /\ spent[HostOf[t]] + Estimate <= MaxTokens
  /\ Reserve(HostOf[t])
  /\ Goto(t, "admitted")
  /\ UNCHANGED <<cached, key, calls, failed, used, trace, locks>>

\* a miss, once more, and the tokens are there
Admit(t) ==
  /\ pc[t] = "guarded"
  /\ ~flight[joined[t]].error /\ ~Hit(key[t])
  /\ Fits(HostOf[t])
  /\ Reserve(HostOf[t])
  /\ Goto(t, "admitted")
  /\ UNCHANGED <<cached, key, calls, failed, used, trace, locks>>

\* a hit has a call record of its own
RecordHit(t) == trace' = [trace EXCEPT ![t] = "kept"]

\* the flight's error, a hit, or a budget that is used up
Answer(t) ==
  /\ pc[t] = "guarded"
  /\ \/ flight[joined[t]].error /\ Unwind(t, TRUE) /\ UNCHANGED trace
     \/ /\ ~flight[joined[t]].error /\ Hit(key[t])
        /\ Unwind(t, FALSE) /\ RecordHit(t)
     \/ /\ ~flight[joined[t]].error /\ ~Hit(key[t])
        /\ ~Fits(HostOf[t])
        /\ Unwind(t, TRUE) /\ UNCHANGED trace
  /\ UNCHANGED <<cached, key, calls, used, locks, money>>

TakeSlot(t) ==
  /\ pc[t] = "admitted"
  /\ Cardinality({u \in Thread : pc[u] \in {"slotted", "sending"}}) < Slots
  /\ Goto(t, "slotted")
  /\ UNCHANGED <<cached, key, calls, failed, used, trace, locks, money>>

\* the durable boundary lets the request out
Send(t) ==
  /\ pc[t] = "slotted"
  /\ Goto(t, "sending")
  /\ trace' = [trace EXCEPT ![t] = "owed"]
  /\ UNCHANGED <<cached, key, calls, failed, used, locks, money>>

\* ... or refuses: nothing was sent, the permit is cancelled
BoundaryRefused(t) ==
  /\ pc[t] = "slotted"
  /\ Cancel(HostOf[t])
  /\ Unwind(t, TRUE)
  /\ trace' = [trace EXCEPT ![t] = "kept"]
  /\ UNCHANGED <<cached, key, calls, used, locks>>

\* the provider fails, or answers with nothing that can be used or accounted
\* for; the estimate is charged first, and when that raises BudgetExceeded the
\* call record is not written
SendFails(t) ==
  /\ pc[t] = "sending"
  /\ Charge(HostOf[t], Estimate)
  /\ Unwind(t, TRUE)
  /\ trace' = IF Exceeded(HostOf[t]) THEN trace
              ELSE [trace EXCEPT ![t] = "kept"]
  /\ UNCHANGED <<cached, key, calls, used, locks>>

Respond(t, u) ==
  /\ pc[t] = "sending"
  /\ Goto(t, "responded")
  /\ used' = [used EXCEPT ![t] = u]
  /\ UNCHANGED <<cached, key, calls, failed, trace, locks, money>>

\* the L1 entry, then the call record
StoreResponse(t) ==
  /\ pc[t] = "responded"
  /\ cached' = [cached EXCEPT ![key[t]] = HostOf[t]]
  /\ trace' = [trace EXCEPT ![t] = "kept"]
  /\ Goto(t, "stored")
  /\ UNCHANGED <<key, calls, failed, used, locks, money>>

\* the entry or the record cannot be written: the usage is charged all the same
StoreFails(t) ==
  /\ pc[t] = "responded"
  /\ \/ UNCHANGED cached
     \/ cached' = [cached EXCEPT ![key[t]] = HostOf[t]]
  /\ Charge(HostOf[t], used[t])
  /\ Unwind(t, TRUE)
  /\ trace' = [trace EXCEPT ![t] = "unwritten"]
  /\ UNCHANGED <<key, calls, used, locks>>

Settle(t) ==
  /\ pc[t] = "stored"
  /\ Charge(HostOf[t], used[t])
  /\ Unwind(t, Exceeded(HostOf[t]))
  /\ UNCHANGED <<cached, key, calls, used, trace, locks>>

-----------------------------------------------------------------------------
\* The kernel drops the flocks of a process; its tables and its budget are
\* gone, lock files and L1 entries stay.
Crash(p) ==
  LET gone == {t \in Thread : HostOf[t] = p}
      Reset(f, v) == [t \in Thread |-> IF t \in gone THEN v ELSE f[t]]
  IN  /\ \E t \in gone : pc[t] # "idle"
      /\ pc' = Reset(pc, "idle")
      /\ key' = Reset(key, NoOne)
      /\ failed' = Reset(failed, FALSE)
      /\ used' = Reset(used, 0)
      /\ trace' = Reset(trace, "none")
      /\ joined' = Reset(joined, 0)
      /\ opened' = Reset(opened, 0)
      /\ table' = [table EXCEPT ![p] = [k \in Key |-> 0]]
      /\ spent' = [spent EXCEPT ![p] = 0]
      /\ reserved' = [reserved EXCEPT ![p] = 0]
      /\ UNCHANGED <<cached, calls, flight, path>>

Init ==
  /\ cached = [k \in Key |-> NoOne]
  /\ pc = [t \in Thread |-> "idle"]
  /\ key = [t \in Thread |-> NoOne]
  /\ calls = 0
  /\ failed = [t \in Thread |-> FALSE]
  /\ used = [t \in Thread |-> 0]
  /\ trace = [t \in Thread |-> "none"]
  /\ table = [p \in Process |-> [k \in Key |-> 0]]
  /\ flight = [f \in Id |-> NewFlight(0)]
  /\ joined = [t \in Thread |-> 0]
  /\ path = [k \in Key |-> 0]
  /\ opened = [t \in Thread |-> 0]
  /\ spent = [p \in Process |-> 0]
  /\ reserved = [p \in Process |-> 0]

\* what a call does once it was made
Progress(t) ==
  \/ Join(t) \/ Enter(t) \/ OpenKey(t) \/ LockKey(t) \/ KeyTimedOut(t)
  \/ Admit(t) \/ Answer(t) \/ TakeSlot(t) \/ Send(t) \/ BoundaryRefused(t)
  \/ SendFails(t) \/ (\E u \in Usage : Respond(t, u))
  \/ StoreResponse(t) \/ StoreFails(t) \/ Settle(t)
  \/ UnlockKey(t) \/ UnlinkKey(t) \/ Leave(t) \/ Drop(t)

Next ==
  \/ \E t \in Thread : Progress(t) \/ \E k \in Key : Call(t, k)
  \/ \E p \in Process : Crash(p)

Spec == Init /\ [][Next]_vars

\* A thread that can go on does, and a provider answers or fails.
FairSpec == Spec /\ \A t \in Thread : WF_vars(Progress(t))

-----------------------------------------------------------------------------
\* Within one process, one thread at a time is at work on a key, whatever
\* happened to the flights before: concurrent misses of the same key make one
\* request (_lock_for_key).
OneFlight ==
  \A t, u \in Thread :
    /\ t # u /\ HostOf[t] = HostOf[u] /\ key[t] = key[u]
    /\ pc[t] \in Inside
    => pc[u] \notin Inside

\* No process pays for an answer it has already stored (the second lookup).
NoResend ==
  \A t \in Thread :
    pc[t] \in {"admitted", "slotted", "sending", "responded"} =>
      cached[key[t]] # HostOf[t]

Permits(p) == {t \in Thread : HostOf[t] = p /\ pc[t] \in Permitted}

\* by how much a response may exceed its estimate
Overrun == IF \E u \in Usage : u > Estimate
           THEN (CHOOSE u \in Usage : \A v \in Usage : v <= u) - Estimate ELSE 0

\* Reservations are those of the requests under way, on every path out of the
\* call, and together with what was spent they exceed the limit only by what
\* responses under way at one time used beyond their estimates (Budget).
BudgetKept ==
  \A p \in Process :
    /\ reserved[p] = Estimate * Cardinality(Permits(p))
    /\ spent[p] + reserved[p] + Overrun * Cardinality(Permits(p)) <=
         MaxTokens + Overrun * Cardinality({t \in Thread : HostOf[t] = p})

\* The table of a process names just the flights its callers refer to: none is
\* left behind by a failure, and none is removed under a waiting thread.
FlightsCounted ==
  \A p \in Process, k \in Key :
    LET callers == {t \in Thread : HostOf[t] = p /\ key[t] = k /\ joined[t] # 0}
    IN  /\ table[p][k] = 0 <=> callers = {}
        /\ \A t \in callers :
             /\ joined[t] = table[p][k]
             /\ flight[joined[t]].waiters = Cardinality(callers)

\* Every call comes back: the flight lock, the key lock, the budget and the
\* slots are always taken in the same order and always given back.
CallReturns == \A t \in Thread : pc[t] # "idle" ~> pc[t] = "idle"

\* A call whose request was sent leaves a call record. It does not hold when
\* charging the request raises BudgetExceeded (_settle_failed_permit before
\* _append_call).
SentIsRecorded ==
  \A t \in Thread : pc[t] \in {"unlocking", "unlinking", "leaving", "left"} =>
    trace[t] # "owed"

\* With lock files enabled, requests for one key are not under way in two
\* processes at once (FileSlots.acquire_key).
OneSenderPerKey ==
  \A t, u \in Thread :
    t # u /\ pc[t] = "sending" /\ pc[u] = "sending" => key[t] # key[u]

=============================================================================
