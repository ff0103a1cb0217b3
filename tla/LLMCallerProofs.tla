-------------------------- MODULE LLMCallerProofs --------------------------
(* Proofs about LLMCaller: for any threads, processes and keys, a process  *)
(* has one thread at work on a key, its table of flights names those its   *)
(* callers refer to, and nothing is sent again that it has stored.  A      *)
(* thread finds the flight of its key because a flight leaves the table    *)
(* only with its last caller; that is what FlightInv says.                 *)
EXTENDS LLMCaller, FiniteSetTheorems, TLAPS

Places == {"idle", "missed", "queued", "left"} \cup Inside

Typing ==
  /\ cached \in [Key -> Process \cup {NoOne}]
  /\ pc \in [Thread -> Places]
  /\ key \in [Thread -> Key \cup {NoOne}]
  /\ table \in [Process -> [Key -> Id \cup {0}]]
  /\ flight \in [Id -> [done : BOOLEAN, error : BOOLEAN, waiters : Int]]
  /\ joined \in [Thread -> Id \cup {0}]

Callers(p, k) == {t \in Thread : HostOf[t] = p /\ key[t] = k /\ joined[t] # 0}

\* a thread refers to a flight from Join to Drop, to the one its table names
Refers ==
  \A t \in Thread :
    /\ joined[t] # 0 <=> pc[t] \in {"queued", "left"} \cup Inside
    /\ pc[t] # "idle" => key[t] \in Key
    /\ joined[t] # 0 => joined[t] = table[HostOf[t]][key[t]]

\* no flight is in the table for nobody, or for two keys
Called == \A p \in Process, k \in Key : table[p][k] # 0 => Callers(p, k) # {}

Apart ==
  \A p, q \in Process, k, l \in Key :
    table[p][k] # 0 /\ table[p][k] = table[q][l] => p = q /\ k = l

Counted ==
  \A p \in Process, k \in Key :
    table[p][k] # 0 => flight[table[p][k]].waiters = Cardinality(Callers(p, k))

\* one at a time, and who is past it has marked the flight
Alone ==
  \A t, u \in Thread :
    t # u /\ pc[t] \in Inside /\ pc[u] \in Inside => joined[t] # joined[u]

Finished == \A t \in Thread : pc[t] = "left" => flight[joined[t]].done

FlightInv == Typing /\ Refers /\ Called /\ Apart /\ Counted /\ Alone /\ Finished

-----------------------------------------------------------------------------
LEMMA IdType == Id \subseteq Nat \ {0}
<1>1. /\ Cardinality(Thread) \in Nat
      /\ Cardinality(Process) \in Nat
      /\ Cardinality(Key) \in Nat
  BY ConstantsOK, FS_CardinalityType
<1>2. Cardinality(Process) * Cardinality(Key) \in Nat
  BY <1>1
<1>. QED
  BY <1>1, <1>2 DEF Id

LEMMA CallersFinite ==
  ASSUME NEW p, NEW k
  PROVE  IsFiniteSet(Callers(p, k)) /\ IsFiniteSet(Callers(p, k)')
<1>1. Callers(p, k) \in SUBSET Thread /\ Callers(p, k)' \in SUBSET Thread
  BY DEF Callers
<1>. QED
  BY <1>1, FS_Subset, ConstantsOK

LEMMA FlightInit == Init => FlightInv
<1>. SUFFICES ASSUME Init PROVE FlightInv
  OBVIOUS
<1>1. Typing
  BY DEF Init, Typing, Places, NewFlight
<1>2. Refers /\ Called /\ Apart /\ Counted /\ Alone /\ Finished
  BY ConstantsOK DEF Init, Refers, Called, Apart, Counted, Alone, Finished, Inside,
     Protected, Permitted
<1>. QED
  BY <1>1, <1>2 DEF FlightInv

-----------------------------------------------------------------------------
\* What the actions between Join and Leave have in common: the thread goes on
\* inside the flight it refers to, and it was alone when it entered.
Moves(t) ==
  /\ pc[t] \in {"queued"} \cup Inside
  /\ \E s \in Inside : Goto(t, s)
  /\ pc[t] = "queued" =>
       \A u \in Thread : ~(joined[u] = joined[t] /\ pc[u] \in Inside)
  /\ cached' \in [Key -> Process \cup {NoOne}]
  /\ UNCHANGED <<key, table, flight, joined>>

Within(t) ==
  \/ Enter(t) \/ OpenKey(t) \/ LockKey(t) \/ KeyTimedOut(t)
  \/ Admit(t) \/ Answer(t) \/ TakeSlot(t) \/ Send(t) \/ BoundaryRefused(t)
  \/ SendFails(t) \/ (\E u \in Usage : Respond(t, u))
  \/ StoreResponse(t) \/ StoreFails(t) \/ Settle(t)
  \/ UnlockKey(t) \/ UnlinkKey(t)

LEMMA WithinMoves ==
  ASSUME NEW t \in Thread, FlightInv, Within(t) PROVE Moves(t)
<1>. USE DEF Goto, Inside, Protected, Permitted, locks
<1>1. CASE Enter(t)
  BY <1>1 DEF Enter, Moves, FlightInv, Typing
<1>2. CASE OpenKey(t) \/ LockKey(t) \/ KeyTimedOut(t) \/ UnlockKey(t) \/ UnlinkKey(t)
  BY <1>2 DEF OpenKey, LockKey, KeyTimedOut, UnlockKey, UnlinkKey, Moves, FlightInv,
     Typing
<1>3. CASE Admit(t) \/ TakeSlot(t) \/ Send(t) \/ (\E u \in Usage : Respond(t, u))
  BY <1>3 DEF Admit, TakeSlot, Send, Respond, Moves, FlightInv, Typing
<1>4. CASE Answer(t)
  BY <1>4 DEF Answer, Unwind, Moves, FlightInv, Typing
<1>5. CASE BoundaryRefused(t) \/ SendFails(t) \/ Settle(t)
  BY <1>5 DEF BoundaryRefused, SendFails, Settle, Unwind, Moves, FlightInv, Typing
<1>6. CASE StoreResponse(t) \/ StoreFails(t)
  BY <1>6, ConstantsOK DEF StoreResponse, StoreFails, Unwind, Moves, FlightInv, Typing
<1>. QED
  BY <1>1, <1>2, <1>3, <1>4, <1>5, <1>6 DEF Within

LEMMA MovesKeep ==
  ASSUME NEW t \in Thread, FlightInv, Moves(t) PROVE FlightInv'
<1>. PICK s \in Inside : Goto(t, s)
  BY DEF Moves
<1>. USE DEF FlightInv, Moves, Goto
<1>1. Typing'
  BY DEF Typing, Places, Id
<1>2. \A u \in Thread : pc'[u] = IF u = t THEN s ELSE pc[u]
  BY DEF Typing
<1>3. s # "idle" /\ s # "left" /\ s \in {"queued", "left"} \cup Inside
  BY DEF Inside, Protected, Permitted
<1>4. pc[t] # "idle" /\ pc[t] \in {"queued", "left"} \cup Inside
  BY DEF Inside, Protected, Permitted
<1>5. Refers'
  BY <1>2, <1>3, <1>4 DEF Refers
<1>6. Called' /\ Apart' /\ Counted'
  BY DEF Called, Apart, Counted, Callers
<1>7. Alone'
  BY <1>2 DEF Alone
<1>8. Finished'
  BY <1>2, <1>3 DEF Finished
<1>. QED
  BY <1>1, <1>5, <1>6, <1>7, <1>8

LEMMA CallKeeps ==
  ASSUME NEW t \in Thread, NEW k \in Key, FlightInv, Call(t, k) PROVE FlightInv'
<1>. USE DEF FlightInv, Call, Goto, locks
<1>1. CASE UNCHANGED <<pc, key>>
  BY <1>1 DEF Typing, Refers, Called, Apart, Counted, Alone, Finished, Callers, Id
<1>2. CASE Goto(t, "missed") /\ key' = [key EXCEPT ![t] = k]
  <2>. USE <1>2
  <2>1. Typing'
    BY DEF Typing, Places, Id
  <2>2. /\ \A u \in Thread : pc'[u] = IF u = t THEN "missed" ELSE pc[u]
        /\ \A u \in Thread : key'[u] = IF u = t THEN k ELSE key[u]
    BY DEF Typing
  <2>3. pc[t] = "idle" /\ joined[t] = 0
    BY DEF Refers, Inside, Protected, Permitted
  <2>4. Refers'
    BY <2>2, <2>3 DEF Refers, Inside, Protected, Permitted
  <2>5. \A p \in Process, l \in Key : Callers(p, l)' = Callers(p, l)
    BY <2>2, <2>3 DEF Callers
  <2>6. Called' /\ Apart' /\ Counted'
    BY <2>5 DEF Called, Apart, Counted
  <2>7. Alone' /\ Finished'
    BY <2>2 DEF Alone, Finished, Inside, Protected, Permitted
  <2>. QED
    BY <2>1, <2>4, <2>6, <2>7
<1>. QED
  BY <1>1, <1>2

\* The caller counts itself in: its flight is either the one its table names,
\* or one that nobody refers to.
LEMMA JoinKeeps ==
  ASSUME NEW t \in Thread, FlightInv, Join(t) PROVE FlightInv'
<1>. USE DEF FlightInv, Goto
<1>1. pc[t] = "missed" /\ pc' = [pc EXCEPT ![t] = "queued"] /\ key' = key /\ cached' = cached
  BY DEF Join
<1>2. PICK p \in Process, k \in Key : p = HostOf[t] /\ k = key[t] /\ joined[t] = 0
  BY <1>1, ConstantsOK DEF Refers, Inside, Protected, Permitted
<1>3. PICK f \in Id :
        /\ f # 0 /\ table'[p][k] = f
        /\ joined' = [joined EXCEPT ![t] = f]
        /\ \A q \in Process, l \in Key :
             ~(q = p /\ l = k) => table'[q][l] = table[q][l] /\ table[q][l] # f
        /\ \A n \in Id : n # f => flight'[n] = flight[n]
        /\ Typing'
        /\ \/ /\ table[p][k] = f
              /\ flight'[f].done = flight[f].done
              /\ flight'[f].waiters = flight[f].waiters + 1
           \/ table[p][k] = 0 /\ f \notin InUse /\ flight'[f].waiters = 1
  <2>1. CASE /\ table[p][k] # 0
             /\ joined' = [joined EXCEPT ![t] = table[p][k]]
             /\ flight' = [flight EXCEPT ![table[p][k]].waiters = @ + 1]
             /\ UNCHANGED table
    <3>1. PICK f \in Id : f = table[p][k]
      BY <2>1, <1>2 DEF Typing
    <3>2. Typing'
      BY <1>1, <2>1, <3>1 DEF Typing, Places, Id
    <3>3. /\ flight'[f].done = flight[f].done
          /\ flight'[f].waiters = flight[f].waiters + 1
          /\ \A n \in Id : n # f => flight'[n] = flight[n]
      BY <2>1, <3>1 DEF Typing
    <3>4. \A q \in Process, l \in Key : ~(q = p /\ l = k) => table[q][l] # f
      BY <2>1, <3>1, <1>2 DEF Apart
    <3>. QED
      BY <1>2, <2>1, <3>1, <3>2, <3>3, <3>4
  <2>2. CASE /\ table[p][k] = 0
             /\ \E n \in Least(Id \ InUse) :
                  /\ joined' = [joined EXCEPT ![t] = n]
                  /\ flight' = [flight EXCEPT ![n] = NewFlight(1)]
                  /\ table' = [table EXCEPT ![p][k] = n]
    <3>1. PICK f \in Id \ InUse :
                  /\ joined' = [joined EXCEPT ![t] = f]
                  /\ flight' = [flight EXCEPT ![f] = NewFlight(1)]
                  /\ table' = [table EXCEPT ![p][k] = f]
      BY <2>2 DEF Least
    <3>2. f # 0 /\ table'[p][k] = f
      BY <3>1, <1>2, IdType DEF Typing
    <3>3. Typing'
      <4>1. flight' \in [Id -> [done : BOOLEAN, error : BOOLEAN, waiters : Int]]
        <5>1. NewFlight(1)
                \in [done : BOOLEAN, error : BOOLEAN, waiters : Int]
          BY DEF NewFlight
        <5>. QED
          BY <3>1, <5>1 DEF Typing
      <4>2. pc' \in [Thread -> Places] /\ joined' \in [Thread -> Id \cup {0}]
        BY <1>1, <3>1 DEF Typing, Places
      <4>3. table' \in [Process -> [Key -> Id \cup {0}]]
        BY <1>2, <3>1 DEF Typing
      <4>. QED
        BY <1>1, <4>1, <4>2, <4>3 DEF Typing
    <3>4. \A q \in Process, l \in Key : table[q][l] # f
      BY <3>1 DEF InUse
    <3>5. \A q \in Process, l \in Key :
            ~(q = p /\ l = k) => table'[q][l] = table[q][l]
      BY <3>1, <1>2 DEF Typing
    <3>6. /\ flight'[f].waiters = 1
          /\ \A m \in Id : m # f => flight'[m] = flight[m]
      BY <3>1 DEF Typing, NewFlight
    <3>7. /\ joined' = [joined EXCEPT ![t] = f]
          /\ table[p][k] = 0 /\ f \notin InUse
      BY <2>2, <3>1
    <3>. WITNESS f \in Id
    <3>. QED
      BY <3>2, <3>3, <3>4, <3>5, <3>6, <3>7
  <2>. QED
    BY <1>2, <2>1, <2>2 DEF Join
<1>4. /\ \A u \in Thread : pc'[u] = IF u = t THEN "queued" ELSE pc[u]
      /\ \A u \in Thread : joined'[u] = IF u = t THEN f ELSE joined[u]
  BY <1>1, <1>3 DEF Typing
<1>5. Refers'
  <2>. SUFFICES ASSUME NEW u \in Thread, u # t, joined[u] # 0
                PROVE  joined'[u] = table'[HostOf[u]][key'[u]]
    BY <1>1, <1>2, <1>3, <1>4 DEF Refers
  <2>1. /\ joined[u] = table[HostOf[u]][key[u]]
        /\ HostOf[u] \in Process /\ key[u] \in Key
    BY ConstantsOK DEF Refers, Inside, Protected, Permitted
  <2>2. table[HostOf[u]][key[u]] = table'[HostOf[u]][key[u]]
    BY <1>2, <1>3, <2>1 DEF InUse
  <2>. QED
    BY <1>1, <1>4, <2>1, <2>2
<1>6. /\ Callers(p, k)' = Callers(p, k) \cup {t} /\ t \notin Callers(p, k)
      /\ \A q \in Process, l \in Key :
           ~(q = p /\ l = k) => Callers(q, l)' = Callers(q, l)
  BY <1>1, <1>2, <1>3, <1>4 DEF Callers
<1>7. Called'
  BY <1>3, <1>6 DEF Called
<1>8. Apart'
  BY <1>2, <1>3 DEF Apart
<1>9. flight'[f].waiters = Cardinality(Callers(p, k)')
  <2>1. Cardinality(Callers(p, k)') = Cardinality(Callers(p, k)) + 1
    BY <1>6, CallersFinite, FS_AddElement
  <2>2. CASE table[p][k] = f /\ flight'[f].waiters = flight[f].waiters + 1
    <3>1. flight[f].waiters = Cardinality(Callers(p, k))
      BY <1>2, <1>3, <2>2 DEF Counted
    <3>. QED
      BY <2>1, <2>2, <3>1
  <2>3. CASE table[p][k] = 0 /\ f \notin InUse /\ flight'[f].waiters = 1
    <3>1. Callers(p, k) = {}
      BY <2>3 DEF Callers, Refers
    <3>. QED
      BY <2>1, <2>3, <3>1, FS_EmptySet
  <2>. QED
    BY <1>3, <2>2, <2>3
<1>10. Counted'
  <2>. SUFFICES ASSUME NEW q \in Process, NEW l \in Key, table'[q][l] # 0
                PROVE  flight'[table'[q][l]].waiters = Cardinality(Callers(q, l)')
    BY DEF Counted
  <2>1. CASE q = p /\ l = k
    BY <1>3, <1>9, <2>1 DEF Callers
  <2>2. CASE ~(q = p /\ l = k)
    <3>1. table'[q][l] = table[q][l] /\ table[q][l] # f /\ table[q][l] \in Id
      BY <1>3, <2>2 DEF Typing
    <3>. QED
      BY <1>3, <1>6, <2>2, <3>1 DEF Counted
  <2>. QED
    BY <2>1, <2>2
<1>11. Alone'
  BY <1>4 DEF Alone, Inside, Protected, Permitted
<1>12. Finished'
  <2>. SUFFICES ASSUME NEW u \in Thread, u # t, pc[u] = "left"
                PROVE  flight'[joined[u]].done
    BY <1>4 DEF Finished
  <2>1. joined[u] # 0 /\ joined[u] \in Id /\ flight[joined[u]].done
    BY DEF Finished, Refers, Typing
  <2>2. joined[u] \in InUse
    BY DEF InUse
  <2>3. joined[u] = f => flight'[f].done = flight[f].done
    BY <1>3, <2>2
  <2>. QED
    BY <1>3, <2>1, <2>3
<1>. QED
  BY <1>3, <1>5, <1>7, <1>8, <1>10, <1>11, <1>12

LEMMA LeaveKeeps ==
  ASSUME NEW t \in Thread, FlightInv, Leave(t) PROVE FlightInv'
<1>. USE DEF FlightInv, Goto
<1>1. /\ pc[t] = "leaving" /\ pc' = [pc EXCEPT ![t] = "left"]
      /\ UNCHANGED <<key, table, joined, cached>>
  BY DEF Leave
<1>2. PICK f \in Id : f = joined[t]
  BY <1>1 DEF Refers, Inside, Typing
<1>3. flight' = [flight EXCEPT ![f].done = TRUE,
                              ![f].error = @ \/ (failed[t] /\ ~flight[f].done)]
  BY <1>2 DEF Leave
<1>4. /\ \A g \in Id : flight'[g].waiters = flight[g].waiters
      /\ \A g \in Id : flight[g].done => flight'[g].done
      /\ flight'[f].done
      /\ flight' \in [Id -> [done : BOOLEAN, error : BOOLEAN, waiters : Int]]
  <2>1. flight' \in [Id -> [done : BOOLEAN, error : BOOLEAN, waiters : Int]]
    BY <1>3 DEF Typing
  <2>2. \A g \in Id : g # f => flight'[g] = flight[g]
    BY <1>3 DEF Typing
  <2>3. flight'[f].waiters = flight[f].waiters /\ flight'[f].done
    BY <1>3 DEF Typing
  <2>. QED
    BY <2>1, <2>2, <2>3
<1>5. \A u \in Thread : pc'[u] = IF u = t THEN "left" ELSE pc[u]
  BY <1>1 DEF Typing
<1>6. Typing'
  BY <1>1, <1>4, <1>5 DEF Typing, Places
<1>7. Refers'
  BY <1>1, <1>5 DEF Refers, Inside
<1>8. Called' /\ Apart'
  BY <1>1 DEF Called, Apart, Callers
<1>9. Counted'
  BY <1>1, <1>4 DEF Counted, Callers, Typing
<1>10. Alone'
  BY <1>1, <1>5 DEF Alone, Inside, Protected, Permitted
<1>11. Finished'
  BY <1>1, <1>2, <1>4, <1>5 DEF Finished, Refers, Typing
<1>. QED
  BY <1>6, <1>7, <1>8, <1>9, <1>10, <1>11

\* The last caller out takes the flight along, and no other does.
LEMMA DropKeeps ==
  ASSUME NEW t \in Thread, FlightInv, Drop(t) PROVE FlightInv'
<1>. USE DEF FlightInv, Goto
<1>1. /\ pc[t] = "left" /\ pc' = [pc EXCEPT ![t] = "idle"]
      /\ key' = [key EXCEPT ![t] = NoOne] /\ joined' = [joined EXCEPT ![t] = 0]
      /\ cached' = cached
  BY DEF Drop, Return
<1>2. PICK p \in Process, k \in Key, f \in Id :
        p = HostOf[t] /\ k = key[t] /\ f = joined[t] /\ f # 0 /\ f = table[p][k]
  <2>1. /\ HostOf[t] \in Process /\ key[t] \in Key
        /\ joined[t] # 0 /\ joined[t] = table[HostOf[t]][key[t]]
    BY <1>1, ConstantsOK DEF Refers
  <2>2. joined[t] \in Id
    BY <2>1 DEF Typing
  <2>. QED
    BY <2>1, <2>2
<1>3. /\ flight[f].done
      /\ flight[f].waiters = Cardinality(Callers(p, k))
      /\ t \in Callers(p, k)
  BY <1>1, <1>2 DEF Finished, Counted, Callers
<1>4. /\ flight' \in [Id -> [done : BOOLEAN, error : BOOLEAN, waiters : Int]]
      /\ \A g \in Id : flight'[g].done = flight[g].done
      /\ \A g \in Id : g # f => flight'[g].waiters = flight[g].waiters
      /\ flight'[f].waiters = flight[f].waiters - 1
  <2>1. flight' = [flight EXCEPT ![f].waiters = @ - 1]
    BY <1>2 DEF Drop
  <2>. QED
    BY <2>1 DEF Typing
<1>5. /\ \A u \in Thread : pc'[u] = IF u = t THEN "idle" ELSE pc[u]
      /\ \A u \in Thread : key'[u] = IF u = t THEN NoOne ELSE key[u]
      /\ \A u \in Thread : joined'[u] = IF u = t THEN 0 ELSE joined[u]
  BY <1>1 DEF Typing
<1>6. /\ Callers(p, k)' = Callers(p, k) \ {t}
      /\ \A q \in Process, l \in Key :
           ~(q = p /\ l = k) => Callers(q, l)' = Callers(q, l)
  BY <1>2, <1>5 DEF Callers
<1>7. flight'[f].waiters = Cardinality(Callers(p, k)')
  <2>1. Cardinality(Callers(p, k)') = Cardinality(Callers(p, k)) - 1
    <3>1. IsFiniteSet(Callers(p, k))
      BY CallersFinite
    <3>2. Cardinality(Callers(p, k) \ {t}) = Cardinality(Callers(p, k)) - 1
      BY <1>3, <3>1, FS_RemoveElement
    <3>. QED
      BY <1>6, <3>2
  <2>. QED
    BY <1>3, <1>4, <2>1
<1>8. flight'[f].waiters = 0 <=> Callers(p, k)' = {}
  BY <1>7, CallersFinite, FS_EmptySet
<1>9. /\ table'[p][k] = IF Callers(p, k)' = {} THEN 0 ELSE f
      /\ \A q \in Process, l \in Key : ~(q = p /\ l = k) => table'[q][l] = table[q][l]
      /\ table' \in [Process -> [Key -> Id \cup {0}]]
  <2>1. table' = [table EXCEPT ![p][k] =
                    IF flight'[f].waiters = 0 THEN 0 ELSE f]
    BY <1>2, <1>3 DEF Drop
  <2>. QED
    BY <1>2, <1>8, <2>1 DEF Typing
<1>10. Typing'
  BY <1>1, <1>4, <1>9 DEF Typing, Places
<1>11. Refers'
  <2>. SUFFICES ASSUME NEW u \in Thread, u # t, joined[u] # 0
                PROVE  joined'[u] = table'[HostOf[u]][key'[u]]
    BY <1>5 DEF Refers, Inside, Protected, Permitted
  <2>1. PICK q \in Process, l \in Key :
          q = HostOf[u] /\ l = key[u] /\ joined[u] = table[q][l]
    BY ConstantsOK DEF Refers, Inside, Protected, Permitted
  <2>2. q = p /\ l = k => u \in Callers(p, k)'
    BY <1>5, <2>1 DEF Callers
  <2>3. table'[q][l] = table[q][l]
    BY <1>2, <1>9, <2>2
  <2>. QED
    BY <1>5, <2>1, <2>3
<1>12. Called'
  BY <1>6, <1>9 DEF Called
<1>13. Apart'
  BY <1>2, <1>9 DEF Apart
<1>14. Counted'
  <2>. SUFFICES ASSUME NEW q \in Process, NEW l \in Key, table'[q][l] # 0
                PROVE  flight'[table'[q][l]].waiters = Cardinality(Callers(q, l)')
    BY DEF Counted
  <2>1. CASE q = p /\ l = k
    BY <1>7, <1>9, <2>1 DEF Callers
  <2>2. CASE ~(q = p /\ l = k)
    <3>1. table'[q][l] = table[q][l] /\ table[q][l] # f /\ table[q][l] \in Id
      BY <1>2, <1>9, <2>2 DEF Apart, Typing
    <3>. QED
      BY <1>4, <1>6, <2>2, <3>1 DEF Counted
  <2>. QED
    BY <2>1, <2>2
<1>15. Alone'
  BY <1>5 DEF Alone, Inside, Protected, Permitted
<1>16. Finished'
  BY <1>4, <1>5 DEF Finished, Refers, Typing
<1>. QED
  BY <1>10, <1>11, <1>12, <1>13, <1>14, <1>15, <1>16

\* A process that dies takes its callers and its table along.
LEMMA CrashKeeps ==
  ASSUME NEW p \in Process, FlightInv, Crash(p) PROVE FlightInv'
<1>. USE DEF FlightInv
<1>1. /\ pc' = [t \in Thread |-> IF HostOf[t] = p THEN "idle" ELSE pc[t]]
      /\ key' = [t \in Thread |-> IF HostOf[t] = p THEN NoOne ELSE key[t]]
      /\ joined' = [t \in Thread |-> IF HostOf[t] = p THEN 0 ELSE joined[t]]
      /\ table' = [table EXCEPT ![p] = [k \in Key |-> 0]]
      /\ UNCHANGED <<cached, flight>>
  BY DEF Crash
<1>2. Typing'
  BY <1>1 DEF Typing, Places
<1>3. /\ \A k \in Key : table'[p][k] = 0
      /\ \A q \in Process, k \in Key : q # p => table'[q][k] = table[q][k]
  BY <1>1 DEF Typing
<1>4. \A q \in Process, k \in Key : q # p => Callers(q, k)' = Callers(q, k)
  BY <1>1 DEF Callers
<1>5. Refers'
  <2>. SUFFICES ASSUME NEW t \in Thread, HostOf[t] # p, joined[t] # 0
                PROVE  joined'[t] = table'[HostOf[t]][key'[t]]
    BY <1>1 DEF Refers, Inside, Protected, Permitted
  <2>1. HostOf[t] \in Process /\ key[t] \in Key
    BY ConstantsOK DEF Refers, Inside, Protected, Permitted
  <2>. QED
    BY <1>1, <1>3, <2>1 DEF Refers
<1>6. Called'
  BY <1>3, <1>4 DEF Called
<1>7. Apart'
  BY <1>3 DEF Apart
<1>8. Counted'
  BY <1>1, <1>3, <1>4 DEF Counted
<1>9. Alone' /\ Finished'
  BY <1>1 DEF Alone, Finished, Inside, Protected, Permitted
<1>. QED
  BY <1>2, <1>5, <1>6, <1>7, <1>8, <1>9

LEMMA FlightStep == FlightInv /\ [Next]_vars => FlightInv'
<1>. SUFFICES ASSUME FlightInv, [Next]_vars PROVE FlightInv'
  OBVIOUS
<1>1. CASE \E t \in Thread, k \in Key : Call(t, k)
  BY <1>1, CallKeeps
<1>2. CASE \E t \in Thread : Progress(t)
  <2>. PICK t \in Thread : Progress(t)
    BY <1>2
  <2>1. CASE Within(t)
    BY <2>1, WithinMoves, MovesKeep
  <2>2. CASE Join(t)
    BY <2>2, JoinKeeps
  <2>3. CASE Leave(t)
    BY <2>3, LeaveKeeps
  <2>4. CASE Drop(t)
    BY <2>4, DropKeeps
  <2>. QED
    BY <2>1, <2>2, <2>3, <2>4 DEF Progress, Within
<1>3. CASE \E p \in Process : Crash(p)
  BY <1>3, CrashKeeps
<1>4. CASE UNCHANGED vars
  BY <1>4 DEF vars, locks, FlightInv, Typing, Refers, Called, Apart, Counted, Alone,
     Finished, Callers, Id
<1>. QED
  BY <1>1, <1>2, <1>3, <1>4 DEF Next

\* The flights of a process are sound whatever its threads and the other
\* processes do (_lock_for_key).
THEOREM FlightsSound == Spec => []FlightInv
<1>. QED
  BY FlightInit, FlightStep, PTL DEF Spec

LEMMA OneAtWork == FlightInv => OneFlight
<1>. SUFFICES ASSUME FlightInv, NEW t \in Thread, NEW u \in Thread, t # u,
                     HostOf[t] = HostOf[u], key[t] = key[u],
                     pc[t] \in Inside, pc[u] \in Inside
              PROVE  FALSE
  BY DEF OneFlight
<1>1. joined[t] = joined[u]
  BY DEF FlightInv, Refers
<1>. QED
  BY <1>1 DEF FlightInv, Alone

\* For any number of threads, processes and keys: concurrent misses of a key
\* make one request in a process (_lock_for_key).
THEOREM OneFlightAtATime == Spec => []OneFlight
<1>. QED
  BY FlightsSound, OneAtWork, PTL

LEMMA TableCounted == FlightInv => FlightsCounted
<1>. SUFFICES ASSUME FlightInv, NEW p \in Process, NEW k \in Key
              PROVE  /\ table[p][k] = 0 <=> Callers(p, k) = {}
                     /\ \A t \in Callers(p, k) :
                          /\ joined[t] = table[p][k]
                          /\ flight[joined[t]].waiters = Cardinality(Callers(p, k))
  BY DEF FlightsCounted, Callers
<1>1. \A t \in Callers(p, k) : joined[t] = table[p][k] /\ table[p][k] # 0
  BY DEF FlightInv, Refers, Callers
<1>. QED
  BY <1>1 DEF FlightInv, Called, Counted

\* No flight is left behind by a failure, and none is removed under a thread
\* that waits for it (_lock_for_key).
THEOREM FlightsAreCounted == Spec => []FlightsCounted
<1>. QED
  BY FlightsSound, TableCounted, PTL

-----------------------------------------------------------------------------
Sending == {"admitted", "slotted", "sending", "responded"}

LEMMA ResendStep == FlightInv /\ NoResend /\ [Next]_vars => NoResend'
<1>. SUFFICES ASSUME FlightInv, NoResend, [Next]_vars, NEW u \in Thread,
                     pc'[u] \in Sending
              PROVE  cached'[key'[u]] # HostOf[u]
  BY DEF NoResend, Sending
<1>. USE DEF Goto, Sending
<1>1. Typing
  BY DEF FlightInv
<1>2. CASE cached' = cached /\ key'[u] = key[u] /\ pc[u] \in Sending
  BY <1>2 DEF NoResend
<1>3. CASE \E t \in Thread, k \in Key : Call(t, k)
  <2>. PICK t \in Thread, k \in Key : Call(t, k)
    BY <1>3
  <2>1. cached' = cached /\ (u # t => pc'[u] = pc[u] /\ key'[u] = key[u]) /\ u # t
    BY <1>1 DEF Call, Typing
  <2>. QED
    BY <1>2, <2>1
<1>4. CASE \E t \in Thread : Join(t) \/ Leave(t) \/ Drop(t)
  <2>. PICK t \in Thread : Join(t) \/ Leave(t) \/ Drop(t)
    BY <1>4
  <2>1. cached' = cached /\ u # t
    BY <1>1 DEF Join, Leave, Drop, Return, Typing
  <2>2. pc'[u] = pc[u] /\ key'[u] = key[u]
    BY <1>1, <2>1 DEF Join, Leave, Drop, Return, Typing
  <2>. QED
    BY <1>2, <2>1, <2>2
<1>5. CASE \E t \in Thread : Within(t)
  <2>. PICK t \in Thread : Within(t)
    BY <1>5
  <2>1. key' = key /\ (u # t => pc'[u] = pc[u])
    BY <1>1, WithinMoves DEF Moves, Typing
  <2>2. CASE Admit(t) /\ u = t
    BY <2>1, <2>2, ConstantsOK DEF Admit, Hit
  <2>3. CASE StoreResponse(t) \/ StoreFails(t)
    <3>1. u # t /\ pc[u] \in Sending
      BY <1>1, <2>1, <2>3 DEF StoreResponse, StoreFails, Unwind, Typing
    <3>2. pc[t] \in Inside /\ pc[u] \in Inside
      BY <2>3, <3>1 DEF StoreResponse, StoreFails, Inside, Protected, Permitted
    <3>3. ~(HostOf[t] = HostOf[u] /\ key[t] = key[u])
      BY <3>1, <3>2, OneAtWork DEF OneFlight
    <3>4. /\ key[t] \in Key /\ key[u] \in Key
          /\ cached' = cached \/ cached' = [cached EXCEPT ![key[t]] = HostOf[t]]
      BY <2>3, <3>1 DEF StoreResponse, StoreFails, FlightInv, Refers
    <3>5. cached[key[u]] # HostOf[u]
      BY <3>1 DEF NoResend
    <3>. QED
      BY <1>1, <2>1, <3>3, <3>4, <3>5 DEF Typing
  <2>4. CASE ~(Admit(t) /\ u = t) /\ ~(StoreResponse(t) \/ StoreFails(t))
    <3>1. cached' = cached
      BY <2>4 DEF Within, Enter, OpenKey, LockKey, KeyTimedOut, Admit, Answer, TakeSlot, Send,
         BoundaryRefused, SendFails, Respond, Settle, UnlockKey, UnlinkKey
    <3>2. u = t => pc[u] \in Sending
      BY <1>1, <2>4 DEF Within, Enter, OpenKey, LockKey, KeyTimedOut, Admit, Answer,
         TakeSlot, Send, BoundaryRefused, SendFails, Respond, Settle, UnlockKey,
         UnlinkKey, Unwind, Typing
    <3>. QED
      BY <1>2, <2>1, <3>1, <3>2
  <2>. QED
    BY <2>2, <2>3, <2>4
<1>6. CASE \E p \in Process : Crash(p)
  <2>. PICK p \in Process : Crash(p)
    BY <1>6
  <2>1. /\ pc'[u] = IF HostOf[u] = p THEN "idle" ELSE pc[u]
        /\ key'[u] = IF HostOf[u] = p THEN NoOne ELSE key[u]
        /\ cached' = cached
    BY DEF Crash
  <2>. QED
    BY <1>2, <2>1
<1>7. CASE UNCHANGED vars
  BY <1>2, <1>7 DEF vars
<1>. QED
  BY <1>3, <1>4, <1>5, <1>6, <1>7 DEF Next, Progress, Within

\* For any number of threads, processes and keys: no process pays for an answer
\* it has stored, for it looks once more when it has the flight (the second
\* lookup of LLMCaller.call).
THEOREM NeverResent == Spec => []NoResend
<1>1. Init => NoResend
  BY DEF Init, NoResend
<1>. QED
  BY <1>1, FlightsSound, ResendStep, PTL DEF Spec

-----------------------------------------------------------------------------
(* The budget.  A permit is reserved when a call is admitted and settled    *)
(* when it leaves the protected section, on each of the paths out of it.    *)

Metered ==
  /\ spent \in [Process -> Int] /\ reserved \in [Process -> Int]
  /\ used \in [Thread -> Usage \cup {0}]

MoneyInv == Metered /\ BudgetKept

LEMMA OverrunBounds ==
  Overrun \in Nat /\ \A u \in Usage \cup {0} : u <= Estimate + Overrun
<1>1. CASE \E u \in Usage : u > Estimate
  <2>1. PICK top \in Usage : top = CHOOSE u \in Usage : \A v \in Usage : v <= u
    BY ConstantsOK
  <2>2. \A v \in Usage : v <= top
    BY <2>1, ConstantsOK
  <2>3. top \in Nat /\ Estimate \in Nat /\ top > Estimate
    BY <1>1, <2>2, ConstantsOK
  <2>4. Overrun = top - Estimate
    BY <1>1, <2>1 DEF Overrun
  <2>5. Overrun \in Nat /\ top = Estimate + Overrun
    BY <2>3, <2>4
  <2>. QED
    BY <2>2, <2>3, <2>5
<1>2. CASE ~\E u \in Usage : u > Estimate
  BY <1>2, ConstantsOK DEF Overrun
<1>. QED
  BY <1>1, <1>2

Hosted(p) == {t \in Thread : HostOf[t] = p}

LEMMA PermitsFinite ==
  ASSUME NEW p
  PROVE  /\ IsFiniteSet(Permits(p)) /\ IsFiniteSet(Permits(p)')
         /\ Cardinality(Permits(p)) \in Nat /\ Cardinality(Permits(p)') \in Nat
         /\ Cardinality(Hosted(p)) \in Nat
         /\ Cardinality(Permits(p)') <= Cardinality(Hosted(p))
<1>1. IsFiniteSet(Hosted(p))
  BY ConstantsOK, FS_Subset DEF Hosted
<1>2. Permits(p) \in SUBSET Hosted(p) /\ Permits(p)' \in SUBSET Hosted(p)
  BY DEF Permits, Hosted
<1>. QED
  BY <1>1, <1>2, FS_Subset, FS_CardinalityType

\* what BudgetKept says of one process
Kept(p) ==
  /\ reserved[p] = Estimate * Cardinality(Permits(p))
  /\ spent[p] + reserved[p] + Overrun * Cardinality(Permits(p)) <=
       MaxTokens + Overrun * Cardinality(Hosted(p))

LEMMA KeptIsBudget == /\ BudgetKept <=> \A p \in Process : Kept(p)
                      /\ BudgetKept' <=> \A p \in Process : Kept(p)'
BY DEF BudgetKept, Kept, Hosted

\* a process none of whose permits or tokens changes
LEMMA KeptSame ==
  ASSUME NEW p \in Process, Kept(p), Permits(p)' = Permits(p),
         spent'[p] = spent[p], reserved'[p] = reserved[p]
  PROVE  Kept(p)'
BY DEF Kept, Hosted

LEMMA KeptReserve ==
  ASSUME NEW p \in Process, NEW t \in Thread, MoneyInv,
         t \notin Permits(p), Permits(p)' = Permits(p) \cup {t},
         Fits(p), Reserve(p)
  PROVE  Kept(p)'
<1>. DEFINE n == Cardinality(Permits(p))
            m == Cardinality(Permits(p)')
<1>1. m = n + 1 /\ n \in Nat /\ m \in Nat /\ m <= Cardinality(Hosted(p))
  <2>1. IsFiniteSet(Permits(p))
    BY PermitsFinite
  <2>2. Cardinality(Permits(p) \cup {t}) = n + 1
    BY <2>1, FS_AddElement
  <2>. QED
    BY <2>2, PermitsFinite
<1>2. /\ spent'[p] = spent[p] /\ reserved'[p] = reserved[p] + Estimate
      /\ spent[p] \in Int /\ reserved[p] \in Int
      /\ spent[p] + reserved[p] + Estimate <= MaxTokens
      /\ reserved[p] = Estimate * n
  BY KeptIsBudget DEF Reserve, Fits, MoneyInv, Metered, Kept
<1>3. Overrun \in Nat /\ Estimate \in Nat /\ MaxTokens \in Nat /\ Cardinality(Hosted(p)) \in Nat
  BY OverrunBounds, ConstantsOK, PermitsFinite
<1>. HIDE DEF n, m
<1>4. Estimate * m = Estimate * n + Estimate
  BY <1>1, <1>3
<1>5. Overrun * m <= Overrun * Cardinality(Hosted(p))
  BY <1>1, <1>3
<1>6. Overrun * m \in Int /\ Overrun * Cardinality(Hosted(p)) \in Int
  BY <1>1, <1>3
<1>7. /\ reserved'[p] = Estimate * m
      /\ spent'[p] + reserved'[p] + Overrun * m <= MaxTokens + Overrun * Cardinality(Hosted(p))
  BY <1>2, <1>3, <1>4, <1>5, <1>6
<1>. QED
  BY <1>7 DEF Kept, m, Hosted

\* a permit that goes takes at most its estimate and the overrun along
LEMMA KeptSettle ==
  ASSUME NEW p \in Process, NEW t \in Thread, NEW x \in Int, MoneyInv,
         t \in Permits(p), Permits(p)' = Permits(p) \ {t},
         reserved'[p] = reserved[p] - Estimate, spent'[p] = spent[p] + x,
         x <= Estimate + Overrun
  PROVE  Kept(p)'
<1>. DEFINE n == Cardinality(Permits(p))
            m == Cardinality(Permits(p)')
<1>1. m = n - 1 /\ n \in Nat /\ m \in Nat
  <2>1. IsFiniteSet(Permits(p))
    BY PermitsFinite
  <2>2. Cardinality(Permits(p) \ {t}) = n - 1
    BY <2>1, FS_RemoveElement
  <2>. QED
    BY <2>2, PermitsFinite
<1>2. /\ spent[p] \in Int /\ reserved[p] \in Int
      /\ reserved[p] = Estimate * n
      /\ spent[p] + reserved[p] + Overrun * n <= MaxTokens + Overrun * Cardinality(Hosted(p))
  BY KeptIsBudget DEF MoneyInv, Metered, Kept
<1>3. Overrun \in Nat /\ Estimate \in Nat /\ MaxTokens \in Nat /\ Cardinality(Hosted(p)) \in Nat
  BY OverrunBounds, ConstantsOK, PermitsFinite
<1>. HIDE DEF n, m
<1>4. Estimate * m = Estimate * n - Estimate /\ Overrun * m = Overrun * n - Overrun
  BY <1>1, <1>3
<1>5. Overrun * m \in Int /\ Overrun * n \in Int /\ Overrun * Cardinality(Hosted(p)) \in Int
  BY <1>1, <1>3
<1>6. /\ reserved'[p] = Estimate * m
      /\ spent'[p] + reserved'[p] + Overrun * m <= MaxTokens + Overrun * Cardinality(Hosted(p))
  BY <1>2, <1>3, <1>4, <1>5
<1>. QED
  BY <1>6 DEF Kept, m, Hosted

\* A step of one thread that keeps, takes or settles its permit.
Keeps(t) ==
  /\ UNCHANGED money
  /\ pc'[t] \in Permitted <=> pc[t] \in Permitted

Takes(t) ==
  /\ pc[t] \notin Permitted /\ pc'[t] \in Permitted
  /\ Fits(HostOf[t]) /\ Reserve(HostOf[t])

Settles(t) ==
  /\ pc[t] \in Permitted /\ pc'[t] \notin Permitted
  /\ \E x \in Usage \cup {0, Estimate} :
       /\ spent' = [spent EXCEPT ![HostOf[t]] = @ + x]
       /\ reserved' = [reserved EXCEPT ![HostOf[t]] = @ - Estimate]

LEMMA MoneyKept ==
  ASSUME NEW t \in Thread, MoneyInv, Keeps(t) \/ Takes(t) \/ Settles(t),
         \A u \in Thread : u # t => pc'[u] = pc[u]
  PROVE  BudgetKept'
<1>. SUFFICES ASSUME NEW p \in Process PROVE Kept(p)'
  BY KeptIsBudget
<1>1. Kept(p)
  BY KeptIsBudget DEF MoneyInv
<1>2. /\ spent \in [Process -> Int] /\ reserved \in [Process -> Int]
      /\ HostOf[t] \in Process
  BY ConstantsOK DEF MoneyInv, Metered
<1>3. CASE Keeps(t)
  <2>1. Permits(p)' = Permits(p)
    BY <1>3 DEF Keeps, Permits
  <2>. QED
    BY <1>1, <1>3, <2>1, KeptSame DEF Keeps, money
<1>4. CASE (Takes(t) \/ Settles(t)) /\ p # HostOf[t]
  <2>1. Permits(p)' = Permits(p)
    BY <1>4 DEF Permits
  <2>2. spent'[p] = spent[p] /\ reserved'[p] = reserved[p]
    BY <1>2, <1>4 DEF Takes, Settles, Reserve
  <2>. QED
    BY <1>1, <2>1, <2>2, KeptSame
<1>5. CASE Takes(t) /\ p = HostOf[t]
  <2>1. t \notin Permits(p) /\ Permits(p)' = Permits(p) \cup {t}
    BY <1>5 DEF Takes, Permits
  <2>. QED
    BY <1>5, <2>1, KeptReserve DEF Takes
<1>6. CASE Settles(t) /\ p = HostOf[t]
  <2>1. t \in Permits(p) /\ Permits(p)' = Permits(p) \ {t}
    BY <1>6 DEF Settles, Permits
  <2>2. PICK x \in Usage \cup {0, Estimate} :
          spent'[p] = spent[p] + x /\ reserved'[p] = reserved[p] - Estimate
    BY <1>2, <1>6 DEF Settles
  <2>3. x \in Int /\ x <= Estimate + Overrun
    BY ConstantsOK, OverrunBounds
  <2>. QED
    BY <2>1, <2>2, <2>3, KeptSettle
<1>. QED
  BY <1>3, <1>4, <1>5, <1>6

LEMMA MoneyTyped ==
  ASSUME NEW t \in Thread, Metered, Keeps(t) \/ Takes(t) \/ Settles(t)
  PROVE  spent' \in [Process -> Int] /\ reserved' \in [Process -> Int]
<1>1. CASE Keeps(t) \/ Takes(t)
  BY <1>1, ConstantsOK DEF Keeps, Takes, Reserve, Metered, money
<1>2. CASE Settles(t)
  <2>1. PICK x \in Usage \cup {0, Estimate} :
          /\ spent' = [spent EXCEPT ![HostOf[t]] = @ + x]
          /\ reserved' = [reserved EXCEPT ![HostOf[t]] = @ - Estimate]
    BY <1>2 DEF Settles
  <2>2. /\ spent \in [Process -> Int] /\ reserved \in [Process -> Int]
        /\ \A p \in Process : spent[p] + x \in Int /\ reserved[p] - Estimate \in Int
    BY ConstantsOK DEF Metered
  <2>3. spent' \in [Process -> Int]
    BY <2>1, <2>2
  <2>4. reserved' \in [Process -> Int]
    BY <2>1, <2>2
  <2>. QED
    BY <2>3, <2>4
<1>. QED
  BY <1>1, <1>2

\* every action of a call is one of the three
LEMMA ProgressMoney ==
  ASSUME NEW t \in Thread, Typing, Metered, Progress(t) \/ \E k \in Key : Call(t, k)
  PROVE  /\ Keeps(t) \/ Takes(t) \/ Settles(t)
         /\ \A u \in Thread : u # t => pc'[u] = pc[u]
         /\ used' \in [Thread -> Usage \cup {0}]
<1>. USE DEF Goto, Permitted, Typing, Metered
<1>1. CASE Join(t) \/ (\E k \in Key : Call(t, k)) \/ Leave(t)
  BY <1>1 DEF Join, Call, Leave, Keeps, locks
<1>2. CASE Enter(t) \/ OpenKey(t) \/ LockKey(t) \/ KeyTimedOut(t) \/ UnlockKey(t) \/ UnlinkKey(t)
  BY <1>2 DEF Enter, OpenKey, LockKey, KeyTimedOut, UnlockKey, UnlinkKey, Keeps
<1>3. CASE Drop(t)
  BY <1>3 DEF Drop, Return, Keeps
<1>4. CASE Answer(t) \/ TakeSlot(t) \/ Send(t) \/ (\E u \in Usage : Respond(t, u)) \/ StoreResponse(t)
  BY <1>4 DEF Answer, TakeSlot, Send, Respond, StoreResponse, Unwind, Keeps
<1>5. CASE Admit(t)
  BY <1>5 DEF Admit, Takes
<1>6. CASE BoundaryRefused(t)
  <2>1. spent' = [spent EXCEPT ![HostOf[t]] = @ + 0]
    BY <1>6, ConstantsOK DEF BoundaryRefused, Cancel
  <2>. QED
    BY <1>6, <2>1 DEF BoundaryRefused, Cancel, Unwind, Settles
<1>7. CASE SendFails(t) \/ Settle(t) \/ StoreFails(t)
  BY <1>7 DEF SendFails, Settle, StoreFails, Charge, Unwind, Settles
<1>. QED
  BY <1>1, <1>2, <1>3, <1>4, <1>5, <1>6, <1>7 DEF Progress

LEMMA MoneyStep == FlightInv /\ MoneyInv /\ [Next]_vars => MoneyInv'
<1>. SUFFICES ASSUME FlightInv, MoneyInv, [Next]_vars PROVE MoneyInv'
  OBVIOUS
<1>. USE DEF MoneyInv
<1>1. CASE \E t \in Thread : Progress(t) \/ \E k \in Key : Call(t, k)
  BY <1>1, ProgressMoney, MoneyKept, MoneyTyped DEF FlightInv, Metered
<1>2. CASE \E p \in Process : Crash(p)
  <2>. PICK p \in Process : Crash(p)
    BY <1>2
  <2>1. Metered'
    BY DEF Crash, Metered
  <2>2. ASSUME NEW q \in Process, q # p PROVE Kept(q)'
    <3>1. Permits(q)' = Permits(q)
      BY <2>2 DEF Permits, Crash
    <3>2. spent'[q] = spent[q] /\ reserved'[q] = reserved[q] /\ Kept(q)
      BY <2>2, KeptIsBudget DEF Crash, Metered
    <3>. QED
      BY <3>1, <3>2, KeptSame
  <2>3. Kept(p)'
    <3>1. Permits(p)' = {}
      BY DEF Permits, Crash, Permitted
    <3>2. Cardinality(Permits(p)') = 0
      BY <3>1, FS_EmptySet
    <3>3. spent'[p] = 0 /\ reserved'[p] = 0
      BY DEF Crash, Metered
    <3>4. /\ Overrun \in Nat /\ Estimate \in Nat /\ MaxTokens \in Nat
          /\ Cardinality(Hosted(p)) \in Nat
      BY OverrunBounds, ConstantsOK, PermitsFinite
    <3>5. Overrun * Cardinality(Hosted(p)) \in Nat /\ Overrun * 0 = 0 /\ Estimate * 0 = 0
      BY <3>4
    <3>. QED
      BY <3>2, <3>3, <3>4, <3>5 DEF Kept, Hosted
  <2>. QED
    BY <2>1, <2>2, <2>3, KeptIsBudget
<1>3. CASE UNCHANGED vars
  <2>1. Metered'
    BY <1>3 DEF vars, money, Metered
  <2>2. ASSUME NEW p \in Process PROVE Kept(p)'
    BY <1>3, KeptIsBudget, KeptSame DEF vars, money, Permits
  <2>. QED
    BY <2>1, <2>2, KeptIsBudget
<1>. QED
  BY <1>1, <1>2, <1>3 DEF Next

LEMMA MoneyInit == Init => MoneyInv
<1>. SUFFICES ASSUME Init PROVE MoneyInv
  OBVIOUS
<1>1. Metered
  BY DEF Init, Metered
<1>2. ASSUME NEW p \in Process PROVE Kept(p)
  <2>1. Permits(p) = {} /\ Cardinality(Permits(p)) = 0
    BY FS_EmptySet DEF Init, Permits, Permitted
  <2>2. /\ Overrun \in Nat /\ Estimate \in Nat /\ MaxTokens \in Nat
        /\ Cardinality(Hosted(p)) \in Nat
    BY OverrunBounds, ConstantsOK, PermitsFinite
  <2>3. Overrun * Cardinality(Hosted(p)) \in Nat /\ Overrun * 0 = 0 /\ Estimate * 0 = 0
    BY <2>2
  <2>. QED
    BY <2>1, <2>2, <2>3 DEF Init, Kept
<1>. QED
  BY <1>1, <1>2, KeptIsBudget DEF MoneyInv

\* For any estimate, responses and limits: on every path out of a call its
\* permit is given back, and a process exceeds its limit by no more than the
\* responses under way exceed their estimates (Budget).
THEOREM BudgetIsKept == Spec => []BudgetKept
<1>1. Spec => []MoneyInv
  BY MoneyInit, MoneyStep, FlightsSound, PTL DEF Spec
<1>. QED
  BY <1>1, PTL DEF MoneyInv

=============================================================================
