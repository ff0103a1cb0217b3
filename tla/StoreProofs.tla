----------------------------- MODULE StoreProofs -----------------------------
(* What the store promises, for any producers, places and declarations:      *)
(* what a producer has published stays or is set aside (PublishedKept), and  *)
(* a publication that ends is whole, undone, or one that asks for a recovery *)
(* (AllOrNothing), which is Publication; and for any processes, keys, blobs  *)
(* and number of retained runs: a collection keeps what the retained runs    *)
(* had settled before it began (SettledKept), which is Retention.            *)
EXTENDS Publication, Retention, FiniteSetTheorems, SequenceTheorems, TLAPS

\* Names lead to places; an item belongs to one aggregate, the map it is an
\* item of (dag.py, map_node_name); producers are not the markers of the model.
Hypotheses ==
  /\ PlaceOf \in [Output -> Place]
  /\ Declares \in [Producer -> Seq(Output)]
  /\ ItemsOf \in [Producer -> SUBSET Producer]
  /\ \A p, q \in Producer : ItemsOf[p] \cap ItemsOf[q] # {} => p = q
  /\ NoTurn \notin Producer /\ NoFile \notin Producer
  /\ MaxFaults \in Nat

Files == Producer \cup {Older, NoFile}
Busy == turn # NoTurn
Size(p) == Len(Declares[p])

-----------------------------------------------------------------------------
(* The inductive invariant.                                                  *)

Typed ==
  /\ disk \in [Place -> Files] /\ before \in [Place -> Files]
  /\ owners \subseteq Place \X Producer
  /\ turn \in Producer \cup {NoTurn}
  /\ outcome \in [Producer ->
       {"none", "published", "failed", "refused", "unrecovered", "done", "invalid"}]
  /\ backup \in Seq(Files) /\ changes \in Seq([saved: BOOLEAN, installed: BOOLEAN])
  /\ unable \in BOOLEAN /\ faults \in Nat
  /\ keptAside \subseteq Place \X Files

\* where the holder of the lock is, and what it has not done yet
Stages ==
  /\ ~Busy => stage = "idle" /\ backup = <<>> /\ changes = <<>> /\ claimed = {}
  /\ Busy =>
       /\ stage \in {"stage", "claim", "commit", "rollback"}
       /\ outcome[turn] \in {"none", "done"}
       /\ stage \in {"stage", "claim"} => changes = <<>> /\ claimed = {}
       /\ stage # "rollback" => ~unable
       /\ stage # "stage" => ~Duplicates(turn)
       /\ Len(backup) = Len(changes) /\ Len(changes) <= Size(turn)

\* what an aggregate is made of was published before it
Items ==
  /\ \A p \in Producer : outcome[p] = "published" \/ p = turn =>
       \A q \in ItemsOf[p] : outcome[q] = "published"

\* Who has published owns its places, or an item of it does; and so does who
\* has claimed them, with nobody in them whom it may not share them with.
Owned ==
  \A p \in Producer : outcome[p] = "published" =>
    \A pl \in PlaceSet(p) : \E q \in {p} \cup ItemsOf[p] : <<pl, q>> \in owners

Claimed ==
  Busy =>
    /\ claimed \subseteq Place \X {turn}
    /\ stage \in {"commit", "rollback"} =>
         \A pl \in PlaceSet(turn) :
           /\ \E q \in Producer : <<pl, q>> \in owners
           /\ \A q \in Producer : <<pl, q>> \in owners => MayShare(turn, q)

\* What was published before this turn was in place, or set aside.
HeldIn(d) ==
  \A p \in Producer : outcome[p] = "published" =>
    \A pl \in PlaceSet(p) : \E f \in Holders(p) : d[pl] = f \/ <<pl, f>> \in keptAside

Held == HeldIn(IF Busy THEN before ELSE disk)

\* The disk and the rollback directory together are what was before: each
\* change stands between a file that is kept and what is in its place; any other
\* place is as it was, but for those whose restoration failed.
Touched(pl) == \E i \in DOMAIN changes : Destination(i) = pl

Backed ==
  Busy =>
    /\ \A i \in DOMAIN changes :
         /\ backup[i] = before[Destination(i)]
         /\ changes[i].saved <=> backup[i] # NoFile
         /\ disk[Destination(i)] = IF changes[i].installed THEN turn ELSE NoFile
         /\ stage = "commit" => changes[i].installed
    /\ \A pl \in Place : ~Touched(pl) =>
         \/ disk[pl] = before[pl]
         \/ (unable /\ (before[pl] # NoFile => <<pl, before[pl]>> \in keptAside))

IInv == Typed /\ Stages /\ Items /\ Owned /\ Claimed /\ Held /\ Backed

-----------------------------------------------------------------------------
(* The operators.                                                            *)

LEMMA PlacesAre ==
  ASSUME Hypotheses, NEW p \in Producer
  PROVE  /\ DOMAIN Places(p) = 1..Size(p) /\ Size(p) \in Nat
         /\ \A i \in 1..Size(p) : Places(p)[i] \in PlaceSet(p)
         /\ PlaceSet(p) \subseteq Place
         /\ \A pl \in PlaceSet(p) : \E i \in 1..Size(p) : Places(p)[i] = pl
<1>1. Declares[p] \in Seq(Output)
  BY DEF Hypotheses
<1>2. Size(p) \in Nat /\ DOMAIN Declares[p] = 1..Size(p) /\ \A i \in 1..Size(p) : Declares[p][i] \in Output
  BY <1>1 DEF Size
<1>3. DOMAIN Places(p) = 1..Size(p) /\ \A i \in 1..Size(p) : Places(p)[i] = PlaceOf[Declares[p][i]]
  BY <1>2 DEF Places
<1>4. \A i \in 1..Size(p) : Places(p)[i] \in Place
  BY <1>2, <1>3 DEF Hypotheses
<1>5. PlaceSet(p) = {Places(p)[i] : i \in 1..Size(p)}
  BY <1>2 DEF PlaceSet
<1> QED BY <1>2, <1>3, <1>4, <1>5

\* Names that are not duplicates are as many places as there are names.
LEMMA OnePlaceEach ==
  ASSUME Hypotheses, NEW p \in Producer, ~Duplicates(p),
         NEW i \in 1..Size(p), NEW j \in 1..Size(p), Places(p)[i] = Places(p)[j]
  PROVE  i = j
<1> DEFINE f == [k \in 1..Size(p) |-> Places(p)[k]]
<1>1. Size(p) \in Nat
  BY PlacesAre
<1>2. IsFiniteSet(1..Size(p)) /\ Cardinality(1..Size(p)) = Size(p)
  BY <1>1, FS_Interval
<1>3. f \in Surjection(1..Size(p), PlaceSet(p))
  <2>1. \A k \in 1..Size(p) : Places(p)[k] \in PlaceSet(p)
    BY PlacesAre
  <2>2. \A pl \in PlaceSet(p) : \E k \in 1..Size(p) : Places(p)[k] = pl
    BY PlacesAre
  <2> QED BY <2>1, <2>2 DEF Surjection
<1>f. f[i] = Places(p)[i] /\ f[j] = Places(p)[j]
  OBVIOUS
<1> HIDE DEF f
<1>4. Cardinality(PlaceSet(p)) <= Size(p)
      /\ (Cardinality(PlaceSet(p)) = Size(p) <=> f \in Injection(1..Size(p), PlaceSet(p)))
  BY <1>2, <1>3, FS_Surjection
<1>5. Cardinality(PlaceSet(p)) \in Nat
  BY <1>2, <1>3, FS_Surjection, FS_CardinalityType
<1>6. ~(Cardinality(PlaceSet(p)) < Size(p))
  BY DEF Duplicates, Size
<1>7. f \in Injection(1..Size(p), PlaceSet(p))
  BY <1>1, <1>4, <1>5, <1>6
<1>8. DOMAIN f = 1..Size(p)
  BY <1>7 DEF Injection
<1> QED BY <1>7, <1>8, <1>f DEF Injection, IsInjective

LEMMA Fronts ==
  ASSUME NEW S, NEW s \in Seq(S), s # <<>>
  PROVE  /\ Front(s) \in Seq(S) /\ Len(s) \in Nat \ {0} /\ Len(Front(s)) = Len(s) - 1
         /\ \A i \in 1..(Len(s) - 1) : Front(s)[i] = s[i]
<1>1. Len(s) \in Nat \ {0}
  OBVIOUS
<1>2. 1 \in 1..(Len(s) + 1) /\ Len(s) - 1 \in 0..Len(s)
  BY <1>1
<1>3. /\ SubSeq(s, 1, Len(s) - 1) \in Seq(S)
      /\ Len(SubSeq(s, 1, Len(s) - 1)) = IF 1 <= Len(s) - 1 THEN (Len(s) - 1) - 1 + 1 ELSE 0
      /\ \A i \in 1..((Len(s) - 1) - 1 + 1) : SubSeq(s, 1, Len(s) - 1)[i] = s[1 + i - 1]
  BY <1>2, SubSeqProperties
<1> DEFINE t == SubSeq(s, 1, Len(s) - 1)
<1>4. t \in Seq(S) /\ t = Front(s)
  BY <1>3 DEF Front
<1> HIDE DEF t
<1>5. Len(t) = Len(s) - 1
  <2>1. Len(t) = IF 1 <= Len(s) - 1 THEN (Len(s) - 1) - 1 + 1 ELSE 0
    BY <1>3, Zenon DEF t
  <2>2. \A n \in Nat \ {0} : (IF 1 <= n - 1 THEN (n - 1) - 1 + 1 ELSE 0) = n - 1
    OBVIOUS
  <2> QED BY <1>1, <2>1, <2>2, Zenon
<1>6. ASSUME NEW i \in 1..(Len(s) - 1)
      PROVE  t[i] = s[i]
  <2>1. i \in 1..((Len(s) - 1) - 1 + 1) /\ 1 + i - 1 = i
    BY <1>1
  <2> QED BY <2>1, <1>3 DEF t
<1> QED BY <1>1, <1>4, <1>5, <1>6

LEMMA HoldersAre ==
  ASSUME Hypotheses, NEW p \in Producer
  PROVE  /\ Holders(p) \subseteq Producer /\ p \in Holders(p) /\ NoFile \notin Holders(p)
         /\ \A q \in Producer : p \in ItemsOf[q] => q \in Holders(p)
BY DEF Holders, Hypotheses

-----------------------------------------------------------------------------
(* The ends of a turn.                                                       *)

\* Nothing is changed any more: the places are as they were before.
LEMMA HeldAgain ==
  ASSUME Hypotheses, IInv, Busy, changes = <<>>
  PROVE  /\ HeldIn(disk)
         /\ ~unable => disk = before
         /\ AsideOrBack(disk, keptAside)
<1>1. \A pl \in Place : disk[pl] = before[pl]
                        \/ (unable /\ (before[pl] # NoFile => <<pl, before[pl]>> \in keptAside))
  <2>1. \A pl \in Place : ~Touched(pl)
    BY DEF Touched
  <2>2. Backed
    BY DEF IInv
  <2>3. \A pl \in Place : ~Touched(pl) =>
         \/ disk[pl] = before[pl]
         \/ (unable /\ (before[pl] # NoFile => <<pl, before[pl]>> \in keptAside))
    BY <2>2, Zenon DEF Backed
  <2> QED BY <2>1, <2>3, Zenon
<1>2. HeldIn(disk)
  <2> SUFFICES ASSUME NEW p \in Producer, outcome[p] = "published", NEW pl \in PlaceSet(p)
               PROVE  \E f \in Holders(p) : disk[pl] = f \/ <<pl, f>> \in keptAside
    BY DEF HeldIn
  <2>1. PICK f \in Holders(p) : before[pl] = f \/ <<pl, f>> \in keptAside
    BY DEF IInv, Held, HeldIn
  <2>2. pl \in Place /\ f # NoFile
    BY PlacesAre, HoldersAre
  <2> QED BY <1>1, <2>1, <2>2
<1>3. ~unable => disk = before
  <2>1. disk \in [Place -> Files] /\ before \in [Place -> Files]
    BY DEF IInv, Typed
  <2>2. ~unable => \A pl \in Place : disk[pl] = before[pl]
    BY <1>1, Zenon
  <2> QED BY <2>1, <2>2
<1>4. AsideOrBack(disk, keptAside)
  BY <1>1 DEF AsideOrBack
<1> QED BY <1>2, <1>3, <1>4

\* Every output is installed: the holder has its places, and shares them with
\* those whose files were there.
LEMMA HeldInstalled ==
  ASSUME Hypotheses, IInv, Busy, stage = "commit", ~(Len(changes) + 1 <= Size(turn))
  PROVE  /\ HeldIn(disk)
         /\ \A pl \in Place : disk[pl] = IF pl \in PlaceSet(turn) THEN turn ELSE before[pl]
<1>t. turn \in Producer /\ ~unable
  BY DEF IInv, Typed, Stages, Busy
<1>1. DOMAIN changes = 1..Size(turn)
  BY <1>t, PlacesAre DEF IInv, Typed, Stages
<1>2. \A pl \in PlaceSet(turn) : disk[pl] = turn
  <2> TAKE pl \in PlaceSet(turn)
  <2>1. PICK i \in 1..Size(turn) : Places(turn)[i] = pl
    BY <1>t, PlacesAre
  <2> QED BY <1>1, <2>1 DEF IInv, Backed, Destination
<1>3. \A pl \in Place : pl \notin PlaceSet(turn) => disk[pl] = before[pl]
  <2>1. \A i \in DOMAIN changes : Destination(i) \in PlaceSet(turn)
    BY <1>t, <1>1, PlacesAre DEF Destination
  <2> QED BY <1>t, <2>1 DEF IInv, Backed, Touched
<1>4. HeldIn(disk)
  <2> SUFFICES ASSUME NEW p \in Producer, outcome[p] = "published", NEW pl \in PlaceSet(p)
               PROVE  \E f \in Holders(p) : disk[pl] = f \/ <<pl, f>> \in keptAside
    BY DEF HeldIn
  <2>0. pl \in Place
    BY PlacesAre
  <2>1. CASE pl \notin PlaceSet(turn)
    BY <2>0, <2>1, <1>3 DEF IInv, Held, HeldIn
  <2>2. CASE pl \in PlaceSet(turn)
    <3>1. PICK q \in {p} \cup ItemsOf[p] : <<pl, q>> \in owners
      BY DEF IInv, Owned
    <3>2. q \in Producer /\ outcome[q] = "published"
      BY <3>1 DEF IInv, Items, Hypotheses
    <3>3. MayShare(turn, q)
      BY <2>2, <3>1, <3>2 DEF IInv, Claimed
    <3>4. outcome[turn] # "published"
      BY DEF IInv, Stages
    <3>5. q \in ItemsOf[turn]
      BY <3>2, <3>3, <3>4 DEF MayShare
    <3>6. p \in ItemsOf[turn]
      <4>1. CASE q = p
        BY <4>1, <3>5
      <4>2. CASE q \in ItemsOf[p]
        <5>1. ItemsOf[p] \cap ItemsOf[turn] # {}
          BY <4>2, <3>5
        <5>2. p = turn
          BY <5>1, <1>t DEF Hypotheses
        <5> QED BY <5>2, <3>4
      <4> QED BY <3>1, <4>1, <4>2
    <3> QED BY <1>t, <1>2, <2>2, <3>6, HoldersAre
  <2> QED BY <2>1, <2>2
<1> QED BY <1>2, <1>3, <1>4

Outcomes == {"published", "failed", "refused", "unrecovered"}

\* The lock is given back.
LEMMA LeaveKeeps ==
  ASSUME Hypotheses, IInv, Busy, HeldIn(disk), faults' \in Nat,
         NEW result, NEW out \in Outcomes, LeaveTurn(result, out),
         out = "published" <=> result = "published",
         UNCHANGED <<disk, keptAside>>,
         out = "published" => stage = "commit" /\ \A pl \in PlaceSet(turn) : disk[pl] = turn
  PROVE  IInv'
<1>t. turn \in Producer
  BY DEF IInv, Typed, Busy
<1>o. \A p \in Producer : outcome'[p] = IF p = turn THEN out ELSE outcome[p]
  BY <1>t DEF LeaveTurn, IInv, Typed
<1>b. ~Busy' /\ turn' = NoTurn
  BY DEF LeaveTurn, Busy
<1>n. \A p \in Producer : p # turn'
  BY <1>b DEF Hypotheses
<1>u. outcome[turn] # "published"
  BY DEF IInv, Stages
<1>1. Typed'
  <2>1. outcome' \in [Producer ->
          {"none", "published", "failed", "refused", "unrecovered", "done", "invalid"}]
    BY <1>t DEF LeaveTurn, IInv, Typed, Outcomes
  <2>2. owners' \subseteq Place \X Producer
    BY DEF LeaveTurn, IInv, Typed
  <2>3. backup' = <<>> /\ changes' = <<>> /\ unable' = FALSE /\ before' = before
    BY DEF LeaveTurn
  <2>4. backup' \in Seq(Files) /\ changes' \in Seq([saved: BOOLEAN, installed: BOOLEAN])
    BY <2>3
  <2> QED BY <2>1, <2>2, <2>3, <2>4, <1>b DEF IInv, Typed
<1>2. Stages'
  BY <1>b DEF LeaveTurn, Stages
<1>3. Items'
  BY <1>o, <1>n, <1>u DEF IInv, Items, Hypotheses
<1>4. Owned'
  <2> SUFFICES ASSUME NEW p \in Producer, outcome'[p] = "published", NEW pl \in PlaceSet(p)
               PROVE  \E q \in {p} \cup ItemsOf[p] : <<pl, q>> \in owners'
    BY DEF Owned
  <2>1. CASE p = turn
    <3>1. result = "published" /\ stage = "commit"
      BY <2>1, <1>o
    <3>2. owners' = owners
      BY <3>1 DEF LeaveTurn
    <3>3. PICK q \in Producer : <<pl, q>> \in owners /\ MayShare(turn, q)
      BY <2>1, <3>1 DEF IInv, Claimed
    <3> QED BY <2>1, <3>2, <3>3 DEF MayShare
  <2>2. CASE p # turn
    <3>1. outcome[p] = "published"
      BY <2>2, <1>o
    <3>2. PICK q \in {p} \cup ItemsOf[p] : <<pl, q>> \in owners
      BY <3>1 DEF IInv, Owned
    <3>3. outcome[q] = "published"
      BY <3>1, <3>2 DEF IInv, Items
    <3>4. <<pl, q>> \notin claimed
      BY <3>3, <1>u DEF IInv, Claimed
    <3> QED BY <3>2, <3>4 DEF LeaveTurn
  <2> QED BY <2>1, <2>2
<1>5. Claimed'
  BY <1>b DEF Claimed
<1>6. Held'
  <2>1. HeldIn(disk)'
    <3> SUFFICES ASSUME NEW p \in Producer, outcome'[p] = "published", NEW pl \in PlaceSet(p)
                 PROVE  \E f \in Holders(p) : disk[pl] = f \/ <<pl, f>> \in keptAside
      BY DEF HeldIn
    <3>1. CASE p = turn
      BY <3>1, <1>o, <1>t, HoldersAre
    <3>2. CASE p # turn
      BY <3>2, <1>o DEF HeldIn
    <3> QED BY <3>1, <3>2
  <2> QED BY <2>1, <1>b DEF Held
<1>7. Backed'
  BY <1>b DEF Backed
<1> QED BY <1>1, <1>2, <1>3, <1>4, <1>5, <1>6, <1>7 DEF IInv

-----------------------------------------------------------------------------
(* The steps.                                                                *)

LEMMA InitHolds == ASSUME Hypotheses, PubInit PROVE IInv
<1>1. ~Busy
  BY DEF PubInit, Busy
<1>2. Typed
  <2>1. disk \in [Place -> Files] /\ before \in [Place -> Files]
    BY DEF PubInit, Files
  <2>2. backup \in Seq(Files) /\ changes \in Seq([saved: BOOLEAN, installed: BOOLEAN])
    BY DEF PubInit
  <2> QED BY <2>1, <2>2 DEF PubInit, Typed
<1>3. Stages /\ Claimed /\ Backed
  BY <1>1 DEF PubInit, Stages, Claimed, Backed
<1>4. Items
  BY DEF PubInit, Items, Hypotheses
<1>5. Owned /\ Held
  BY <1>1 DEF PubInit, Owned, Held, HeldIn
<1> QED BY <1>2, <1>3, <1>4, <1>5 DEF IInv

\* Nothing of the invariant is about a completed producer's doubtful files.
LEMMA ValidateKeeps ==
  ASSUME Hypotheses, IInv, NEW p \in Producer, Validate(p) PROVE IInv'
<1>s. /\ UNCHANGED <<disk, owners, turn, stage, claimed, backup, changes, unable,
                     keptAside, before, faults>>
      /\ outcome' = [outcome EXCEPT ![p] = "invalid"] /\ p # turn /\ outcome[p] = "done"
  BY DEF Validate
<1>1. Typed'
  BY <1>s DEF IInv, Typed
<1>o. \A q \in Producer : outcome'[q] = IF q = p THEN "invalid" ELSE outcome[q]
  BY <1>s DEF IInv, Typed
<1>p. \A q \in Producer : outcome'[q] = "published" <=> outcome[q] = "published"
  BY <1>s, <1>o
<1>2. Stages'
  <2>1. Busy => outcome'[turn] = outcome[turn]
    BY <1>s, <1>o DEF IInv, Typed, Busy
  <2>2. Duplicates(turn)' = Duplicates(turn) /\ Size(turn)' = Size(turn) /\ Busy' = Busy
    BY <1>s DEF Duplicates, PlaceSet, Places, Size, Busy
  <2> QED BY <1>s, <2>1, <2>2 DEF IInv, Stages
<1>3. Items'
  <2> SUFFICES ASSUME NEW q \in Producer, outcome'[q] = "published" \/ q = turn',
                      NEW r \in ItemsOf[q]
               PROVE  outcome'[r] = "published"
    BY DEF Items
  <2>1. outcome[q] = "published" \/ q = turn
    BY <1>s, <1>p
  <2>2. r \in Producer /\ outcome[r] = "published"
    BY <2>1 DEF IInv, Items, Hypotheses
  <2> QED BY <2>2, <1>p
<1>4. Owned'
  <2> SUFFICES ASSUME NEW q \in Producer, outcome'[q] = "published", NEW pl \in PlaceSet(q)
               PROVE  \E r \in {q} \cup ItemsOf[q] : <<pl, r>> \in owners'
    BY DEF Owned
  <2> QED BY <1>s, <1>p DEF IInv, Owned
<1>5. Claimed'
  <2>1. Busy' = Busy
    BY <1>s DEF Busy
  <2> QED BY <1>s, <2>1 DEF IInv, Claimed, PlaceSet, Places, MayShare
<1>6. Held'
  <2> SUFFICES ASSUME NEW q \in Producer, outcome'[q] = "published", NEW pl \in PlaceSet(q),
                      NEW d, d = (IF Busy THEN before ELSE disk)
               PROVE  \E f \in Holders(q) : d[pl] = f \/ <<pl, f>> \in keptAside'
    BY <1>s DEF Held, HeldIn, Busy
  <2> QED BY <1>s, <1>p DEF IInv, Held, HeldIn
<1>7. Backed'
  BY <1>s DEF IInv, Backed, Busy, Touched, Destination, Places
<1> QED BY <1>1, <1>2, <1>3, <1>4, <1>5, <1>6, <1>7 DEF IInv

LEMMA EnterKeeps ==
  ASSUME Hypotheses, IInv, NEW p \in Producer, Enter(p) PROVE IInv'
<1>s. /\ turn = NoTurn /\ \A q \in ItemsOf[p] : outcome[q] = "published"
      /\ outcome[p] \in {"none", "done"}
      /\ turn' = p /\ stage' = "stage" /\ claimed' = {} /\ backup' = <<>> /\ changes' = <<>>
      /\ unable' = FALSE /\ before' = disk
      /\ UNCHANGED <<disk, owners, outcome, keptAside, faults>>
  BY DEF Enter
<1>b. ~Busy /\ Busy'
  BY <1>s DEF Busy, Hypotheses
<1>1. Typed'
  <2>1. backup' \in Seq(Files) /\ changes' \in Seq([saved: BOOLEAN, installed: BOOLEAN])
    BY <1>s
  <2> QED BY <1>s, <2>1 DEF IInv, Typed
<1>2. Stages'
  BY <1>s, <1>b, PlacesAre DEF Stages, Size
<1>3. Items'
  BY <1>s DEF IInv, Items
<1>4. Owned'
  BY <1>s DEF IInv, Owned, PlaceSet, Places
<1>5. Claimed'
  BY <1>s DEF Claimed
<1>6. Held'
  <2>1. HeldIn(disk)
    BY <1>b DEF IInv, Held
  <2> QED BY <1>s, <1>b, <2>1 DEF Held, HeldIn, PlaceSet, Places
<1>7. Backed'
  BY <1>s DEF Backed, Touched
<1> QED BY <1>1, <1>2, <1>3, <1>4, <1>5, <1>6, <1>7 DEF IInv

\* What only moves the turn on, its claim perhaps with it.
LEMMA StageKeeps ==
  ASSUME Hypotheses, IInv, Busy, stage = "stage", ~Duplicates(turn), stage' = "claim",
         UNCHANGED <<owners, turn, claimed, backup, changes, unable, outcome, before, faults,
                     disk, keptAside>>
  PROVE  IInv'
<1>b. Busy' /\ Duplicates(turn)' = Duplicates(turn) /\ Size(turn)' = Size(turn)
  BY DEF Busy, Duplicates, PlaceSet, Places, Size
<1>1. Typed' /\ Items'
  BY DEF IInv, Typed, Items
<1>2. Stages'
  BY <1>b DEF IInv, Stages
<1>3. Owned'
  BY DEF IInv, Owned, PlaceSet, Places
<1>4. Claimed'
  BY <1>b DEF IInv, Claimed
<1>5. Held'
  BY <1>b DEF IInv, Held, HeldIn, PlaceSet, Places
<1>6. Backed'
  <2>1. changes = <<>>
    BY DEF IInv, Stages
  <2> QED BY <1>b, <2>1 DEF IInv, Backed, Touched
<1> QED BY <1>1, <1>2, <1>3, <1>4, <1>5, <1>6 DEF IInv

LEMMA ClaimKeeps ==
  ASSUME Hypotheses, IInv, Busy, stage = "claim", ~Conflict(turn),
         claimed' = Unowned(turn) \X {turn}, owners' = owners \cup claimed', stage' = "commit",
         UNCHANGED <<turn, backup, changes, unable, outcome, before, disk, keptAside, faults>>
  PROVE  IInv'
<1>t. turn \in Producer
  BY DEF IInv, Typed, Busy
<1>b. Busy' /\ Duplicates(turn)' = Duplicates(turn) /\ Size(turn)' = Size(turn)
  BY DEF Busy, Duplicates, PlaceSet, Places, Size
<1>u. /\ PlaceSet(turn) \subseteq Place
      /\ Unowned(turn) \subseteq PlaceSet(turn)
      /\ \A pl \in Unowned(turn) : \A q \in Producer : <<pl, q>> \notin owners
      /\ \A pl \in PlaceSet(turn) \ Unowned(turn) : \E q \in Producer : <<pl, q>> \in owners
  <2>1. \A o \in owners : o = <<o[1], o[2]>> /\ o[2] \in Producer
    BY DEF IInv, Typed
  <2>2. PlaceSet(turn) \subseteq Place
    BY <1>t, PlacesAre
  <2>3. \A pl \in Unowned(turn) : \A q \in Producer : <<pl, q>> \notin owners
    BY DEF Unowned
  <2>4. \A pl \in PlaceSet(turn) \ Unowned(turn) : \E o \in owners : o[1] = pl
    BY DEF Unowned
  <2> QED BY <2>1, <2>2, <2>3, <2>4 DEF Unowned
<1>1. Typed'
  BY <1>t, <1>u DEF IInv, Typed
<1>2. Stages'
  BY <1>b DEF IInv, Stages
<1>3. Items'
  BY DEF IInv, Items
<1>4. Owned'
  <2>1. owners \subseteq owners'
    OBVIOUS
  <2> QED BY <2>1 DEF IInv, Owned, PlaceSet, Places
<1>5. Claimed'
  <2>1. claimed' \subseteq Place \X {turn}
    BY <1>u
  <2>2. ASSUME NEW pl \in PlaceSet(turn)
        PROVE  /\ \E q \in Producer : <<pl, q>> \in owners'
               /\ \A q \in Producer : <<pl, q>> \in owners' => MayShare(turn, q)
    <3>1. CASE pl \in Unowned(turn)
      <4>1. <<pl, turn>> \in owners' /\ \A q \in Producer : <<pl, q>> \in owners' => q = turn
        BY <3>1, <1>u
      <4> QED BY <1>t, <4>1 DEF MayShare
    <3>2. CASE pl \notin Unowned(turn)
      <4>1. \A q \in Producer : <<pl, q>> \in owners' => <<pl, q>> \in owners
        BY <3>2
      <4>2. \A q \in Producer : <<pl, q>> \in owners => MayShare(turn, q)
        BY DEF Conflict
      <4> QED BY <3>2, <4>1, <4>2, <1>u
    <3> QED BY <3>1, <3>2
  <2> QED BY <1>b, <2>1, <2>2 DEF Claimed, PlaceSet, Places, MayShare
<1>6. Held'
  BY <1>b DEF IInv, Held, HeldIn, PlaceSet, Places
<1>7. Backed'
  <2>1. changes = <<>>
    BY DEF IInv, Stages
  <2> QED BY <1>b, <2>1 DEF IInv, Backed, Touched
<1> QED BY <1>1, <1>2, <1>3, <1>4, <1>5, <1>6, <1>7 DEF IInv

\* The invariant in steps that change neither whose turn it is nor what anybody
\* owns or has published.
LEMMA SameTurn ==
  ASSUME Hypotheses, IInv, Busy, UNCHANGED <<owners, turn, claimed, outcome, before>>,
         keptAside \subseteq keptAside', Typed', Stages', Backed',
         stage \in {"commit", "rollback"}
  PROVE  IInv'
<1>b. Busy'
  BY DEF Busy
<1>1. Items' /\ Owned'
  BY DEF IInv, Items, Owned, PlaceSet, Places
<1>2. Claimed'
  BY DEF IInv, Claimed, PlaceSet, Places, MayShare
<1>3. Held'
  BY <1>b DEF IInv, Held, HeldIn, PlaceSet, Places
<1> QED BY <1>1, <1>2, <1>3 DEF IInv

LEMMA InstallOne ==
  ASSUME Hypotheses, IInv, Busy, stage = "commit", Len(changes) + 1 <= Size(turn),
         NEW pl, pl = Destination(Len(changes) + 1), NEW installed \in BOOLEAN,
         backup' = Append(backup, disk[pl]),
         changes' = Append(changes, [saved |-> disk[pl] # NoFile, installed |-> installed]),
         disk' = [disk EXCEPT ![pl] = IF installed THEN turn ELSE NoFile],
         stage' = IF installed THEN "commit" ELSE "rollback", faults' \in Nat,
         UNCHANGED <<owners, turn, claimed, unable, outcome, keptAside, before>>
  PROVE  IInv'
<1> DEFINE n == Len(changes) + 1
<1>t. /\ turn \in Producer /\ ~Duplicates(turn) /\ ~unable /\ Len(backup) = Len(changes)
      /\ turn \in Files /\ NoFile \in Files /\ Size(turn) \in Nat
  BY PlacesAre DEF IInv, Typed, Stages, Busy, Files
<1>b. Busy' /\ Duplicates(turn)' = Duplicates(turn) /\ Size(turn)' = Size(turn)
  BY DEF Busy, Duplicates, PlaceSet, Places, Size
<1>c. /\ backup \in Seq(Files) /\ changes \in Seq([saved: BOOLEAN, installed: BOOLEAN])
      /\ Len(changes) \in Nat /\ DOMAIN changes = 1..Len(changes)
      /\ disk \in [Place -> Files]
  BY DEF IInv, Typed
<1>n. n \in 1..Size(turn) /\ pl = Places(turn)[n] /\ pl \in Place /\ disk[pl] \in Files
  <2>1. n \in 1..Size(turn)
    BY <1>t, <1>c
  <2>2. pl = Places(turn)[n]
    BY DEF Destination
  <2>3. pl \in Place
    BY <1>t, <2>1, <2>2, PlacesAre
  <2> QED BY <1>c, <2>1, <2>2, <2>3
<1>a. /\ Len(changes') = n /\ Len(backup') = n /\ DOMAIN changes' = 1..n
      /\ \A i \in DOMAIN changes : changes'[i] = changes[i] /\ backup'[i] = backup[i]
      /\ changes'[n] = [saved |-> disk[pl] # NoFile, installed |-> installed]
      /\ backup'[n] = disk[pl]
      /\ 1..n = DOMAIN changes \cup {n} /\ n \notin DOMAIN changes
  BY <1>t, <1>c, <1>n
<1>d. \A i : Destination(i)' = Destination(i) /\ Destination(i) = Places(turn)[i]
  BY DEF Destination, Places
<1>e. \A i \in DOMAIN changes : Destination(i) # pl
  <2> TAKE i \in DOMAIN changes
  <2>1. i \in 1..Size(turn) /\ i # n
    BY <1>a, <1>c, <1>n, <1>t
  <2> QED BY <2>1, <1>n, <1>d, <1>t, OnePlaceEach
<1> HIDE DEF n
<1>1. Typed'
  <2>1. backup' \in Seq(Files)
    BY <1>c, <1>n
  <2>2. changes' \in Seq([saved: BOOLEAN, installed: BOOLEAN])
    BY <1>c
  <2>3. disk' \in [Place -> Files]
    BY <1>c, <1>t
  <2> QED BY <2>1, <2>2, <2>3 DEF IInv, Typed
<1>2. Stages'
  <2>1. outcome[turn] \in {"none", "done"} /\ n <= Size(turn)
    BY <1>n, <1>t DEF IInv, Stages
  <2> QED BY <1>a, <1>b, <1>t, <2>1 DEF Stages
<1>3. Backed'
  <2>1. ASSUME NEW i \in DOMAIN changes'
        PROVE  /\ backup'[i] = before[Destination(i)]
               /\ changes'[i].saved <=> backup'[i] # NoFile
               /\ disk'[Destination(i)] = IF changes'[i].installed THEN turn ELSE NoFile
               /\ stage' = "commit" => changes'[i].installed
    <3>1. CASE i \in DOMAIN changes
      <4>1. /\ backup[i] = before[Destination(i)]
            /\ changes[i].saved <=> backup[i] # NoFile
            /\ disk[Destination(i)] = IF changes[i].installed THEN turn ELSE NoFile
            /\ changes[i].installed
        BY <3>1 DEF IInv, Backed
      <4>2. Destination(i) \in Place /\ Destination(i) # pl
        BY <3>1, <1>e, <1>d, <1>c, <1>n, <1>t, <1>a, PlacesAre
      <4>3. disk'[Destination(i)] = disk[Destination(i)]
        BY <4>2, <1>c
      <4> QED BY <3>1, <4>1, <4>3, <1>a
    <3>2. CASE i = n
      <4>1. ~Touched(pl)
        BY <1>e DEF Touched
      <4>2. disk[pl] = before[pl]
        BY <4>1, <1>n, <1>t DEF IInv, Backed
      <4>3. Destination(i) = pl
        BY <3>2, <1>n, <1>d
      <4>4. disk'[pl] = IF installed THEN turn ELSE NoFile
        BY <1>c, <1>n
      <4>5. changes'[i].saved = (disk[pl] # NoFile) /\ changes'[i].installed = installed
        BY <3>2, <1>a
      <4>6. backup'[i] = disk[pl]
        BY <3>2, <1>a
      <4>7. stage' = "commit" => installed
        OBVIOUS
      <4> QED BY <4>2, <4>3, <4>4, <4>5, <4>6, <4>7
    <3> QED BY <3>1, <3>2, <1>a
  <2>2. ASSUME NEW q \in Place, ~Touched(q)'
        PROVE  disk'[q] = before[q]
    <3>1. ~Touched(q)
      BY <2>2, <1>a, <1>d DEF Touched
    <3>2. q # pl
      BY <2>2, <1>a, <1>d, <1>n DEF Touched
    <3>3. disk[q] = before[q]
      BY <3>1, <1>t DEF IInv, Backed
    <3> QED BY <3>2, <3>3, <1>c
  <2>3. \A i \in DOMAIN changes' :
          /\ backup'[i] = before'[Destination(i)']
          /\ changes'[i].saved <=> backup'[i] # NoFile
          /\ disk'[Destination(i)'] = IF changes'[i].installed THEN turn' ELSE NoFile
          /\ stage' = "commit" => changes'[i].installed
    <3> TAKE i \in DOMAIN changes'
    <3>1. Destination(i)' = Destination(i)
      BY <1>d, Zenon
    <3>2. before' = before /\ turn' = turn
      OBVIOUS
    <3> QED BY <2>1, <3>1, <3>2
  <2>4. \A q \in Place : ~Touched(q)' => disk'[q] = before'[q]
    BY <2>2
  <2> QED BY <2>3, <2>4 DEF Backed
<1> QED BY <1>1, <1>2, <1>3, SameTurn

LEMMA InstallKeeps == ASSUME Hypotheses, IInv, Install PROVE IInv'
<1>s. stage = "commit" /\ Busy
  BY DEF Install, IInv, Stages
<1>t. turn \in Producer /\ Size(turn) \in Nat /\ faults \in Nat
  BY <1>s, PlacesAre DEF IInv, Typed, Busy
<1>u. Len(changes) + 1 <= Size(turn)
      /\ UNCHANGED <<owners, turn, claimed, unable, outcome, keptAside, before>>
  BY DEF Install, Here, Size
<1> DEFINE pl == Destination(Len(changes) + 1)
<1>1. CASE /\ backup' = Append(backup, disk[pl])
           /\ changes' = Append(changes, [saved |-> disk[pl] # NoFile, installed |-> TRUE])
           /\ disk' = [disk EXCEPT ![pl] = turn]
           /\ UNCHANGED <<stage, faults>>
  BY <1>1, <1>s, <1>t, <1>u, InstallOne
<1>2. CASE /\ Fault
           /\ backup' = Append(backup, disk[pl])
           /\ changes' = Append(changes, [saved |-> disk[pl] # NoFile, installed |-> FALSE])
           /\ disk' = [disk EXCEPT ![pl] = NoFile]
           /\ stage' = "rollback"
  <2>1. faults' \in Nat
    BY <1>2, <1>t DEF Fault
  <2> QED BY <1>2, <1>s, <1>t, <1>u, <2>1, InstallOne
<1>3. CASE Fault /\ stage' = "rollback" /\ UNCHANGED <<backup, changes, disk>>
  <2>1. faults' \in Nat
    BY <1>3, <1>t DEF Fault
  <2>2. Busy' /\ Duplicates(turn)' = Duplicates(turn) /\ Size(turn)' = Size(turn)
    BY <1>s, <1>u DEF Busy, Duplicates, PlaceSet, Places, Size
  <2>3. Typed'
    BY <1>3, <1>u, <2>1 DEF IInv, Typed
  <2>4. Stages'
    BY <1>3, <1>s, <1>u, <2>2 DEF IInv, Stages
  <2>5. Backed'
    BY <1>3, <1>s, <1>u, <2>2 DEF IInv, Backed, Touched, Destination, Places
  <2> QED BY <1>3, <1>s, <1>u, <2>3, <2>4, <2>5, SameTurn
<1> QED BY <1>1, <1>2, <1>3 DEF Install, Here

LEMMA UndoOne ==
  ASSUME Hypotheses, IInv, Busy, stage = "rollback", changes # <<>>,
         NEW i, i = Len(changes), NEW removes \in BOOLEAN, NEW restores \in BOOLEAN,
         Undo(i, removes, restores), backup' = Front(backup), changes' = Front(changes),
         unable' \in BOOLEAN, unable => unable', ~(removes /\ restores) => unable',
         keptAside' \subseteq Place \X Files, keptAside \subseteq keptAside',
         changes[i].saved /\ ~restores => <<Destination(i), backup[i]>> \in keptAside',
         faults' \in Nat, UNCHANGED <<owners, turn, stage, claimed, outcome, before>>
  PROVE  IInv'
<1>t. /\ turn \in Producer /\ ~Duplicates(turn) /\ Len(backup) = Len(changes)
      /\ Len(changes) <= Size(turn) /\ Size(turn) \in Nat /\ NoFile \in Files
  BY PlacesAre DEF IInv, Typed, Stages, Busy, Files
<1>b. Busy' /\ Duplicates(turn)' = Duplicates(turn) /\ Size(turn)' = Size(turn)
  BY DEF Busy, Duplicates, PlaceSet, Places, Size
<1>c. /\ backup \in Seq(Files) /\ changes \in Seq([saved: BOOLEAN, installed: BOOLEAN])
      /\ Len(changes) \in Nat /\ DOMAIN changes = 1..Len(changes)
      /\ disk \in [Place -> Files]
  BY DEF IInv, Typed
<1>a. /\ i \in Nat \ {0} /\ Len(changes') = i - 1 /\ DOMAIN changes' = 1..(i - 1)
      /\ changes' \in Seq([saved: BOOLEAN, installed: BOOLEAN])
      /\ \A j \in 1..(i - 1) : changes'[j] = changes[j]
  BY <1>c, Fronts
<1>k. /\ Len(backup') = i - 1 /\ backup' \in Seq(Files)
      /\ \A j \in 1..(i - 1) : backup'[j] = backup[j]
  <2>1. backup # <<>>
    BY <1>a, <1>t, <1>c
  <2> QED BY <2>1, <1>t, <1>c, Fronts
<1>d. \A j : Destination(j)' = Destination(j) /\ Destination(j) = Places(turn)[j]
  BY DEF Destination, Places
<1>n. i \in DOMAIN changes /\ i \in 1..Size(turn) /\ Destination(i) \in Place /\ backup[i] \in Files
  <2>1. i \in DOMAIN changes /\ i \in 1..Size(turn)
    BY <1>a, <1>c, <1>t
  <2>2. Destination(i) \in Place
    BY <2>1, <1>d, <1>t, PlacesAre
  <2>3. i \in DOMAIN backup
    BY <1>a, <1>c, <1>t
  <2> QED BY <2>1, <2>2, <2>3, <1>c
<1>e. \A j \in 1..(i - 1) : j \in DOMAIN changes /\ Destination(j) # Destination(i)
  <2> TAKE j \in 1..(i - 1)
  <2>1. j \in DOMAIN changes /\ j \in 1..Size(turn) /\ j # i
    BY <1>a, <1>c, <1>t
  <2>2. Places(turn)[j] # Places(turn)[i]
    BY <2>1, <1>n, <1>t, OnePlaceEach
  <2> QED BY <2>1, <2>2, <1>d
<1>u. /\ disk'[Destination(i)] = IF changes[i].saved /\ restores THEN backup[i]
                                 ELSE IF changes[i].installed /\ removes THEN NoFile
                                 ELSE disk[Destination(i)]
      /\ \A q \in Place : q # Destination(i) => disk'[q] = disk[q]
      /\ disk' \in [Place -> Files]
  BY <1>c, <1>n, <1>t DEF Undo
<1>1. Typed'
  BY <1>a, <1>k, <1>u DEF IInv, Typed
<1>2. Stages'
  <2>1. outcome[turn] \in {"none", "done"} /\ i - 1 <= Size(turn)
    BY <1>a, <1>t DEF IInv, Stages
  <2> QED BY <1>a, <1>b, <1>k, <1>t, <2>1 DEF Stages
<1>3. Backed'
  <2>1. \A j \in DOMAIN changes' :
          /\ backup'[j] = before'[Destination(j)']
          /\ changes'[j].saved <=> backup'[j] # NoFile
          /\ disk'[Destination(j)'] = IF changes'[j].installed THEN turn' ELSE NoFile
          /\ stage' = "commit" => changes'[j].installed
    <3> TAKE j \in DOMAIN changes'
    <3>1. Destination(j)' = Destination(j)
      BY <1>d, Zenon
    <3>2. before' = before /\ turn' = turn /\ stage' = "rollback"
      OBVIOUS
    <3>3. j \in 1..(i - 1) /\ j \in DOMAIN changes /\ Destination(j) # Destination(i)
      BY <1>a, <1>e
    <3>4. changes'[j] = changes[j] /\ backup'[j] = backup[j]
      BY <3>3, <1>a, <1>k
    <3>5. Destination(j) \in Place
      BY <3>3, <1>d, <1>t, <1>c, PlacesAre
    <3>6. disk'[Destination(j)] = disk[Destination(j)]
      BY <3>3, <3>5, <1>u
    <3>7. /\ backup[j] = before[Destination(j)]
          /\ changes[j].saved <=> backup[j] # NoFile
          /\ disk[Destination(j)] = IF changes[j].installed THEN turn ELSE NoFile
      BY <3>3 DEF IInv, Backed
    <3> QED BY <3>1, <3>2, <3>4, <3>6, <3>7
  <2>2. ASSUME NEW q \in Place, ~Touched(q)'
        PROVE  \/ disk'[q] = before[q]
               \/ (unable' /\ (before[q] # NoFile => <<q, before[q]>> \in keptAside'))
    <3>1. CASE q = Destination(i)
      <4>1. /\ backup[i] = before[q]
            /\ changes[i].saved <=> backup[i] # NoFile
            /\ disk[q] = IF changes[i].installed THEN turn ELSE NoFile
        BY <3>1, <1>n DEF IInv, Backed
      <4>2. CASE changes[i].saved /\ restores
        BY <4>1, <4>2, <3>1, <1>u
      <4>3. CASE changes[i].saved /\ ~restores
        BY <4>1, <4>3, <3>1
      <4>4. CASE ~changes[i].saved /\ removes
        BY <4>1, <4>4, <3>1, <1>u
      <4>5. CASE ~changes[i].saved /\ ~removes
        BY <4>1, <4>5
      <4> QED BY <4>2, <4>3, <4>4, <4>5
    <3>2. CASE q # Destination(i)
      <4>1. ~Touched(q)
        <5>1. ASSUME NEW j \in DOMAIN changes, Destination(j) = q
              PROVE  FALSE
          <6>1. j # i
            BY <3>2, <5>1
          <6>2. j \in DOMAIN changes'
            BY <6>1, <1>a, <1>c
          <6>3. Destination(j)' = q
            BY <5>1, <1>d, Zenon
          <6> QED BY <2>2, <6>2, <6>3 DEF Touched
        <5> QED BY <5>1 DEF Touched
      <4>2. \/ disk[q] = before[q]
            \/ (unable /\ (before[q] # NoFile => <<q, before[q]>> \in keptAside))
        BY <4>1 DEF IInv, Backed
      <4> QED BY <3>2, <4>2, <1>u
    <3> QED BY <3>1, <3>2
  <2>3. before' = before
    OBVIOUS
  <2> QED BY <2>1, <2>2, <2>3 DEF Backed
<1> QED BY <1>1, <1>2, <1>3, SameTurn

LEMMA RollBackKeeps == ASSUME Hypotheses, IInv, RollBack PROVE IInv'
<1>s. stage = "rollback" /\ Busy /\ changes # <<>>
  BY DEF RollBack, IInv, Stages
<1>u. /\ changes' = Front(changes) /\ UNCHANGED <<owners, turn, stage, claimed, outcome, before>>
      /\ faults \in Nat /\ keptAside \subseteq Place \X Files /\ unable \in BOOLEAN
  BY DEF RollBack, IInv, Typed
<1> DEFINE i == Len(changes)
<1>n. /\ turn \in Producer /\ i \in DOMAIN changes /\ i \in 1..Size(turn)
      /\ i \in DOMAIN backup /\ backup \in Seq(Files)
  BY <1>s, PlacesAre DEF IInv, Typed, Stages, Busy
<1>p. Destination(i) \in Place /\ backup[i] \in Files
  <2>1. backup[i] \in Files
    BY <1>n
  <2> QED BY <1>n, <2>1, PlacesAre DEF Destination
<1>1. CASE Undo(i, TRUE, TRUE) /\ backup' = Front(backup) /\ UNCHANGED <<unable, faults, keptAside>>
  BY <1>1, <1>s, <1>u, UndoOne
<1>2. ASSUME NEW removes \in BOOLEAN, NEW restores \in BOOLEAN,
             ~(removes /\ restores), Fault, Undo(i, removes, restores), unable' = TRUE,
             keptAside' = IF changes[i].saved /\ ~restores
                          THEN keptAside \cup {<<Destination(i), backup[i]>>} ELSE keptAside,
             backup' = Front(backup)
      PROVE  IInv'
  <2>1. faults' \in Nat
    BY <1>2, <1>u DEF Fault
  <2>2. /\ keptAside' \subseteq Place \X Files /\ keptAside \subseteq keptAside'
        /\ changes[i].saved /\ ~restores => <<Destination(i), backup[i]>> \in keptAside'
    BY <1>2, <1>u, <1>p
  <2> QED BY <1>2, <1>s, <1>u, <2>1, <2>2, UndoOne
<1> QED BY <1>1, <1>2 DEF RollBack

\* Who dies leaves nothing published by this process; what it had set aside
\* stays where it is.
LEMMA StopKeeps == ASSUME Hypotheses, IInv, Stop PROVE IInv'
<1>b. ~Busy' /\ turn' = NoTurn
  BY DEF Stop, Busy
<1>1. outcome' \in [Producer -> {"done", "none"}]
  BY DEF Stop
<1>2. keptAside' \subseteq Place \X Files
  <2>1. CASE ~Busy
    BY <2>1 DEF Stop, IInv, Typed, Stages
  <2>2. CASE Busy
    <3>1. ASSUME NEW i \in DOMAIN changes
          PROVE  Destination(i) \in Place /\ backup[i] \in Files
      <4>1. turn \in Producer /\ i \in 1..Size(turn) /\ i \in DOMAIN backup /\ backup \in Seq(Files)
        BY <2>2, <3>1, PlacesAre DEF IInv, Typed, Stages, Busy
      <4>2. backup[i] \in Files
        BY <4>1
      <4> QED BY <4>1, <4>2, PlacesAre DEF Destination
    <3>2. keptAside \subseteq Place \X Files
      BY DEF IInv, Typed
    <3> QED BY <3>1, <3>2 DEF Stop
  <2> QED BY <2>1, <2>2
<1>3. Typed'
  <2>1. backup' \in Seq(Files) /\ changes' \in Seq([saved: BOOLEAN, installed: BOOLEAN])
    BY DEF Stop
  <2>2. faults' \in Nat
    BY DEF Stop, Fault, IInv, Typed
  <2> QED BY <1>1, <1>2, <1>b, <2>1, <2>2 DEF Stop, IInv, Typed
<1>4. Stages' /\ Claimed' /\ Backed'
  BY <1>b DEF Stop, Stages, Claimed, Backed
<1>n. \A p \in Producer : outcome'[p] # "published" /\ p # turn'
  BY <1>1, <1>b DEF Hypotheses
<1>5. Items'
  BY <1>n DEF Items
<1>6. Owned'
  BY <1>n DEF Owned
<1>7. Held'
  BY <1>n DEF Held, HeldIn
<1> QED BY <1>3, <1>4, <1>5, <1>6, <1>7 DEF IInv

LEMMA TurnsEnd ==
  ASSUME Hypotheses, IInv, Stage \/ Claim \/ Finish \/ RolledBack
  PROVE  IInv'
<1>b. Busy
  BY DEF Stage, Claim, Finish, RolledBack, IInv, Stages
<1>t. faults \in Nat /\ turn \in Producer
  BY <1>b DEF IInv, Typed, Busy
<1>1. CASE Stage
  <2>1. changes = <<>>
    BY <1>1, <1>b DEF Stage, IInv, Stages
  <2>2. HeldIn(disk)
    BY <1>b, <2>1, HeldAgain
  <2>3. CASE LeaveTurn("failed", "refused") /\ UNCHANGED <<faults, disk, keptAside>>
    BY <1>b, <1>t, <2>2, <2>3, LeaveKeeps DEF Outcomes
  <2>4. CASE Fault /\ LeaveTurn("failed", "failed") /\ UNCHANGED <<disk, keptAside>>
    <3>1. faults' \in Nat
      BY <1>t, <2>4 DEF Fault
    <3> QED BY <1>b, <2>2, <2>4, <3>1, LeaveKeeps DEF Outcomes
  <2>5. CASE ~Duplicates(turn) /\ stage' = "claim"
             /\ UNCHANGED <<owners, turn, claimed, backup, changes, unable, outcome,
                            before, faults, disk, keptAside>>
    BY <1>1, <1>b, <2>5, StageKeeps DEF Stage
  <2> QED BY <1>1, <2>3, <2>4, <2>5 DEF Stage
<1>2. CASE Claim
  <2>1. changes = <<>>
    BY <1>2, <1>b DEF Claim, IInv, Stages
  <2>2. HeldIn(disk)
    BY <1>b, <2>1, HeldAgain
  <2>3. CASE LeaveTurn("failed", "refused")
    BY <1>2, <1>b, <1>t, <2>2, <2>3, LeaveKeeps DEF Claim, Outcomes
  <2>4. CASE ~Conflict(turn) /\ claimed' = Unowned(turn) \X {turn}
             /\ owners' = owners \cup claimed' /\ stage' = "commit"
             /\ UNCHANGED <<turn, backup, changes, unable, outcome, before>>
    BY <1>2, <1>b, <2>4, ClaimKeeps DEF Claim
  <2> QED BY <1>2, <2>3, <2>4 DEF Claim
<1>3. CASE Finish
  <2>1. stage = "commit" /\ ~(Len(changes) + 1 <= Size(turn)) /\ UNCHANGED <<disk, keptAside>>
    <3>1. Len(changes) \in Nat /\ Size(turn) \in Nat
      BY <1>t, PlacesAre DEF IInv, Typed
    <3> QED BY <1>3, <3>1 DEF Finish, Here, Size
  <2>2. HeldIn(disk) /\ \A pl \in PlaceSet(turn) : disk[pl] = turn
    BY <1>b, <1>t, <2>1, HeldInstalled, PlacesAre
  <2>3. CASE LeaveTurn("published", "published") /\ UNCHANGED faults
    BY <1>b, <1>t, <2>1, <2>2, <2>3, LeaveKeeps DEF Outcomes
  <2>4. CASE Fault /\ LeaveTurn("failed", "failed")
    <3>1. faults' \in Nat
      BY <1>t, <2>4 DEF Fault
    <3> QED BY <1>b, <2>1, <2>2, <2>4, <3>1, LeaveKeeps DEF Outcomes
  <2> QED BY <1>3, <2>3, <2>4 DEF Finish
<1>4. CASE RolledBack
  <2>1. HeldIn(disk)
    BY <1>4, <1>b, HeldAgain DEF RolledBack
  <2>2. PICK out \in {"unrecovered", "failed"} : LeaveTurn("failed", out)
    BY <1>4 DEF RolledBack
  <2> QED BY <1>4, <1>b, <1>t, <2>1, <2>2, LeaveKeeps DEF RolledBack, Outcomes
<1> QED BY <1>1, <1>2, <1>3, <1>4

LEMMA NextKeeps == ASSUME Hypotheses, IInv, [PubNext]_pubVars PROVE IInv'
<1>1. CASE UNCHANGED pubVars
  <2>1. Typed' /\ Items' /\ Owned'
    BY <1>1 DEF pubVars, IInv, Typed, Items, Owned, PlaceSet, Places
  <2>2. Busy' = Busy /\ Duplicates(turn)' = Duplicates(turn) /\ Size(turn)' = Size(turn)
    BY <1>1 DEF pubVars, Busy, Duplicates, PlaceSet, Places, Size
  <2>3. Stages'
    BY <1>1, <2>2 DEF pubVars, IInv, Stages
  <2>4. Claimed'
    BY <1>1, <2>2 DEF pubVars, IInv, Claimed, PlaceSet, Places, MayShare
  <2>5. Held'
    BY <1>1, <2>2 DEF pubVars, IInv, Held, HeldIn, PlaceSet, Places
  <2>6. Backed'
    <3>1. \A i : Destination(i)' = Destination(i)
      BY <1>1 DEF pubVars, Destination, Places
    <3>2. \A pl : Touched(pl)' = Touched(pl)
      BY <1>1, <3>1 DEF pubVars, Touched
    <3>3. Backed
      BY DEF IInv
    <3>4. UNCHANGED <<disk, turn, stage, backup, changes, unable, before, keptAside>>
      BY <1>1 DEF pubVars
    <3> QED BY <2>2, <3>1, <3>2, <3>3, <3>4 DEF Backed
  <2> QED BY <2>1, <2>3, <2>4, <2>5, <2>6 DEF IInv
<1>2. ASSUME NEW p \in Producer, Enter(p) \/ Validate(p) PROVE IInv'
  BY <1>2, EnterKeeps, ValidateKeeps
<1> QED BY <1>1, <1>2, TurnsEnd, InstallKeeps, RollBackKeeps, StopKeeps DEF PubNext

-----------------------------------------------------------------------------
(* The theorems.                                                             *)

\* The owners, the rollback directory and the disk agree, whoever has the
\* output lock, whichever operation fails and wherever the process dies
\* (store.py, _commit_staged_outputs and _rollback_staged_outputs).
THEOREM PublicationSound == ASSUME Hypotheses PROVE PubSpec => []IInv
<1>1. PubInit => IInv
  BY InitHolds
<1>2. IInv /\ [PubNext]_pubVars => IInv'
  BY NextKeeps
<1> QED BY <1>1, <1>2, PTL DEF PubSpec

\* What a producer has published in a process stays, in its place or set aside,
\* for any producers, places, failures and crashes (output-ownership.md:39).
THEOREM PublishedStays == ASSUME Hypotheses PROVE PubSpec => []PublishedKept
<1>1. ASSUME IInv PROVE PublishedKept
  <2> SUFFICES ASSUME turn = NoTurn PROVE HeldIn(disk)
    BY DEF PublishedKept, HeldIn
  <2> QED BY <1>1 DEF IInv, Held, Busy
<1> QED BY <1>1, PublicationSound, PTL

\* A publication that ends is whole or undone, or it asks for a recovery and
\* has set aside what it could not put back.
THEOREM EndsAreWhole == ASSUME Hypotheses PROVE PubSpec => AllOrNothing
<1>1. ASSUME IInv, [PubNext]_pubVars PROVE [EndsWhole]_pubVars
  <2> SUFFICES ASSUME PubNext, Busy, turn' = NoTurn, outcome' # outcome
               PROVE  \/ Whole(disk')
                      \/ (unable \/ Died) /\ AsideOrBack(disk', keptAside')
    BY <1>1 DEF EndsWhole, Busy
  <2>t. turn \in Producer /\ turn' \notin Producer
    BY <1>1 DEF IInv, Typed, Busy, Hypotheses
  <2>1. CASE changes = <<>> /\ UNCHANGED <<disk, keptAside>>
    BY <1>1, <2>1, HeldAgain DEF Whole
  <2>2. CASE Finish
    <3>1. Len(changes) \in Nat /\ Size(turn) \in Nat
      BY <1>1, <2>t, PlacesAre DEF IInv, Typed
    <3>2. stage = "commit" /\ ~(Len(changes) + 1 <= Size(turn)) /\ disk' = disk
      BY <2>2, <3>1 DEF Finish, Here, Size
    <3> QED BY <1>1, <3>2, HeldInstalled DEF Whole
  <2>3. CASE Stop
    <3>1. outcome'[turn] \in {"none", "done"}
      BY <2>t, <2>3 DEF Stop
    <3>2. AsideOrBack(disk', keptAside')
      <4> SUFFICES ASSUME NEW pl \in Place, disk[pl] # before[pl], before[pl] # NoFile
                   PROVE  <<pl, before[pl]>> \in keptAside'
        BY <2>3 DEF AsideOrBack, Stop
      <4>1. CASE Touched(pl)
        <5>1. PICK i \in DOMAIN changes : Destination(i) = pl
          BY <4>1 DEF Touched
        <5>2. backup[i] = before[pl] /\ changes[i].saved
          BY <1>1, <5>1 DEF IInv, Backed
        <5> QED BY <2>3, <5>1, <5>2 DEF Stop
      <4>2. CASE ~Touched(pl)
        <5>1. <<pl, before[pl]>> \in keptAside
          BY <1>1, <4>2 DEF IInv, Backed
        <5> QED BY <2>3, <5>1 DEF Stop
      <4> QED BY <4>1, <4>2
    <3> QED BY <3>1, <3>2 DEF Died
  <2>4. CASE Stage \/ Claim
    <3>1. changes = <<>>
      BY <1>1, <2>4 DEF Stage, Claim, IInv, Stages
    <3> QED BY <2>1, <2>4, <3>1 DEF Stage, Claim
  <2>5. CASE RolledBack
    BY <2>1, <2>5 DEF RolledBack
  <2>6. CASE Install \/ RollBack
    BY <2>6, <2>t DEF Install, RollBack
  <2>7. ASSUME NEW p \in Producer, Enter(p) \/ Validate(p) PROVE FALSE
    BY <2>7, <2>t DEF Enter, Validate, Busy
  <2> QED BY <2>2, <2>3, <2>4, <2>5, <2>6, <2>7 DEF PubNext
<1> QED BY <1>1, PublicationSound, PTL DEF PubSpec, AllOrNothing

-----------------------------------------------------------------------------
(* Retention: what is there, and what the collector has still to see of it.  *)

\* The marker of an absent entry is no digest of a blob.
RetHypotheses == KeepLast \in Int /\ Nil \notin Blob

Roaming == {"scan", "mkdir"}
Chosen == {"stat", "read", "produce"}
InHand == {"candidate", "seal", "publish", "archive", "archive_sidecar", "artifact", "sidecar"}

\* a process has a run of its own before it works; from the lookup on it has a
\* key, and from the artifact on a blob
JobOk(j) ==
  /\ DOMAIN j = {"at", "run", "key", "blob", "seen"}
  /\ j.at \in Roaming \cup Chosen \cup InHand \cup {"ready", "corrupt", "missing"}
  /\ j.at \notin Roaming => j.run \in dirs
  /\ j.at \in Chosen \cup InHand => j.key \in Key
  /\ j.at \in InHand => j.blob \in Blob

FileOk(f) ==
  /\ DOMAIN f = {"run", "in", "kind", "key", "blob"}
  /\ f.run \in dirs /\ f.key \in Key /\ f.in \in Roots

Registered ==
  /\ IsFiniteSet(dirs)
  /\ cache \in [Key -> Blob \cup {Nil}]
  /\ DOMAIN job = Process /\ \A p \in Process : JobOk(job[p])
  /\ \A f \in files : FileOk(f)
  /\ settled \subseteq files

Named(f) == f.in = "top" /\ f.kind = "sidecar"

\* what the collector still has to see of a file, or has seen of it
Ahead(f) == <<f.run, f.in>> \in gc.toList \/ f \in gc.toRead

\* how far the collection is, and what it owes to a settled file of a retained run
Owed(f) ==
  /\ gc.at = "cache_scan" /\ Named(f) => Ahead(f) \/ f.key \in gc.refs
  /\ gc.at = "cache_sweep" /\ Named(f) => f.key \notin gc.names
  /\ gc.at = "blob_scan" => Ahead(f) \/ f.blob \in gc.refs
  /\ gc.at = "blob_sweep" => f.blob \notin gc.names

Collector ==
  /\ DOMAIN gc = {"at", "keep", "toList", "toRead", "refs", "names"}
  /\ gc.at \in {"idle", "cache_scan", "cache_sweep", "blob_scan", "blob_sweep"}
  /\ \A f \in settled : f.run \in Retained => Owed(f)

RetInv == Registered /\ Collector /\ SettledKept

-----------------------------------------------------------------------------
\* A run that is retained was retained before, if it was there: directories
\* are only added.
LEMMA RetainedShrinks ==
  ASSUME KeepLast \in Int, NEW D, NEW E, IsFiniteSet(E), D \subseteq E, NEW r \in D,
         Cardinality({s \in E : s > r}) < KeepLast
  PROVE  Cardinality({s \in D : s > r}) < KeepLast
<1> DEFINE A == {s \in D : s > r}
           B == {s \in E : s > r}
<1>1. A \subseteq B /\ B \subseteq E
  OBVIOUS
<1>2. IsFiniteSet(B)
  BY <1>1, FS_Subset
<1>3. Cardinality(A) <= Cardinality(B) /\ IsFiniteSet(A)
  BY <1>1, <1>2, FS_Subset
<1>4. Cardinality(A) \in Nat /\ Cardinality(B) \in Nat
  BY <1>2, <1>3, FS_CardinalityType
<1>5. Cardinality(B) < KeepLast
  OBVIOUS
<1> HIDE DEF A, B
<1>6. Cardinality(A) < KeepLast
  BY <1>3, <1>4, <1>5
<1> QED BY <1>6 DEF A

\* What the collector has not been at is as it was owed, when the runs go on.
LEMMA StillOwed ==
  ASSUME RetHypotheses, RetInv, IsFiniteSet(dirs'), dirs \subseteq dirs',
         settled' \subseteq settled, UNCHANGED <<gc, collections>>, blobs \subseteq blobs',
         \A k \in Key : cache[k] # Nil => cache'[k] # Nil
  PROVE  Collector' /\ SettledKept'
<1>1. ASSUME NEW f \in settled', f.run \in Retained' PROVE f.run \in Retained
  <2>1. f.run \in dirs
    BY <1>1 DEF RetInv, Registered, FileOk
  <2> QED BY <1>1, <2>1, RetainedShrinks DEF Retained, RetHypotheses
<1>2. Collector'
  <2>1. ASSUME NEW f \in settled', f.run \in Retained' PROVE Owed(f)'
    <3>1. Owed(f)
      BY <1>1, <2>1 DEF RetInv, Collector
    <3> QED BY <3>1 DEF Owed, Ahead
  <2> QED BY <2>1 DEF RetInv, Collector
<1>3. ASSUME NEW f \in settled', f.run \in Retained'
      PROVE  f.blob \in blobs' /\ (f.in = "top" /\ f.kind = "sidecar" => cache'[f.key] # Nil)
  <2>1. f \in settled /\ f.run \in Retained /\ f.key \in Key
    BY <1>1, <1>3 DEF RetInv, Registered, FileOk
  <2> QED BY <2>1 DEF RetInv, SettledKept
<1> QED BY <1>2, <1>3 DEF SettledKept

\* Saving and archiving touch what they write: it is settled no longer.
LEMMA SaveKeeps ==
  ASSUME RetInv, NEW p \in Process, NEW in \in Roots, NEW kind, job[p].at \in InHand,
         Save(p, in, kind), dirs' = dirs
  PROVE  /\ \A f \in files' : FileOk(f)
         /\ settled' \subseteq files' /\ settled' \subseteq settled
<1> DEFINE new == FileOf(p, in, kind)
<1>1. FileOk(new)
  BY DEF FileOf, RetInv, Registered, FileOk, JobOk, InHand, Roaming
<1> QED BY <1>1 DEF Save, RetInv, Registered

LEMMA ArchiveKeeps ==
  ASSUME RetInv, NEW p \in Process, NEW kind, NEW next, Archive(p, kind, next)
  PROVE  /\ \A f \in files' : FileOk(f)
         /\ settled' \subseteq files' /\ settled' \subseteq settled
<1> DEFINE moved == {f \in Stale(p, kind) : f.blob # job[p].blob}
<1>1. \A f \in files : FileOk(f)
  BY DEF RetInv, Registered
<1>2. \A f \in moved : FileOk([f EXCEPT !.in = "history"])
  BY <1>1 DEF Stale, FileOk, Roots
<1> QED BY <1>1, <1>2 DEF Archive, RetInv, Registered

\* The runs: each step of a process.
LEMMA RunKeeps == ASSUME RetHypotheses, RetInv, NEW p \in Process, Run(p) PROVE RetInv'
<1> USE DEF RetInv, Roaming, Chosen, InHand
<1>j. JobOk(job[p]) /\ DOMAIN job = Process
  BY DEF Registered
<1>1. CASE Scan(p)
  <2>1. DOMAIN job' = Process /\ \A q \in Process : JobOk(job[q])'
    BY <1>1, <1>j DEF Scan, At, Registered, JobOk
  <2>2. Registered'
    BY <1>1, <2>1 DEF Scan, Registered, FileOk
  <2>3. Collector' /\ SettledKept'
    BY <1>1, StillOwed DEF Scan, Registered
  <2> QED BY <2>2, <2>3
<1>2. CASE Allocate(p)
  <2>1. IsFiniteSet(dirs') /\ dirs \subseteq dirs'
    BY <1>2, FS_AddElement DEF Allocate, Mkdir, Registered
  <2>2. DOMAIN job' = Process /\ \A q \in Process : JobOk(job[q])'
    BY <1>2, <1>j, <2>1 DEF Allocate, Mkdir, At, Goes, Registered, JobOk
  <2>3. Registered'
    BY <1>2, <2>1, <2>2 DEF Allocate, Registered, FileOk
  <2>4. Collector' /\ SettledKept'
    BY <1>2, <2>1, StillOwed DEF Allocate, Registered
  <2> QED BY <2>3, <2>4
<1>3. CASE Start(p) \/ Stat(p)
  <2>1. DOMAIN job' = Process /\ \A q \in Process : JobOk(job[q])'
    BY <1>3, <1>j DEF Start, Stat, At, Registered, JobOk
  <2>2. Registered'
    BY <1>3, <2>1 DEF Start, Stat, Registered, FileOk
  <2>3. Collector' /\ SettledKept'
    BY <1>3, StillOwed DEF Start, Stat, Registered
  <2> QED BY <2>2, <2>3
<1>4. CASE ReadEntry(p)
  <2>0. job[p].key \in Key /\ cache[job[p].key] \in Blob \cup {Nil}
    BY <1>4, <1>j DEF ReadEntry, At, JobOk, Registered
  <2>1. DOMAIN job' = Process /\ \A q \in Process : JobOk(job[q])'
    BY <1>4, <1>j, <2>0 DEF ReadEntry, At, Goes, Registered, JobOk
  <2>2. Registered'
    BY <1>4, <2>1 DEF ReadEntry, Registered, FileOk
  <2>3. Collector' /\ SettledKept'
    BY <1>4, StillOwed DEF ReadEntry, Registered
  <2> QED BY <2>2, <2>3
<1>5. CASE Produce(p)
  <2>1. DOMAIN job' = Process /\ \A q \in Process : JobOk(job[q])'
    BY <1>5, <1>j DEF Produce, At, Registered, JobOk
  <2>2. Registered'
    BY <1>5, <2>1 DEF Produce, Registered, FileOk
  <2>3. blobs \subseteq blobs'
    BY <1>5 DEF Produce
  <2>4. Collector' /\ SettledKept'
    BY <1>5, <2>3, StillOwed DEF Produce, Registered
  <2> QED BY <2>2, <2>4
<1>6. CASE Publish(p)
  <2>1. DOMAIN job' = Process /\ \A q \in Process : JobOk(job[q])'
    BY <1>6, <1>j DEF Publish, At, Goes, Registered, JobOk
  <2>2. Registered'
    BY <1>6, <2>1 DEF Publish, Registered, FileOk
  <2>3. Collector' /\ SettledKept'
    BY <1>6, StillOwed DEF Publish, Registered
  <2> QED BY <2>2, <2>3
<1>7. CASE Seal(p)
  <2>0. job[p].key \in Key /\ job[p].blob \in Blob
    BY <1>7, <1>j DEF Seal, At, JobOk
  <2>1. DOMAIN job' = Process /\ \A q \in Process : JobOk(job[q])'
    BY <1>7, <1>j DEF Seal, At, Goes, Registered, JobOk
  <2>2. Registered'
    BY <1>7, <2>0, <2>1 DEF Seal, Registered, FileOk
  <2>3. \A k \in Key : cache[k] # Nil => cache'[k] # Nil
    BY <1>7, <2>0 DEF Seal, Registered, RetHypotheses
  <2>4. Collector' /\ SettledKept'
    BY <1>7, <2>3, StillOwed DEF Seal, Registered
  <2> QED BY <2>2, <2>4
<1>8. ASSUME NEW in \in Roots, NEW kind, job[p].at \in InHand, Save(p, in, kind),
             \/ \E at \in InHand : Goes(p, at)
             \/ job' = [job EXCEPT ![p] = [NoJob EXCEPT !.at = "ready", !.run = job[p].run]],
             UNCHANGED <<dirs, cache, blobs, gc, collections>>
      PROVE  RetInv'
  <2>1. DOMAIN job' = Process /\ \A q \in Process : JobOk(job[q])'
    <3>1. CASE \E at \in InHand : Goes(p, at)
      BY <1>8, <1>j, <3>1 DEF Goes, Registered, JobOk
    <3>2. ASSUME NEW j, j = [NoJob EXCEPT !.at = "ready", !.run = job[p].run],
                 job' = [job EXCEPT ![p] = j]
          PROVE  DOMAIN job' = Process /\ \A q \in Process : JobOk(job[q])'
      <4>1. /\ DOMAIN j = {"at", "run", "key", "blob", "seen"}
            /\ j.at = "ready" /\ j.run = job[p].run
        BY <3>2 DEF NoJob
      <4>2. job[p].run \in dirs
        BY <1>8, <1>j DEF JobOk
      <4> QED BY <1>8, <1>j, <3>2, <4>1, <4>2 DEF Registered, JobOk
    <3> QED BY <1>8, <3>1, <3>2
  <2>2. /\ \A f \in files' : FileOk(f)
        /\ settled' \subseteq files' /\ settled' \subseteq settled
    BY <1>8, SaveKeeps
  <2>3. Registered'
    BY <1>8, <2>1, <2>2 DEF Registered, FileOk
  <2>4. Collector' /\ SettledKept'
    BY <1>8, <2>2, StillOwed DEF Registered
  <2> QED BY <2>3, <2>4
<1>9. CASE SaveCandidate(p) \/ WriteArtifact(p) \/ WriteSidecar(p)
  <2>1. job[p].at \in InHand /\ {"attempts", "top"} \subseteq Roots
    BY <1>9 DEF SaveCandidate, WriteArtifact, WriteSidecar, At, Roots
  <2> QED BY <1>8, <1>9, <2>1 DEF SaveCandidate, WriteArtifact, WriteSidecar
<1>10. CASE ArchiveArtifact(p) \/ ArchiveSidecar(p)
  <2>0. \E kind, next : /\ Archive(p, kind, next) /\ job[p].at \in InHand
                        /\ next \in {"archive_sidecar", "artifact"}
    BY <1>10 DEF ArchiveArtifact, ArchiveSidecar, At
  <2>a. PICK kind, next : /\ Archive(p, kind, next) /\ job[p].at \in InHand
                          /\ next \in {"archive_sidecar", "artifact"}
    BY <2>0
  <2>1. DOMAIN job' = Process /\ \A q \in Process : JobOk(job[q])'
    BY <1>j, <2>a DEF Archive, Goes, Registered, JobOk
  <2>2. /\ \A f \in files' : FileOk(f)
        /\ settled' \subseteq files' /\ settled' \subseteq settled
    BY <2>a, ArchiveKeeps
  <2>3. Registered'
    BY <2>a, <2>1, <2>2 DEF Registered, Archive, FileOk
  <2>4. Collector' /\ SettledKept'
    BY <2>a, <2>2, StillOwed DEF Archive, Registered
  <2> QED BY <2>3, <2>4
<1> QED BY <1>1, <1>2, <1>3, <1>4, <1>5, <1>6, <1>7, <1>9, <1>10 DEF Run

-----------------------------------------------------------------------------
\* The collector.
LEMMA CollectKeeps == ASSUME RetHypotheses, RetInv, Collect PROVE RetInv'
<1> USE DEF RetInv
<1>1. CASE StartGC
  <2>1. Registered'
    BY <1>1 DEF StartGC, Registered, FileOk, JobOk
  <2>2. gc'.at = "cache_scan" /\ gc'.toList = {<<r, "top">> : r \in Retained}
        /\ DOMAIN gc' = {"at", "keep", "toList", "toRead", "refs", "names"}
    BY <1>1 DEF StartGC, NoGC
  <2>3. Retained' = Retained
    BY <1>1 DEF StartGC, Retained
  <2>4. Collector'
    BY <2>2, <2>3 DEF Collector, Owed, Ahead, Named
  <2>5. SettledKept'
    BY <1>1 DEF StartGC, SettledKept
  <2> QED BY <2>1, <2>4, <2>5
<1>2. ASSUME UNCHANGED <<dirs, files, job, settled>>, cache' \in [Key -> Blob \cup {Nil}]
      PROVE  Registered' /\ Retained' = Retained /\ settled' = settled
  BY <1>2 DEF Registered, FileOk, JobOk, Retained
<1>3. CASE List
  <2>1. PICK d \in gc.toList :
          gc' = [gc EXCEPT !.toList = @ \ {d}, !.toRead = @ \cup Listed(d)]
    BY <1>3 DEF List
  <2>2. Registered' /\ Retained' = Retained /\ settled' = settled
    BY <1>2, <1>3 DEF List, Registered
  <2>3. gc'.at = gc.at /\ gc'.toList = gc.toList \ {d} /\ gc'.toRead = gc.toRead \cup Listed(d)
        /\ gc'.refs = gc.refs /\ gc'.names = gc.names /\ DOMAIN gc' = DOMAIN gc
    BY <2>1 DEF Collector
  <2>4. ASSUME NEW f \in settled, f.run \in Retained PROVE Owed(f)'
    <3>1. Owed(f) /\ f \in files
      BY <2>4 DEF Collector, Registered
    <3>2. Ahead(f) => Ahead(f)' \/ (gc.at = "cache_scan" /\ ~Named(f))
      BY <2>3, <3>1 DEF Ahead, Listed, Named
    <3> QED BY <2>3, <3>1, <3>2 DEF Owed, Named
  <2>5. Collector'
    BY <2>2, <2>3, <2>4 DEF Collector
  <2>6. SettledKept'
    BY <1>3, <2>2 DEF List, SettledKept
  <2> QED BY <2>2, <2>5, <2>6
<1>4. CASE ReadFile
  <2>1. PICK g \in gc.toRead :
          gc' = [gc EXCEPT
                   !.toRead = @ \ {g},
                   !.refs = IF g \notin files THEN @
                            ELSE @ \cup {IF gc.at = "cache_scan" THEN g.key ELSE g.blob}]
    BY <1>4 DEF ReadFile
  <2>2. Registered' /\ Retained' = Retained /\ settled' = settled
    BY <1>2, <1>4 DEF ReadFile, Registered
  <2>3. gc'.at = gc.at /\ gc'.toList = gc.toList /\ gc'.toRead = gc.toRead \ {g}
        /\ gc'.refs = (IF g \notin files THEN gc.refs
                       ELSE gc.refs \cup {IF gc.at = "cache_scan" THEN g.key ELSE g.blob})
        /\ gc'.names = gc.names /\ DOMAIN gc' = DOMAIN gc
    BY <2>1 DEF Collector
  <2>4. ASSUME NEW f \in settled, f.run \in Retained PROVE Owed(f)'
    <3>1. Owed(f) /\ f \in files
      BY <2>4 DEF Collector, Registered
    <3>2. Ahead(f) => Ahead(f)' \/ f = g
      BY <2>3 DEF Ahead
    <3> QED BY <2>3, <3>1, <3>2 DEF Owed, Named
  <2>5. Collector'
    BY <2>2, <2>3, <2>4 DEF Collector
  <2>6. SettledKept'
    BY <1>4, <2>2 DEF ReadFile, SettledKept
  <2> QED BY <2>2, <2>5, <2>6
<1>5. CASE Sweep
  <2>2. Registered' /\ Retained' = Retained /\ settled' = settled
    BY <1>2, <1>5 DEF Sweep, Registered
  <2>3. \/ gc.at = "cache_scan" /\ gc'.at = "cache_sweep"
           /\ gc'.names = {k \in Key : cache[k] # Nil} \ gc.refs
        \/ gc.at = "blob_scan" /\ gc'.at = "blob_sweep" /\ gc'.names = blobs \ gc.refs
    BY <1>5 DEF Sweep, Collector
  <2>4. DOMAIN gc' = DOMAIN gc
    BY <1>5 DEF Sweep
  <2>5. ASSUME NEW f \in settled, f.run \in Retained PROVE Owed(f)'
    <3>1. Owed(f) /\ ~Ahead(f)
      BY <1>5, <2>5 DEF Collector, Sweep, Ahead
    <3> QED BY <2>3, <3>1 DEF Owed, Named
  <2>6. Collector'
    BY <2>2, <2>3, <2>4, <2>5 DEF Collector
  <2>7. SettledKept'
    BY <1>5, <2>2 DEF Sweep, SettledKept
  <2> QED BY <2>2, <2>6, <2>7
<1>6. CASE RemoveEntry
  <2>1. PICK k \in gc.names : /\ cache' = [cache EXCEPT ![k] = Nil]
                              /\ gc' = [gc EXCEPT !.names = @ \ {k}]
    BY <1>6 DEF RemoveEntry
  <2>2. Registered' /\ Retained' = Retained /\ settled' = settled
    BY <1>2, <1>6, <2>1 DEF RemoveEntry, Registered
  <2>3. gc.at = "cache_sweep" /\ gc'.at = gc.at /\ gc'.names = gc.names \ {k}
        /\ DOMAIN gc' = DOMAIN gc
    BY <1>6, <2>1 DEF RemoveEntry, Collector
  <2>4. Collector'
    BY <2>2, <2>3 DEF Collector, Owed, Named
  <2>5. ASSUME NEW f \in settled, f.run \in Retained, Named(f) PROVE cache'[f.key] # Nil
    BY <2>1, <2>3, <2>5 DEF Collector, Owed, SettledKept, Named, Registered
  <2>6. SettledKept'
    BY <1>6, <2>2, <2>5 DEF RemoveEntry, SettledKept, Named
  <2> QED BY <2>2, <2>4, <2>6
<1>7. CASE NextBlobs
  <2>2. Registered' /\ Retained' = Retained /\ settled' = settled
    BY <1>2, <1>7 DEF NextBlobs, Registered
  <2>3. gc'.at = "blob_scan" /\ gc'.toList = Retained \X Roots
        /\ DOMAIN gc' = {"at", "keep", "toList", "toRead", "refs", "names"}
    BY <1>7 DEF NextBlobs, NoGC
  <2>4. Collector'
    BY <2>2, <2>3 DEF Collector, Owed, Ahead, Registered, FileOk
  <2>5. SettledKept'
    BY <1>7, <2>2 DEF NextBlobs, SettledKept
  <2> QED BY <2>2, <2>4, <2>5
<1>8. CASE RemoveBlob
  <2>1. PICK b \in gc.names : blobs' = blobs \ {b} /\ gc' = [gc EXCEPT !.names = @ \ {b}]
    BY <1>8 DEF RemoveBlob
  <2>2. Registered' /\ Retained' = Retained /\ settled' = settled
    BY <1>2, <1>8 DEF RemoveBlob, Registered
  <2>3. gc.at = "blob_sweep" /\ gc'.at = gc.at /\ gc'.names = gc.names \ {b}
        /\ DOMAIN gc' = DOMAIN gc
    BY <1>8, <2>1 DEF RemoveBlob, Collector
  <2>4. Collector'
    BY <2>2, <2>3 DEF Collector, Owed, Named
  <2>5. SettledKept'
    BY <1>8, <2>1, <2>2, <2>3 DEF RemoveBlob, SettledKept, Collector, Owed
  <2> QED BY <2>2, <2>4, <2>5
<1>9. CASE EndGC
  <2>2. Registered' /\ Retained' = Retained /\ settled' = settled
    BY <1>2, <1>9 DEF EndGC, Registered
  <2>3. gc'.at = "idle" /\ DOMAIN gc' = {"at", "keep", "toList", "toRead", "refs", "names"}
    BY <1>9 DEF EndGC, NoGC
  <2>4. Collector'
    BY <2>2, <2>3 DEF Collector, Owed
  <2>5. SettledKept'
    BY <1>9, <2>2 DEF EndGC, SettledKept
  <2> QED BY <2>2, <2>4, <2>5
<1> QED BY <1>1, <1>3, <1>4, <1>5, <1>6, <1>7, <1>8, <1>9 DEF Collect

\* What a retained run had recorded before a collection began and has not
\* touched since stays: the collection lists a directory before it reads a
\* file, reads it before it removes anything, and the runs only add, touch
\* what they write, and let fewer runs be retained.
THEOREM CollectionKeepsSettled == ASSUME RetHypotheses PROVE RetSpec => []SettledKept
<1>1. RetInit => RetInv
  <2> SUFFICES ASSUME RetInit PROVE RetInv
    OBVIOUS
  <2>1. Registered
    BY FS_EmptySet DEF RetInit, Registered, JobOk, NoJob, Roaming, Chosen, InHand
  <2> QED BY <2>1 DEF RetInit, RetInv, Collector, SettledKept, NoGC
<1>2. RetInv /\ [RetNext]_retVars => RetInv'
  <2> SUFFICES ASSUME RetInv, [RetNext]_retVars PROVE RetInv'
    OBVIOUS
  <2>1. CASE UNCHANGED retVars
    BY <2>1 DEF retVars, RetInv, Registered, JobOk, FileOk, Collector, Owed, Ahead, SettledKept, Retained
  <2> QED BY <2>1, RunKeeps, CollectKeeps DEF RetNext
<1>3. RetInv => SettledKept
  BY DEF RetInv
<1> QED BY <1>1, <1>2, <1>3, PTL DEF RetSpec
=============================================================================
