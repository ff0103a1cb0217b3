---------------------------- MODULE CapacityCount ----------------------------
(* What AdaptiveCapacity promises its processes together (slots.py:34): the  *)
(* capacity falls fast and recovers slowly. Each answer of the provider is   *)
(* counted at once; a process that dies while it counts may move the         *)
(* capacity and leave the streak.                                            *)
EXTENDS Integers, FiniteSetsExt

CONSTANTS MaxSlots, MinSlots, Ramp
VARIABLES capacity, streak

Halved == Max({MinSlots, capacity \div 2})
Raised == Min({MaxSlots, capacity + 1})

Throttled == capacity' = Halved /\ streak' = 0

Succeeded ==
  IF streak + 1 < Ramp THEN streak' = streak + 1 /\ UNCHANGED capacity
  ELSE capacity' = Raised /\ streak' = 0

Interrupted ==
  /\ capacity' \in {Halved} \cup (IF streak + 1 < Ramp THEN {} ELSE {Raised})
  /\ UNCHANGED streak

Init == capacity = MaxSlots /\ streak = 0
Next == Throttled \/ Succeeded \/ Interrupted
Spec == Init /\ [][Next]_<<capacity, streak>>
=============================================================================
