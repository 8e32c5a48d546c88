------------------------- MODULE MetadataValidators -------------------------
(***************************************************************************)
(* The store of rewritten-metadata validators: a map of bounded size and   *)
(* the order in which its keys were inserted.  Each operation holds the    *)
(* store's mutex.  A validator is abstracted to the observation it stands  *)
(* for; that it has expired by now is a choice of Get.                     *)
(***************************************************************************)
EXTENDS Naturals, Sequences, FiniteSets

CONSTANT MaxEntries   \* metadata.validator_entries

ASSUME ValidatorsAssumption == MaxEntries \in Nat \ {0}

VARIABLES entries, order

validatorVars == <<entries, order>>

Without(f, keys) == [k \in DOMAIN f \ keys |-> f[k]]
Slots(s) == {s[i] : i \in DOMAIN s}

(* get: an expired entry is deleted; its slot in the order stays. *)
Get(k, expired) ==
  /\ entries' = IF expired THEN Without(entries, {k}) ELSE entries
  /\ UNCHANGED order

RemoveValidator(k) == entries' = Without(entries, {k}) /\ UNCHANGED order

(* The eviction loop of put gives up the n oldest slots: as many as it     *)
(* takes for the map to fit.                                               *)
Fits(all, slots, n, max) ==
  \/ n = Len(slots)
  \/ Cardinality(DOMAIN all \ {slots[i] : i \in 1..n}) <= max
Evicted(all, slots, max) ==
  CHOOSE n \in 0..Len(slots) :
    Fits(all, slots, n, max) /\ \A m \in 0..(n - 1) : ~Fits(all, slots, m, max)

(* What the compaction keeps of the order, in its order: the i-th slot     *)
(* moves up to the place that counts the kept ones as far as i.            *)
NewSlot(kept, i) == Cardinality({j \in kept : j <= i})
Compact(slots, keys) ==
  LET kept == {i \in DOMAIN slots : slots[i] \in keys}
  IN [n \in 1..Cardinality(kept) |-> slots[CHOOSE i \in kept : NewSlot(kept, i) = n]]

PutWithin(k, v, max) ==
  LET slots == IF k \in DOMAIN entries THEN order ELSE Append(order, k)
      all == [x \in DOMAIN entries \cup {k} |-> IF x = k THEN v ELSE entries[x]]
      n == Evicted(all, slots, max)
      left == Without(all, {slots[i] : i \in 1..n})
      rest == SubSeq(slots, n + 1, Len(slots))
  IN /\ entries' = left
     /\ order' = IF Len(rest) > 2 * max THEN Compact(rest, DOMAIN left) ELSE rest

(* put: a slot for a key that is not in the map, eviction from the front   *)
(* of the order, compaction of the order when it is twice too long.        *)
Put(k, v) == PutWithin(k, v, MaxEntries)

ValidatorsInit == entries = <<>> /\ order = <<>>
=============================================================================
