------------------------------ MODULE SeriesLru ------------------------------
(***************************************************************************)
(* The in-process LRU map of src/store/series.rs: SeriesKey -> series_id   *)
(* and the last cumulative reading.  A map is a function whose domain is   *)
(* the set of cached keys; an entry's "age" is the number of entries used  *)
(* more recently, so the least recently used entry is the oldest one.      *)
(***************************************************************************)
EXTENDS Naturals, FiniteSets

CONSTANTS Capacity,   \* CACHE_CAPACITY
          NoReading   \* Rust's None for an Option<f64> reading

ASSUME CapacityAssumption == Capacity \in Nat \ {0}
ASSUME NoReadingAssumption == NoReading \notin Nat

EmptyCache == [k \in {} |-> NoReading]

\* One entry as it looks after some entry of age a was used.
Aged(e, a) == IF e.age < a THEN [e EXCEPT !.age = @ + 1] ELSE e

Oldest(c) == CHOOSE k \in DOMAIN c : \A x \in DOMAIN c : c[x].age <= c[k].age

\* LruCache::get and get_mut on a cached key: promote it.
Touch(c, k) ==
    [x \in DOMAIN c |-> IF x = k THEN [c[k] EXCEPT !.age = 0]
                                 ELSE Aged(c[x], c[k].age)]

\* What LruCache::put keeps: a new key in a full map pushes the oldest one out.
Kept(c, k) ==
    IF k \in DOMAIN c \/ Cardinality(DOMAIN c) < Capacity
    THEN DOMAIN c
    ELSE DOMAIN c \ {Oldest(c)}

\* LruCache::put(k, CachedSeries { series_id: id, last_cumulative: None }),
\* which replaces the entry of a key that is already there.
PutFresh(c, k, id) ==
    LET age == IF k \in DOMAIN c THEN c[k].age ELSE Cardinality(DOMAIN c)
    IN  [x \in Kept(c, k) \cup {k} |->
            IF x = k THEN [id |-> id, last |-> NoReading, age |-> 0]
                     ELSE Aged(c[x], age)]

\* swap_cumulative's return value: nothing for an uncached key.
LastReading(c, k) == IF k \in DOMAIN c THEN c[k].last ELSE NoReading

\* (Altered for a check of DeltasTelescope: a reset does not lower the reading.)
SwapHighest(c, k, v) ==
    IF k \in DOMAIN c
    THEN [Touch(c, k) EXCEPT ![k].last = IF @ # NoReading /\ @ > v THEN @ ELSE v]
    ELSE c

\* (Altered for a check of NeverOvercounts: the new reading is not kept.)
SwapNothing(c, k, v) == c

\* swap_cumulative's update: an uncached key stays uncached.
SwapReading(c, k, v) ==
    IF k \in DOMAIN c THEN [Touch(c, k) EXCEPT ![k].last = v] ELSE c
==============================================================================
