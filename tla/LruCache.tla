------------------------------ MODULE LruCache ------------------------------
(***************************************************************************)
(* The two LRU caches of a blob server (services/blob-server/src/cache.go, *)
(* manifest_cache.go).  Every operation holds the cache's mutex, so it is  *)
(* one step.  The manifests' cache counts no bytes: MaxBytes = 0.          *)
(***************************************************************************)
EXTENDS Naturals, SequencesExt

CONSTANTS
    LruKeys,
    Sizes,      \* bytes an item may have
    LruCapacity,
    MaxBytes    \* 0: no limit

ASSUME LruAssumption ==
    LruCapacity \in Nat \ {0} /\ MaxBytes \in Nat /\ Sizes \subseteq Nat

VARIABLES
    entries,    \* evictList and items, the entry used longest ago first
    bytes,      \* currentBytes
    later       \* history: <<k, l>> if k was used after l, or l never

lruVars == <<entries, bytes, later>>

EntryRecords == [key : LruKeys, size : Sizes, expired : BOOLEAN]

LruInit == entries = <<>> /\ bytes = 0 /\ later = {}

IsHeld(k) == \E i \in DOMAIN entries : entries[i].key = k
PlaceOf(k) == CHOOSE i \in DOMAIN entries : entries[i].key = k
Others(k) == IF IsHeld(k) THEN RemoveAt(entries, PlaceOf(k)) ELSE entries

(* Of the first n of s, for every n.                                       *)
Sums(s) == LET sum[n \in 0..Len(s)] == IF n = 0 THEN 0 ELSE sum[n - 1] + s[n].size IN sum
BytesOf(s) == Sums(s)[Len(s)]

Uses(k) ==
    later' = {p \in later : p[2] # k} \cup {<<k, l>> : l \in LruKeys \ {k}}

(* removeElement.                                                          *)
BytesWithout(k) == IF IsHeld(k) THEN bytes - entries[PlaceOf(k)].size ELSE bytes

(* MoveToFront, touch.                                                     *)
ToFront(k) == Append(Others(k), entries[PlaceOf(k)])

GetItem(k) ==
    /\ IsHeld(k)
    /\ IF entries[PlaceOf(k)].expired
       THEN entries' = Others(k) /\ bytes' = BytesWithout(k) /\ UNCHANGED later
       ELSE entries' = ToFront(k) /\ Uses(k) /\ UNCHANGED bytes

(* How many of the oldest of s must go for an item of this size; all, if   *)
(* that is not enough.                                                     *)
BugEvictions(s, total, size) == IF Len(s) > LruCapacity THEN 1 ELSE 0
Evictions(s, total, size) ==
    CHOOSE n \in 0..Len(s) :
        LET Suffices(m) ==
                \/ m = Len(s)
                \/ /\ Len(s) - m < LruCapacity
                   /\ MaxBytes = 0
                      \/ total - BytesOf(SubSeq(s, 1, m)) + size <= MaxBytes
        IN  Suffices(n) /\ \A m \in 0..(n - 1) : ~Suffices(m)

(* An older item of the key goes first, then what is in the way.           *)
SetItem(k, size) ==
    LET n == Evictions(Others(k), BytesWithout(k), size) IN
    /\ entries' = Append(SubSeq(Others(k), n + 1, Len(Others(k))),
                         [key |-> k, size |-> size, expired |-> FALSE])
    /\ bytes' = BytesWithout(k) - BytesOf(SubSeq(Others(k), 1, n)) + size
    /\ Uses(k)

DeleteItem(k) ==
    /\ IsHeld(k)
    /\ entries' = Others(k) /\ bytes' = BytesWithout(k)
    /\ UNCHANGED later

(* Its TTL is over: it stays until it is read or evicted.                  *)
LapseItem(k) ==
    /\ IsHeld(k)
    /\ entries' = [entries EXCEPT ![PlaceOf(k)].expired = TRUE]
    /\ UNCHANGED <<bytes, later>>

LruNext ==
    \E k \in LruKeys :
        \/ GetItem(k) \/ DeleteItem(k) \/ LapseItem(k)
        \/ \E size \in Sizes : SetItem(k, size)

LruSpec == LruInit /\ [][LruNext]_lruVars

-----------------------------------------------------------------------------
LruTypeOK == entries \in Seq(EntryRecords) /\ bytes \in Nat

(* Nothing is evicted before something used longer ago, and the counter    *)
(* goes by what is there: after any sequence of stores, hits, lapses,      *)
(* deletions and evictions it is what the items amount to, and the limits  *)
(* hold; but one item alone may be larger than the whole cache.            *)
WithinBudget ==
    /\ bytes = BytesOf(entries)
    /\ Len(entries) <= LruCapacity
    /\ MaxBytes > 0 /\ Len(entries) > 1 => bytes <= MaxBytes

EvictsOldest ==
    \A k, l \in LruKeys :
        IsHeld(k) /\ ~IsHeld(k)' /\ IsHeld(l)' /\ <<l, k>> \notin later =>
            \A j \in LruKeys \ {k, l}, size \in Sizes : ~SetItem(j, size)

OldestGoFirst == [][WithinBudget' /\ (entries' # entries => EvictsOldest)]_lruVars
==============================================================================
