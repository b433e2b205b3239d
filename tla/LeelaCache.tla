----------------------------- MODULE LeelaCache -----------------------------
(***************************************************************************)
(* The LD2 backend (src/src/leela_raw.cpp): the recency-ordered cache of   *)
(* network results, the batched and the single probe that fill it, and the *)
(* cooperative cancellation of a batch. The searching thread probes; the   *)
(* UCI thread may request a stop at any moment of a probe, and loads a     *)
(* network or changes the cache only between searches.                     *)
(*                                                                         *)
(* A result is kept as where it came from: the network, the position and   *)
(* whether every kernel that produced it ran to its end.                   *)
(***************************************************************************)
EXTENDS Integers, SequencesExt

CONSTANTS
  Key,          \* cache keys of the positions asked about
  Net,          \* the weight files that can be loaded
  NoNet,        \* no valid network
  MaxBatch,     \* most requests of one call
  MaxCapacity,  \* largest cache asked for
  Kernels,      \* layers of the network, in order: 1..Kernels
  Unchecked     \* those that start without a look at the stop token

ASSUME LeelaAssumption ==
  /\ MaxBatch \in Nat \ {0} /\ MaxCapacity \in Nat /\ Kernels \in Nat \ {0}
  /\ Unchecked \subseteq 1..Kernels /\ NoNet \notin Net

VARIABLES
  net, enabled, \* the loaded network, and the UseLD2 switch
  capacity,     \* cache_capacity_
  cache,        \* cache_: results by key
  lru,          \* cache_lru_: keys, the least recently used first
  entries,      \* status_.cache_entries
  stopped,      \* the stop token of the search
  at,           \* where the call in progress is
  asked,        \* the keys of its requests, in order
  single,       \* probe, not probe_batch
  pending,      \* the indices the cache did not answer
  layer,        \* the kernel it is at
  torn,         \* some kernel skipped work because of a stop
  computed,     \* what run_network_batch has filled in
  answer,       \* what the caller gets, by request
  probes,       \* growth of status_.probes during the call
  recency       \* every key used since the cache was last cleared, the latest
                \* last (history)

store == <<capacity, cache, lru, entries, recency>>
call == <<at, asked, single, pending, layer, torn, computed, answer, probes>>
vars == <<net, enabled, store, stopped, call>>

Result == [net: Net, key: Key, torn: BOOLEAN]
None == [none |-> TRUE]

-----------------------------------------------------------------------------

Ready == enabled /\ net # NoNet
Cached(k) == capacity > 0 /\ k \in DOMAIN cache
Without(s, k) == IF k \in ToSet(s) THEN RemoveAt(s, CHOOSE i \in DOMAIN s : s[i] = k) ELSE s
MovedLast(s, k) == Append(Without(s, k), k)

\* Fault: a hit leaves the key where it was.
TouchNot(k) == UNCHANGED lru /\ recency' = MovedLast(recency, k)

\* A hit makes the key the most recently used one.
Touch(k) == lru' = MovedLast(lru, k) /\ recency' = MovedLast(recency, k)

\* cache_result: an update in place, or room for the key and the key.
CacheResult(k, r) ==
  \/ capacity = 0 /\ UNCHANGED store
  \/ /\ capacity > 0 /\ k \in DOMAIN cache
     /\ cache' = [cache EXCEPT ![k] = r]
     /\ Touch(k)
     /\ UNCHANGED <<capacity, entries>>
  \/ /\ capacity > 0 /\ k \notin DOMAIN cache
     /\ LET excess == IF Len(lru) >= capacity THEN Len(lru) - capacity + 1 ELSE 0
            rest == SubSeq(lru, excess + 1, Len(lru))
        IN  /\ lru' = Append(rest, k)
            /\ cache' = [c \in ToSet(rest) \cup {k} |-> IF c = k THEN r ELSE cache[c]]
     /\ entries' = Len(lru')
     /\ recency' = MovedLast(recency, k)
     /\ UNCHANGED capacity

EmptyCache == cache' = << >> /\ lru' = << >> /\ entries' = 0 /\ recency' = << >>

-----------------------------------------------------------------------------

Init ==
  /\ net = NoNet /\ enabled = TRUE /\ capacity = MaxCapacity
  /\ cache = << >> /\ lru = << >> /\ entries = 0 /\ recency = << >>
  /\ stopped = FALSE
  /\ at = "idle" /\ asked = << >> /\ single = FALSE /\ pending = << >> /\ layer = 0
  /\ torn = FALSE /\ computed = << >> /\ answer = << >> /\ probes = 0

\* Options, between searches.

\* load: everything of the old network goes first, and a file that does not
\* parse leaves none.
Load ==
  /\ at = "idle"
  /\ EmptyCache
  /\ net' \in Net \cup {NoNet}
  /\ UNCHANGED <<enabled, capacity, stopped, call>>

SetEnabled ==
  /\ at = "idle"
  /\ enabled' = ~enabled
  /\ UNCHANGED <<net, store, stopped, call>>

SetCacheCapacity ==
  /\ at = "idle"
  /\ capacity' \in 0..MaxCapacity
  /\ EmptyCache
  /\ UNCHANGED <<net, enabled, stopped, call>>

ClearCache ==
  /\ at = "idle"
  /\ EmptyCache
  /\ UNCHANGED <<net, enabled, capacity, stopped, call>>

Stop ==
  /\ stopped' = TRUE
  /\ UNCHANGED <<net, enabled, store, call>>

NewSearch ==
  /\ at = "idle" /\ stopped' = FALSE
  /\ UNCHANGED <<net, enabled, store, call>>

-----------------------------------------------------------------------------

\* cached_probe.
CachedProbe(k) ==
  /\ at = "idle" /\ Ready /\ Cached(k)
  /\ Touch(k)
  /\ UNCHANGED <<net, enabled, capacity, cache, entries, stopped, call>>

\* probe or probe_batch on the given keys; both give up at once without a network.
Call(keys, one) ==
  /\ at = "idle" /\ Ready
  /\ at' = "lookup" /\ asked' = keys /\ single' = one
  /\ answer' = [i \in DOMAIN keys |-> None]
  /\ computed' = << >> /\ pending' = << >> /\ layer' = 0 /\ torn' = FALSE /\ probes' = 0
  /\ UNCHANGED <<net, enabled, store, stopped>>

\* layer counts the requests while they are looked up.
Lookup ==
  /\ at = "lookup" /\ layer < Len(asked)
  /\ layer' = layer + 1
  /\ LET k == asked[layer']
     IN  \/ /\ Cached(k)
            /\ answer' = [answer EXCEPT ![layer'] = cache[k]]
            /\ Touch(k)
            /\ UNCHANGED <<pending, cache, entries>>
         \/ /\ ~Cached(k)
            /\ pending' = Append(pending, layer')
            /\ UNCHANGED <<answer, cache, lru, entries, recency>>
  /\ UNCHANGED <<net, enabled, capacity, stopped, at, asked, single, torn, computed, probes>>

\* run_network_batch is entered when something is left to compute.
Enter ==
  /\ at = "lookup" /\ layer = Len(asked)
  /\ at' = IF pending = << >> THEN "return" ELSE "check"
  /\ layer' = 1
  /\ computed' = [i \in DOMAIN pending |-> None]
  /\ UNCHANGED <<net, enabled, store, stopped, asked, single, pending, torn, answer, probes>>

\* The look at the stop token in front of a kernel.
Check ==
  /\ at = "check"
  /\ at' = IF layer > Kernels THEN "fill"
           ELSE IF stopped /\ layer \notin Unchecked THEN "install" ELSE "kernel"
  /\ layer' = IF at' = "kernel" THEN layer ELSE 1
  /\ UNCHANGED <<net, enabled, store, stopped, asked, single, pending, torn, computed, answer, probes>>

\* A kernel skips what it had left to do when a stop came.
Kernel ==
  /\ at = "kernel"
  /\ torn' \in {torn, torn \/ stopped}
  /\ layer' = layer + 1
  /\ at' = "check"
  /\ UNCHANGED <<net, enabled, store, stopped, asked, single, pending, computed, answer, probes>>

\* An allocation fails in the network: the batch is abandoned and nothing installed.
Throw ==
  /\ at \in {"kernel", "fill"}
  /\ at' = "return"
  /\ UNCHANGED <<net, enabled, store, stopped, asked, single, pending, layer, torn, computed, answer, probes>>

\* Fault: the results are taken from the heads without another look.
FillBlind ==
  /\ at = "fill" /\ layer <= Len(pending)
  /\ computed' = [computed EXCEPT ![layer] = [net |-> net, key |-> asked[pending[layer]], torn |-> torn]]
  /\ layer' = layer + 1
  /\ UNCHANGED <<net, enabled, store, stopped, at, asked, single, pending, torn, answer, probes>>

\* One result after another leaves the network, until a stop is seen.
Fill ==
  /\ at = "fill" /\ layer <= Len(pending) /\ ~stopped
  /\ computed' = [computed EXCEPT ![layer] = [net |-> net, key |-> asked[pending[layer]], torn |-> torn]]
  /\ layer' = layer + 1
  /\ UNCHANGED <<net, enabled, store, stopped, at, asked, single, pending, torn, answer, probes>>

\* Fault: the loop over the results is left only at its end.
FilledAtEnd ==
  /\ at = "fill" /\ layer > Len(pending)
  /\ at' = "install" /\ layer' = 1
  /\ UNCHANGED <<net, enabled, store, stopped, asked, single, pending, torn, computed, answer, probes>>

Filled ==
  /\ at = "fill" /\ (layer > Len(pending) \/ stopped)
  /\ at' = "install" /\ layer' = 1
  /\ UNCHANGED <<net, enabled, store, stopped, asked, single, pending, torn, computed, answer, probes>>

\* Fault: every request of the batch is counted, computed or not.
InstallCountsAll ==
  /\ at = "install" /\ layer <= Len(pending)
  /\ LET r == computed[layer]
         i == pending[layer]
     IN  IF r # None /\ (single \/ ~stopped)
         THEN answer' = [answer EXCEPT ![i] = r] /\ CacheResult(asked[i], r)
         ELSE UNCHANGED <<store, answer>>
  /\ probes' = probes + 1
  /\ layer' = layer + 1
  /\ UNCHANGED <<net, enabled, stopped, at, asked, single, pending, torn, computed>>

\* The caller's loop over the batch; only probe_batch looks at the token again.
Install ==
  /\ at = "install" /\ layer <= Len(pending)
  /\ LET r == computed[layer]
         i == pending[layer]
     IN  IF r # None /\ (single \/ ~stopped)
         THEN /\ answer' = [answer EXCEPT ![i] = r]
              /\ CacheResult(asked[i], r)
              /\ probes' = probes + 1
         ELSE UNCHANGED <<store, answer, probes>>
  /\ layer' = layer + 1
  /\ UNCHANGED <<net, enabled, stopped, at, asked, single, pending, torn, computed>>

Installed ==
  /\ at = "install" /\ layer > Len(pending)
  /\ at' = "return"
  /\ UNCHANGED <<net, enabled, store, stopped, asked, single, pending, layer, torn, computed, answer, probes>>

Return ==
  /\ at = "return"
  /\ at' = "idle" /\ asked' = << >> /\ single' = FALSE /\ pending' = << >> /\ layer' = 0
  /\ torn' = FALSE /\ computed' = << >> /\ answer' = << >> /\ probes' = 0
  /\ UNCHANGED <<net, enabled, store, stopped>>

CallStep ==
  Lookup \/ Enter \/ Check \/ Kernel \/ Fill \/ Filled \/ Install \/ Installed \/ Return

Next ==
  \/ Load \/ SetEnabled \/ SetCacheCapacity \/ ClearCache \/ Stop \/ NewSearch
  \/ CallStep \/ Throw
  \/ \E k \in Key : CachedProbe(k) \/ Call(<<k>>, TRUE)
  \/ \E keys \in BoundedSeq(Key, MaxBatch) : keys # << >> /\ Call(keys, FALSE)

Spec == Init /\ [][Next]_vars

\* The searching thread keeps running; nothing has to fail.
FairSpec == Spec /\ WF_vars(CallStep)

-----------------------------------------------------------------------------

\* The state of the backend and of the call in progress.
TypeOK ==
  /\ net \in Net \cup {NoNet} /\ enabled \in BOOLEAN /\ stopped \in BOOLEAN
  /\ capacity \in 0..MaxCapacity /\ entries \in 0..MaxCapacity
  /\ DOMAIN cache \subseteq Key /\ \A k \in DOMAIN cache : cache[k] \in Result
  /\ lru \in Seq(Key) /\ recency \in Seq(Key)
  /\ at \in {"idle", "lookup", "check", "kernel", "fill", "install", "return"}
  /\ asked \in Seq(Key) /\ pending \in Seq(DOMAIN asked) /\ single \in BOOLEAN
  /\ layer \in Nat /\ torn \in BOOLEAN /\ probes \in 0..Len(asked)
  /\ \A i \in DOMAIN answer : answer[i] \in Result \cup {None}
  /\ \A i \in DOMAIN computed : computed[i] \in Result \cup {None}

\* What the cache or a call hands out is the whole answer of the network in use
\* on the position asked about, whatever a stop cut short, other requests of the
\* batch needed, or an earlier network left behind.
AnswersAreWhole ==
  /\ \A k \in DOMAIN cache : cache[k] = [net |-> net, key |-> k, torn |-> FALSE]
  /\ \A i \in DOMAIN answer :
       answer[i] # None => answer[i] = [net |-> net, key |-> asked[i], torn |-> FALSE]

\* The cache is the keys used last, as many as fit, in the order of their last
\* use, and the reported number of entries is theirs; everything has its type.
CacheIsRecent ==
  /\ TypeOK
  /\ LET n == IF Len(recency) < capacity THEN Len(recency) ELSE capacity
     IN  /\ lru = SubSeq(recency, Len(recency) - n + 1, Len(recency))
         /\ DOMAIN cache = ToSet(lru)
         /\ entries = Len(lru)

\* The search charges its probe allowance by the growth of status_.probes: a call
\* that returns has charged exactly for the answers it computed, not for what the
\* cache knew, a stop cut off or a failure lost.
Computed == {i \in DOMAIN pending : answer[pending[i]] # None}
ChargedForAnswers == at = "return" => probes = Cardinality(Computed)

\* A call returns, stop or no stop: the caller can always go on to look at the
\* token itself.
CallsReturn == (at # "idle") ~> (at = "idle")

=============================================================================
