----------------------------- MODULE OhlcvStore ----------------------------
(***************************************************************************)
(* The candle cache of backtesting-py/cutie_backtesting_provider.py:       *)
(* _fetch_ohlcv_raw with _read_cache, _write_cache and                     *)
(* _enforce_cache_lru_limit, called by several threads at once (the legs   *)
(* of a portfolio run, and legs that outlive one) and by a process that    *)
(* may be killed anywhere.                                                 *)
(*                                                                         *)
(* Every system call on the cache directory is a step of its own, but for  *)
(* the stats of one listing: they are one step, which leaves out a file    *)
(* that is removed or written anew between two of them.  Rows are data: a  *)
(* file holds all of them or is a truncated write.                         *)
(***************************************************************************)
EXTENDS Integers, FiniteSets

CONSTANTS
  Threads, Keys,
  MaxFiles,              \* MAX_CACHE_FILES
  CentralConfigured,     \* central market data has an address and a token
  FilesBefore,           \* caches an earlier deployment may have left
  MaxFetches             \* bound: fetches begun

StoreAssumption ==
  /\ MaxFiles \in Nat \ {0} /\ MaxFetches \in Nat /\ CentralConfigured \in BOOLEAN
  /\ IsFiniteSet(Keys) /\ Keys # {}
  /\ \A f \in FilesBefore :
       /\ DOMAIN f \subseteq Keys /\ Cardinality(DOMAIN f) <= MaxFiles
       /\ \A k \in DOMAIN f : f[k] \in {"central", "ccxt"}

File(id, body, source, mtime) ==
  [id |-> id, body |-> body, source |-> source, mtime |-> mtime, stale |-> FALSE]

VARIABLES
  files,       \* the directory: [keys present -> file]
  clock,       \* of mtimes
  at,          \* [Threads -> step the thread is at]
  key,         \* what it fetches
  fd,          \* id of the file it writes
  listed,      \* what it listed and has not unlinked: [names -> times, once it read them]
  last,        \* [Threads -> what its latest fetch returned or raised]
  fetches,     \* begun so far
  owed         \* history: an eviction was skipped, cut short, or still to come at a kill

storeVars == <<files, clock, at, key, fd, listed, last, fetches, owed>>

Present == DOMAIN files
Put(k, file) == [x \in Present \cup {k} |-> IF x = k THEN file ELSE files[x]]
Without(k) == [x \in Present \ {k} |-> files[x]]
Nothing == [kind |-> "none"]
NoNames == [k \in {} |-> 0]

\* A fetch ends: with rows of a source, or an error.
Rows(kind, source, body) == [kind |-> kind, source |-> source, body |-> body]
Raises(error) == [kind |-> "error", error |-> error]

Return(t, value) == last' = [last EXCEPT ![t] = value] /\ at' = [at EXCEPT ![t] = "idle"]
Goes(t, step) == at' = [at EXCEPT ![t] = step] /\ UNCHANGED last

Source == IF CentralConfigured THEN "central" ELSE "ccxt"

StoreInit ==
  /\ \E f \in FilesBefore :
       files = [k \in DOMAIN f |-> File(0, "rows", f[k], 0)]
  /\ clock = 1 /\ at = [t \in Threads |-> "idle"]
  /\ key \in [Threads -> {CHOOSE k \in Keys : TRUE}] /\ fd = [t \in Threads |-> 0]
  /\ listed = [t \in Threads |-> NoNames] /\ last = [t \in Threads |-> Nothing]
  /\ fetches = 0 /\ owed = FALSE

-----------------------------------------------------------------------------
\* _read_cache: exists, then stat, then open and parse.
Exists(t, k) ==
  /\ at[t] = "idle" /\ fetches < MaxFetches /\ fetches' = fetches + 1
  /\ key' = [key EXCEPT ![t] = k]
  /\ Goes(t, IF k \in Present THEN "stat" ELSE "fetch")
  /\ UNCHANGED <<files, clock, fd, listed, owed>>

Stat(t) ==
  /\ at[t] = "stat"
  /\ IF key[t] \notin Present THEN Return(t, Raises("FileNotFoundError"))
     ELSE Goes(t, IF files[key[t]].stale THEN "unlink" ELSE "load")
  /\ UNCHANGED <<files, clock, key, fd, listed, fetches, owed>>

\* unlink(missing_ok): whatever is there by now.
UnlinkStale(t) ==
  /\ at[t] = "unlink" /\ Goes(t, "fetch")
  /\ files' = Without(key[t])
  /\ UNCHANGED <<clock, key, fd, listed, fetches, owed>>

\* Mutation: a truncated file is read as far as it goes.
ParsesAnything(file) == TRUE

Parses(file) == file.body = "rows"

Trusted(file) == CentralConfigured => file.source = "central"

\* A file that is gone or does not parse is a miss, and so is one that did not
\* come from the configured source.
Load(t) ==
  /\ at[t] = "load"
  /\ LET k == key[t]
         hit == k \in Present /\ Parses(files[k]) /\ Trusted(files[k])
     IN IF hit THEN Return(t, Rows("hit", files[k].source, files[k].body)) ELSE Goes(t, "fetch")
  /\ UNCHANGED <<files, clock, key, fd, listed, fetches, owed>>

-----------------------------------------------------------------------------
\* The market: rows, which are then cached, or an error the callers know.
Fetch(t) ==
  /\ at[t] = "fetch"
  /\ \/ Goes(t, "open")
     \/ \E error \in {"NO_DATA", "DATA_FETCH_FAILED"} \cup
                     (IF CentralConfigured THEN {} ELSE {"RATE_LIMITED"}) :
          Return(t, Raises(error))
  /\ UNCHANGED <<files, clock, key, fd, listed, fetches, owed>>

\* _write_cache: open truncates the file, or makes one.
OpenFile(t) ==
  /\ at[t] = "open" /\ Goes(t, "write")
  /\ LET k == key[t]
         id == IF k \in Present THEN files[k].id ELSE clock
     IN /\ files' = Put(k, File(id, "truncated", Source, clock))
        /\ fd' = [fd EXCEPT ![t] = id]
  /\ clock' = clock + 1
  /\ UNCHANGED <<key, listed, fetches, owed>>

\* The rows reach the file that was opened, if it still has a name; or the
\* write fails, is logged, and nothing is evicted.
WriteFile(t) ==
  LET k == key[t]
  IN /\ at[t] = "write"
     /\ \/ /\ files' = IF k \in Present /\ files[k].id = fd[t]
                       THEN Put(k, File(fd[t], "rows", Source, clock))
                       ELSE files
           /\ clock' = clock + 1
           /\ Goes(t, "list") /\ UNCHANGED owed
        \/ /\ owed' = TRUE
           /\ Return(t, Rows("fetched", Source, "rows")) /\ UNCHANGED <<files, clock>>
     /\ UNCHANGED <<key, fd, listed, fetches>>

-----------------------------------------------------------------------------
\* _enforce_cache_lru_limit: list the directory,
List(t) ==
  /\ at[t] = "list" /\ Goes(t, "sort")
  /\ listed' = [listed EXCEPT ![t] = [k \in Present |-> 0]]
  /\ UNCHANGED <<files, clock, key, fd, fetches, owed>>

\* sort it by the time of each file, all read in this step - a file gone by now
\* raises, and the rows just fetched are lost to the caller,
Sort(t) ==
  /\ at[t] = "sort"
  /\ IF DOMAIN listed[t] \subseteq Present
     THEN /\ listed' = [listed EXCEPT ![t] = [k \in DOMAIN @ |-> files[k].mtime]]
          /\ Goes(t, "evict") /\ UNCHANGED owed
     ELSE /\ Return(t, Raises("FileNotFoundError"))
          /\ owed' = TRUE /\ listed' = [listed EXCEPT ![t] = NoNames]
  /\ UNCHANGED <<files, clock, key, fd, fetches>>

OverLimit(n) == n > MaxFiles
Oldest(times) == {k \in DOMAIN times : \A j \in DOMAIN times : times[k] <= times[j]}

\* then unlink the oldest, one by one; one that is gone is only logged.
EvictOldest(t, k) ==
  /\ files' = Without(k)
  /\ listed' = [listed EXCEPT ![t] = [j \in DOMAIN @ \ {k} |-> @[j]]]
  /\ UNCHANGED <<at, last>>
Evict(t) ==
  /\ at[t] = "evict"
  /\ IF OverLimit(Cardinality(DOMAIN listed[t]))
     THEN \E k \in Oldest(listed[t]) : EvictOldest(t, k)
     ELSE /\ Return(t, Rows("fetched", Source, "rows"))
          /\ listed' = [listed EXCEPT ![t] = NoNames] /\ UNCHANGED files
  /\ UNCHANGED <<clock, key, fd, fetches, owed>>

-----------------------------------------------------------------------------
\* CACHE_TTL_SECONDS pass.
Expire(k) ==
  /\ k \in Present /\ ~files[k].stale
  /\ files' = [files EXCEPT ![k].stale = TRUE]
  /\ UNCHANGED <<clock, at, key, fd, listed, last, fetches, owed>>

Writing == {"write", "list", "sort", "evict"}
\* The process is killed and started again: the directory is all that stays.
Restart ==
  /\ \E t \in Threads : at[t] # "idle"
  /\ at' = [t \in Threads |-> "idle"] /\ listed' = [t \in Threads |-> NoNames]
  /\ last' = [t \in Threads |-> Nothing]
  /\ owed' = (owed \/ \E t \in Threads : at[t] \in Writing)
  /\ UNCHANGED <<files, clock, key, fd, fetches>>

StoreNext ==
  \/ \E t \in Threads :
       \/ \E k \in Keys : Exists(t, k)
       \/ Stat(t) \/ UnlinkStale(t) \/ Load(t) \/ Fetch(t) \/ OpenFile(t) \/ WriteFile(t)
       \/ List(t) \/ Sort(t) \/ Evict(t)
  \/ \E k \in Keys : Expire(k)
  \/ Restart

StoreSpec == StoreInit /\ [][StoreNext]_storeVars

-----------------------------------------------------------------------------
Steps == {"idle", "stat", "unlink", "load", "fetch", "open", "write", "list", "sort", "evict"}
StoredFile ==
  [id : Nat, body : {"rows", "truncated"}, source : {"central", "ccxt"}, mtime : Nat,
   stale : BOOLEAN]
StoreTypeOK ==
  /\ at \in [Threads -> Steps] /\ key \in [Threads -> Keys] /\ fd \in [Threads -> Nat]
  /\ fetches \in 0..MaxFetches /\ clock \in Nat
  /\ Present \subseteq Keys
  /\ \A k \in Present : files[k] \in StoredFile /\ files[k].mtime < clock
  /\ \A t \in Threads : DOMAIN listed[t] \subseteq Keys

\* A cache hit is a whole series from the configured source: never a write cut
\* short by a kill, by a failure or by another thread, never one an earlier
\* deployment fetched elsewhere.
HitsAreWhole ==
  \A t \in Threads : last[t].kind = "hit" =>
    last[t].body = "rows" /\ (CentralConfigured => last[t].source = "central")

\* With no write under way - fetches may be - the directory is within its
\* limit, whatever the threads evicted under each other, unless an eviction
\* did not happen.
BoundedAtRest ==
  /\ StoreTypeOK
  /\ (\A t \in Threads : at[t] \notin Writing) /\ ~owed => Cardinality(Present) <= MaxFiles

\* Hits are whole and the directory is bounded, under every interleaving of both sides.
CacheServesWholeFiles == HitsAreWhole /\ BoundedAtRest
=============================================================================
