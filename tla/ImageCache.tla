----------------------------- MODULE ImageCache ------------------------------
(***************************************************************************)
(* The cache of images known to be pullable (internal/imagecache).  Every  *)
(* roxie process loads the cache file once, verifies lists of images with  *)
(* a pool of goroutines that share the cache in memory, and rewrites the   *)
(* file after every image it adds.  Processes run at the same time, share  *)
(* nothing but the file, and can be killed at any moment.                  *)
(***************************************************************************)
EXTENDS Integers, SequencesExt

CONSTANTS
  Images,       \* image references
  Processes,    \* roxie processes
  Lists,        \* the lists of images that are verified
  MaxEntries,   \* ImageCache.maxEntries
  MaxWorkers,   \* the capacity of the semaphore
  MaxCalls,     \* bound on calls, over all processes
  MaxKills,     \* bound on killed processes
  MaxRemovals   \* bound on images that leave the registry

ASSUME ListsAssumption == Lists \subseteq Seq(Images)
ASSUME BoundsAssumption ==
  /\ MaxEntries \in Nat \ {0} /\ MaxWorkers \in Nat \ {0}
  /\ MaxCalls \in Nat /\ MaxKills \in Nat /\ MaxRemovals \in Nat

VARIABLES
  registry,  \* the images that can be pulled now
  verified,  \* history: the images that were pulled successfully at some time
  file,      \* what loading the cache file yields; unreadable content yields <<>>
  cache,     \* per process: ImageCache.cache, oldest first
  mu,        \* per process: the worker that holds ImageCache.mu, 0 if none does
  phase,     \* per process: "off", "idle" or "verifying"
  list,      \* per process: the images of its latest call
  worker,    \* per process: the goroutine of each position of the list
  verdict,   \* per process: the result of its latest call
  calls, kills

vars == <<registry, verified, file, cache, mu, phase, list, worker, verdict, calls, kills>>

(***************************************************************************)
(* AddToCache: an image moves to the end, and the oldest ones go.          *)
(***************************************************************************)
AddedNoMoveMutant(c, img) ==
  LET d == Append(c, img) IN SubSeq(d, IF Len(d) > MaxEntries THEN Len(d) - MaxEntries + 1 ELSE 1, Len(d))
AddedKeepsOldestMutant(c, img) ==
  LET d == Append(RemoveFirst(c, img), img) IN SubSeq(d, 1, IF Len(d) > MaxEntries THEN MaxEntries ELSE Len(d))
Added(c, img) ==
  LET d == Append(RemoveFirst(c, img), img) IN
  SubSeq(d, IF Len(d) > MaxEntries THEN Len(d) - MaxEntries + 1 ELSE 1, Len(d))

(***************************************************************************)
(* One process.                                                            *)
(***************************************************************************)
Load(p) ==
  /\ phase[p] = "off"
  /\ phase' = [phase EXCEPT ![p] = "idle"]
  /\ cache' = [cache EXCEPT ![p] = file]
  /\ UNCHANGED <<registry, verified, file, mu, list, worker, verdict, calls, kills>>

\* VerifyImagesPullable sorts out the cached images and starts a goroutine for
\* every other position of the list.  No goroutine of an earlier call is left.
StartVerify(p, l) ==
  /\ phase[p] = "idle" /\ calls < MaxCalls
  /\ calls' = calls + 1
  /\ phase' = [phase EXCEPT ![p] = "verifying"]
  /\ list' = [list EXCEPT ![p] = l]
  /\ worker' = [worker EXCEPT ![p] =
                  [i \in DOMAIN l |-> IF Contains(cache[p], l[i]) THEN "cached" ELSE "new"]]
  /\ verdict' = [verdict EXCEPT ![p] = "none"]
  /\ UNCHANGED <<registry, verified, file, cache, mu, kills>>

Uncached(p) == {i \in DOMAIN list[p] : worker[p][i] # "cached"}
Working(p) == {i \in DOMAIN list[p] : worker[p][i] \in {"lookup", "verify", "add", "save", "write"}}
GoTo(p, i, label) == worker' = [worker EXCEPT ![p][i] = label]

Acquire(p, i) ==
  /\ worker[p][i] = "new"
  /\ Cardinality(Working(p)) < Min({MaxWorkers, Cardinality(Uncached(p))})
  /\ GoTo(p, i, "lookup")
  /\ UNCHANGED <<registry, verified, file, cache, mu, phase, list, verdict, calls, kills>>

\* VerifyImagePullable asks the cache again: another goroutine may have been
\* given the same image.
IsCached(p, i) ==
  /\ worker[p][i] = "lookup" /\ mu[p] = 0
  /\ GoTo(p, i, IF Contains(cache[p], list[p][i]) THEN "ok" ELSE "verify")
  /\ UNCHANGED <<registry, verified, file, cache, mu, phase, list, verdict, calls, kills>>

\* A pull can also fail although the image is there.
VerifyImageExistenceMutant(p, i) ==
  /\ worker[p][i] = "verify"
  /\ verified' = verified \cup ({list[p][i]} \cap registry)
  /\ GoTo(p, i, "add")
  /\ UNCHANGED <<registry, file, cache, mu, phase, list, verdict, calls, kills>>
VerifyImageExistence(p, i) ==
  /\ worker[p][i] = "verify"
  /\ \/ /\ list[p][i] \in registry
        /\ verified' = verified \cup {list[p][i]}
        /\ GoTo(p, i, "add")
     \/ UNCHANGED verified /\ GoTo(p, i, "failed")
  /\ UNCHANGED <<registry, file, cache, mu, phase, list, verdict, calls, kills>>

\* The mutex is held until the file is written.
AddToCacheMutant(p, i) ==
  /\ worker[p][i] = "add"
  /\ mu' = [mu EXCEPT ![p] = i]
  /\ cache' = [cache EXCEPT ![p] = Added(@, list[p][i])]
  /\ GoTo(p, i, "save")
  /\ UNCHANGED <<registry, verified, file, phase, list, verdict, calls, kills>>
AddToCache(p, i) ==
  /\ worker[p][i] = "add" /\ mu[p] = 0
  /\ mu' = [mu EXCEPT ![p] = i]
  /\ cache' = [cache EXCEPT ![p] = Added(@, list[p][i])]
  /\ GoTo(p, i, "save")
  /\ UNCHANGED <<registry, verified, file, phase, list, verdict, calls, kills>>

OpenCacheFileMutant(p, i) ==
  /\ worker[p][i] = "save"
  /\ \/ file' = <<>> /\ GoTo(p, i, "write")
     \/ UNCHANGED file /\ GoTo(p, i, "ok")
  /\ UNCHANGED <<registry, verified, cache, mu, phase, list, verdict, calls, kills>>

\* os.WriteFile truncates and then writes; errors are ignored.
OpenCacheFile(p, i) ==
  /\ worker[p][i] = "save"
  /\ \/ file' = <<>> /\ GoTo(p, i, "write") /\ UNCHANGED mu
     \/ UNCHANGED file /\ GoTo(p, i, "ok") /\ mu' = [mu EXCEPT ![p] = 0]
  /\ UNCHANGED <<registry, verified, cache, phase, list, verdict, calls, kills>>

\* Over the content of another process it may leave the end of that one, or
\* fail: then the file cannot be read.
WriteCacheFile(p, i) ==
  /\ worker[p][i] = "write"
  /\ file' \in {cache[p], <<>>}
  /\ mu' = [mu EXCEPT ![p] = 0]
  /\ GoTo(p, i, "ok")
  /\ UNCHANGED <<registry, verified, cache, phase, list, verdict, calls, kills>>

Worker(p) ==
  \E i \in DOMAIN list[p] :
    \/ Acquire(p, i) \/ IsCached(p, i) \/ VerifyImageExistence(p, i)
    \/ AddToCache(p, i) \/ OpenCacheFile(p, i) \/ WriteCacheFile(p, i)

\* The results channel is closed after the last goroutine.  It has room for
\* all results, so that no goroutine waits for the collecting loop.
CollectFirstMutant(p) ==
  /\ phase[p] = "verifying"
  /\ Uncached(p) # {} => \E i \in Uncached(p) : worker[p][i] \in {"ok", "failed"}
  /\ phase' = [phase EXCEPT ![p] = "idle"]
  /\ verdict' = [verdict EXCEPT ![p] =
                   IF \E i \in Uncached(p) : worker[p][i] = "failed" THEN "failed" ELSE "pullable"]
  /\ UNCHANGED <<registry, verified, file, cache, mu, list, worker, calls, kills>>
Collect(p) ==
  /\ phase[p] = "verifying"
  /\ \A i \in Uncached(p) : worker[p][i] \in {"ok", "failed"}
  /\ phase' = [phase EXCEPT ![p] = "idle"]
  /\ verdict' = [verdict EXCEPT ![p] =
                   IF \E i \in Uncached(p) : worker[p][i] = "failed" THEN "failed" ELSE "pullable"]
  /\ UNCHANGED <<registry, verified, file, cache, mu, list, worker, calls, kills>>

Forget(p) ==
  /\ phase' = [phase EXCEPT ![p] = "off"]
  /\ cache' = [cache EXCEPT ![p] = <<>>]
  /\ mu' = [mu EXCEPT ![p] = 0]
  /\ list' = [list EXCEPT ![p] = <<>>]
  /\ worker' = [worker EXCEPT ![p] = <<>>]
  /\ verdict' = [verdict EXCEPT ![p] = "none"]

Exit(p) ==
  /\ phase[p] = "idle" /\ Forget(p)
  /\ UNCHANGED <<registry, verified, file, calls, kills>>

Killed(p) ==
  /\ phase[p] = "verifying" /\ kills < MaxKills
  /\ kills' = kills + 1
  /\ Forget(p)
  /\ UNCHANGED <<registry, verified, file, calls>>

ImageRemoved(img) ==
  /\ img \in registry
  /\ Cardinality(Images \ registry) < MaxRemovals
  /\ registry' = registry \ {img}
  /\ UNCHANGED <<verified, file, cache, mu, phase, list, worker, verdict, calls, kills>>

(***************************************************************************)
(* The specification.                                                      *)
(***************************************************************************)
Init ==
  /\ registry = Images /\ verified = {} /\ file = <<>>
  /\ cache = [p \in Processes |-> <<>>] /\ mu = [p \in Processes |-> 0]
  /\ phase = [p \in Processes |-> "off"]
  /\ list = [p \in Processes |-> <<>>] /\ worker = [p \in Processes |-> <<>>]
  /\ verdict = [p \in Processes |-> "none"]
  /\ calls = 0 /\ kills = 0

Next ==
  \/ \E p \in Processes :
       \/ Load(p) \/ Worker(p) \/ Collect(p) \/ Exit(p) \/ Killed(p)
       \/ \E l \in Lists : StartVerify(p, l)
  \/ \E img \in Images : ImageRemoved(img)

Spec == Init /\ [][Next]_vars

(***************************************************************************)
(* Properties.                                                             *)
(***************************************************************************)
Labels == {"cached", "new", "lookup", "verify", "add", "save", "write", "ok", "failed"}

MutexHeld ==
  \A p \in Processes : \A i \in DOMAIN list[p] :
    worker[p][i] \in {"save", "write"} => mu[p] = i

\* Every variable has its type, and a goroutine that changes the cache or writes
\* the file holds the mutex, so that there is one at a time.
TypeOK ==
  /\ registry \subseteq Images /\ verified \subseteq Images
  /\ file \in Seq(Images) /\ cache \in [Processes -> Seq(Images)]
  /\ mu \in [Processes -> Nat]
  /\ phase \in [Processes -> {"off", "idle", "verifying"}]
  /\ list \in [Processes -> Seq(Images)]
  /\ worker \in [Processes -> Seq(Labels)]
  /\ \A p \in Processes : Len(worker[p]) = Len(list[p])
  /\ verdict \in [Processes -> {"none", "pullable", "failed"}]
  /\ calls \in 0 .. MaxCalls /\ kills \in 0 .. MaxKills
  /\ MutexHeld

\* No image is in a cache or in the file that was not pulled at some time: not
\* after a failed pull, a kill during a write, or two writers at once.
CachedIsVerified ==
  /\ ToSet(file) \subseteq verified
  /\ \A p \in Processes : ToSet(cache[p]) \subseteq verified

\* Cache and file hold no image twice and never more than MaxEntries
\* (TestImageCacheMaxEntries), also when two goroutines verify the same image.
NoDuplicates(c) == \A i, j \in DOMAIN c : c[i] = c[j] => i = j
CacheBounded ==
  /\ Len(file) <= MaxEntries /\ NoDuplicates(file)
  /\ \A p \in Processes : Len(cache[p]) <= MaxEntries /\ NoDuplicates(cache[p])

\* VerifyImagesPullable only says yes when every image of its list was pulled,
\* by this call or an earlier one.
VerdictSound ==
  \A p \in Processes : verdict[p] = "pullable" => ToSet(list[p]) \subseteq verified

\* A goroutine that stores or has accepted an image knows that it was pulled, and
\* no call has said yes before all its goroutines accepted.
Accepting ==
  \A p \in Processes : \A i \in DOMAIN list[p] :
    /\ worker[p][i] \in {"cached", "add", "save", "write", "ok"} => list[p][i] \in verified
    /\ verdict[p] = "pullable" => worker[p][i] \in {"cached", "ok"}

\* The images that the current call has to verify itself.
Wanted(p) == {list[p][i] : i \in Uncached(p)}

\* A call puts its images at the end of the cache, behind everything older, and
\* keeps those that it has accepted as long as all of them fit.
EndsIn(c, imgs) == \A i, j \in DOMAIN c : i < j /\ c[i] \in imgs => c[j] \in imgs
FreshLast ==
  \A p \in Processes :
    /\ phase[p] = "off" => list[p] = <<>>
    /\ EndsIn(cache[p], Wanted(p))
    /\ Cardinality(Wanted(p)) <= MaxEntries =>
         \A i \in Uncached(p) :
           worker[p][i] \in {"ok", "save", "write"} => list[p][i] \in ToSet(cache[p])

\* Goroutines only work while their call runs, and one that holds the mutex is on
\* its way to give it back.
HolderWorks ==
  \A p \in Processes :
    /\ phase[p] # "verifying" =>
         \A i \in DOMAIN list[p] : worker[p][i] \in {"cached", "ok", "failed"}
    /\ mu[p] # 0 => mu[p] \in DOMAIN list[p] /\ worker[p][mu[p]] \in {"save", "write"}

\* The inductive invariant of the proofs.
IndInv ==
  TypeOK /\ CachedIsVerified /\ CacheBounded /\ Accepting /\ FreshLast /\ HolderWorks

\* The images that a call has just verified outlast it in the cache, unless
\* they are more than fit; adding one never pushes out another.
FreshStay ==
  \A p \in Processes :
    LET fresh == {list[p][i] : i \in {j \in Uncached(p) : worker[p][j] \in {"ok", "save", "write"}}} IN
    Cardinality(Wanted(p)) <= MaxEntries => fresh \subseteq ToSet(cache[p])

\* A call can always go on until it has returned: all results are there, or some
\* goroutine finds room in the semaphore, finds the mutex free, or needs neither.
CanGoOn(p) ==
  \/ \A i \in Uncached(p) : worker[p][i] \in {"ok", "failed"}
  \/ \E i \in Uncached(p) :
       \/ worker[p][i] = "new" /\ Cardinality(Working(p)) < Min({MaxWorkers, Cardinality(Uncached(p))})
       \/ worker[p][i] \in {"lookup", "add"} /\ mu[p] = 0
       \/ worker[p][i] \in {"verify", "save", "write"}
NeverStuck == \A p \in Processes : phase[p] = "verifying" => CanGoOn(p)

\* What CanGoOn spells out is that a step of the process is enabled.
GoingOnIsEnabled ==
  \A p \in Processes : phase[p] = "verifying" => (CanGoOn(p) <=> ENABLED (Worker(p) \/ Collect(p)))

\* The steps that the goroutines of a call may still take at most.  Each step of one
\* takes something of it and nothing gives it back, so that, being never stuck, a call
\* returns after at most six steps of each of its goroutines, whatever else happens.
Stages == <<"write", "save", "add", "verify", "lookup", "new">>
StepsLeft(p) ==
  {e \in (DOMAIN list[p]) \X (1 .. 6) : \E m \in e[2] .. 6 : worker[p][e[1]] = Stages[m]}
CallsAdvance ==
  [][\A p \in Processes :
       /\ Worker(p) => StepsLeft(p)' \subseteq StepsLeft(p) /\ StepsLeft(p)' # StepsLeft(p)
       /\ phase[p] = "verifying" => StepsLeft(p)' \subseteq StepsLeft(p)]_vars
=============================================================================
