------------------------------ MODULE WarmPool ------------------------------
(***************************************************************************)
(* The warm pool of the control plane (controlplane/warmpool.go): computes *)
(* booted ahead of demand and handed out first-in first-out.               *)
(*                                                                         *)
(* Every method of WarmPool holds p.mu from its first to its last          *)
(* statement, boots included, so each of them is one action here.          *)
(* Instances are numbered in the order the engine boots them: newID is     *)
(* taken to be unique, and a host name is a function of the instance ID,   *)
(* so the number stands for both.                                          *)
(*                                                                         *)
(* Names carry the prefix Pool because Endpoints EXTENDS this module and   *)
(* uses PoolAcquire inside its own actions.                                *)
(***************************************************************************)
EXTENDS Naturals, Sequences, FiniteSets

CONSTANTS
  Policy,       \* "fixed" or "load-proportional"
  FixedSize,    \* FixedPolicy.N
  BufferNum,    \* LoadProportionalPolicy.Buffer is BufferNum / BufferDen
  BufferDen,
  MinReady,     \* LoadProportionalPolicy.Min
  MaxReady,     \* LoadProportionalPolicy.Max
  Fallible,     \* the port calls whose adapter may return an error
  MaxAcquires   \* bound: calls of Acquire in the pool's own specification

PortCalls == {"boot", "attach", "credential", "suspend", "branch"}

ASSUME PolicyAssumption ==
  /\ Policy \in {"fixed", "load-proportional"}
  /\ FixedSize \in Nat
  /\ BufferNum \in Nat
  /\ BufferDen \in Nat \ {0}
  /\ MinReady \in Nat
  /\ MaxReady \in Nat

ASSUME BoundAssumption ==
  /\ Fallible \subseteq PortCalls
  /\ MaxAcquires \in Nat

VARIABLES
  ready,    \* p.ready, the queue of warm instances
  recent,   \* len(p.recent): one timestamp per Acquire, never pruned
  live,     \* how many of those timestamps are less than a minute old
  hits,     \* p.hits
  misses,   \* p.misses
  booted,   \* history: instances the engine has booted for this pool
  handed,   \* history: instances Acquire has returned
  dropped,  \* history: instances Drain has forgotten
  short     \* history: the pool was drained, or a boot failed, since it was
            \* last filled to its target

poolVars == <<ready, recent, live, hits, misses, booted, handed, dropped, short>>

Elements(s) == {s[i] : i \in DOMAIN s}

-----------------------------------------------------------------------------
(* The policies. *)

\* Mutation: the upper clamp is forgotten.
ClampWithoutMax(n) == IF n < MinReady THEN MinReady ELSE n

\* Lifted to at least MinReady first, cut to at most MaxReady second, so the
\* maximum wins when the two are the wrong way round. The Go conversion
\* int(float64(recent) * Buffer) truncates, which is \div for naturals.
Clamp(n) ==
  LET lifted == IF n < MinReady THEN MinReady ELSE n
  IN  IF lifted > MaxReady THEN MaxReady ELSE lifted

Target(n) ==
  IF Policy = "fixed" THEN FixedSize ELSE Clamp((n * BufferNum) \div BufferDen)

\* The largest pool the policy ever asks for.
Capacity == IF Policy = "fixed" THEN FixedSize ELSE MaxReady

-----------------------------------------------------------------------------
(* The operations. *)

\* Mutation: the refill loop stops one short of the target.
ShortfallOffByOne(n, target) == IF n + 1 < target THEN target - n - 1 ELSE 0

Shortfall(n, target) == IF n < target THEN target - n ELSE 0

\* replenishLocked, from the queue rest when used instances exist and the
\* demand is n: boots until the target is met or a boot fails.
PoolReplenish(rest, used, n) ==
  LET missing == Shortfall(Len(rest), Target(n))
  IN  \E k \in 0 .. missing :
        /\ k # missing => "boot" \in Fallible
        /\ ready' = rest \o [j \in 1 .. k |-> used + j]
        /\ booted' = used + k
        /\ short' = (k # missing)

\* Mutations: the head is returned but stays in the queue; the refill after a
\* hit is left out.
PoolHitWithoutPop(i) ==
  /\ ready # <<>>
  /\ i = Head(ready)
  /\ live' = live + 1
  /\ PoolReplenish(ready, booted, live')
  /\ hits' = hits + 1
  /\ UNCHANGED misses

PoolHitWithoutBackfill(i) ==
  /\ ready # <<>>
  /\ i = Head(ready)
  /\ live' = live + 1
  /\ ready' = Tail(ready)
  /\ hits' = hits + 1
  /\ UNCHANGED <<misses, booted, short>>

\* Acquire on a pool with a warm instance: the head of the queue, backfilled.
\* The timestamp is recorded before the queue is looked at, so the refill
\* already counts this request as demand.
PoolHit(i) ==
  /\ ready # <<>>
  /\ i = Head(ready)
  /\ live' = live + 1
  /\ PoolReplenish(Tail(ready), booted, live')
  /\ hits' = hits + 1
  /\ UNCHANGED misses

\* Acquire on an empty pool: a cold boot, then the refill. The boot takes as
\* long as the engine needs, and the window is read only after it: timestamps,
\* this request's own included, may have left it.
PoolMiss(i) ==
  /\ ready = <<>>
  /\ i = booted + 1
  /\ live' \in 0 .. live + 1
  /\ PoolReplenish(<<>>, i, live')
  /\ misses' = misses + 1
  /\ UNCHANGED hits

\* Acquire that returns instance i.
PoolAcquire(i) ==
  /\ PoolHit(i) \/ PoolMiss(i)
  /\ recent' = recent + 1
  /\ handed' = handed \cup {i}
  /\ UNCHANGED dropped

\* Mutations: a failed boot leaves no timestamp in p.recent; a failed boot is
\* counted as a miss.
PoolAcquireFailsUnrecorded ==
  /\ ready = <<>>
  /\ "boot" \in Fallible
  /\ live' = live + 1
  /\ short' = TRUE
  /\ UNCHANGED <<ready, recent, hits, misses, booted, handed, dropped>>

PoolAcquireFailsCounted ==
  /\ ready = <<>>
  /\ "boot" \in Fallible
  /\ recent' = recent + 1
  /\ live' = live + 1
  /\ misses' = misses + 1
  /\ short' = TRUE
  /\ UNCHANGED <<ready, hits, booted, handed, dropped>>

\* Acquire whose cold boot fails. The request still counts as demand.
PoolAcquireFails ==
  /\ ready = <<>>
  /\ "boot" \in Fallible
  /\ recent' = recent + 1
  /\ live' = live + 1
  /\ short' = TRUE
  /\ UNCHANGED <<ready, hits, misses, booted, handed, dropped>>

\* Drain forgets the warm instances. Nothing stops or refills them.
PoolDrain ==
  /\ ready # <<>>
  /\ ready' = <<>>
  /\ dropped' = dropped \cup Elements(ready)
  /\ short' = TRUE
  /\ UNCHANGED <<recent, live, hits, misses, booted, handed>>

\* Time passes: timestamps leave the one-minute window recentAcquiresLocked
\* counts. No code runs, and the pool is not resized.
PoolAge ==
  /\ live > 0
  /\ live' \in 0 .. live - 1
  /\ UNCHANGED <<ready, recent, hits, misses, booted, handed, dropped, short>>

-----------------------------------------------------------------------------
(* The pool on its own. *)

\* NewWarmPool fills the pool for no demand at all.
PoolInit ==
  /\ \E k \in 0 .. Target(0) :
       /\ k # Target(0) => "boot" \in Fallible
       /\ ready = [j \in 1 .. k |-> j]
       /\ booted = k
       /\ short = (k # Target(0))
  /\ recent = 0
  /\ live = 0
  /\ hits = 0
  /\ misses = 0
  /\ handed = {}
  /\ dropped = {}

\* The instance an Acquire returns next, whether it is warm or booted for it.
NextInstance == IF ready = <<>> THEN booted + 1 ELSE Head(ready)

PoolNext ==
  \/ recent < MaxAcquires /\ PoolAcquire(NextInstance)
  \/ recent < MaxAcquires /\ PoolAcquireFails
  \/ PoolDrain
  \/ PoolAge
  \/ recent = MaxAcquires /\ UNCHANGED poolVars  \* nobody calls any more

PoolSpec == PoolInit /\ [][PoolNext]_poolVars

\* The pool for callers that call it as often as they like.
PoolCall == PoolAcquire(NextInstance) \/ PoolAcquireFails \/ PoolDrain \/ PoolAge

PoolService == PoolInit /\ [][PoolCall]_poolVars

-----------------------------------------------------------------------------
(* Properties. *)

\* The variables hold what the fields of WarmPool can hold.
PoolTypeOK ==
  /\ ready \in Seq(Nat \ {0})
  /\ recent \in Nat
  /\ live \in 0 .. recent
  /\ hits \in Nat
  /\ misses \in Nat
  /\ booted \in Nat
  /\ handed \in SUBSET (Nat \ {0})
  /\ dropped \in SUBSET (Nat \ {0})
  /\ short \in BOOLEAN

\* No instance the engine boots is lost or handed out twice: each one is warm,
\* or was returned by exactly one Acquire, or was forgotten by a Drain, and the
\* warm ones stand in the queue in the order they were booted.
PoolPartition ==
  LET gone == booted - Len(ready)
  IN  /\ Len(ready) <= booted
      /\ \A j \in DOMAIN ready : ready[j] = gone + j
      /\ handed \cup dropped = 1 .. gone
      /\ handed \cap dropped = {}

\* Across bursts, failed boots, drains and refills the queue never holds more
\* instances than the policy's largest target, so idle cost is bounded.
PoolWithinCapacity == Len(ready) <= Capacity

\* Unless a boot failed or the pool was drained since its last fill, the pool
\* holds at least the target for the demand of the last minute, also while
\* timestamps leave the window with no code running.
FilledToTarget == short \/ Len(ready) >= Target(live)

\* Stats counts each Acquire that returned an instance once, as a hit or as a
\* miss; failed ones are in neither, and are only in the demand signal.
PoolAccounting ==
  /\ hits + misses = Cardinality(handed)
  /\ hits + misses <= recent

\* A request pays for a cold boot only when the pool could not be filled since
\* it was drained or a boot failed, or the policy keeps nothing warm for the
\* demand there was.
MissOnlyWhenShort ==
  [][misses' # misses => short \/ Target(live) = 0]_poolVars
=============================================================================
