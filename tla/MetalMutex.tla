----------------------------- MODULE MetalMutex -----------------------------
(***************************************************************************)
(* The libmetal mutex of the generic system                                *)
(* (include/metal/system/generic/mutex.h) on the compare-and-swap macros   *)
(* of include/metal/compiler/gcc/atomic.h.  atomic_compare_exchange_weak   *)
(* is the strong one, and it always writes the old value of the lock back  *)
(* into the caller's expected value; __metal_mutex_acquire does not reset  *)
(* that value between two attempts.                                        *)
(***************************************************************************)
EXTENDS Naturals, FiniteSets

CONSTANTS Spinners,  \* contexts that take the lock with metal_mutex_acquire
          Tryers,    \* contexts that take it with metal_mutex_try_acquire
          Handlers   \* contexts that are interrupt handlers of the one core

Context == Spinners \cup Tryers

ASSUME ContextAssumption == Spinners \cap Tryers = {} /\ Handlers \subseteq Context

METAL_MUTEX_UNLOCKED == 0
METAL_MUTEX_LOCKED   == 1

VARIABLES v,         \* mutex->v
          unlocked,  \* the expected value, a local variable of each call
          pc         \* "out", "cas" (about to swap) or "in" (owns the lock)

vars == <<v, unlocked, pc>>

Init ==
  /\ v = METAL_MUTEX_UNLOCKED
  /\ unlocked = [c \in Context |-> METAL_MUTEX_UNLOCKED]
  /\ pc = [c \in Context |-> "out"]

\* A context enters metal_mutex_acquire or metal_mutex_try_acquire.
CallLock(c) ==
  /\ pc[c] = "out"
  /\ unlocked' = [unlocked EXCEPT ![c] = METAL_MUTEX_UNLOCKED]
  /\ pc' = [pc EXCEPT ![c] = "cas"]
  /\ UNCHANGED v

\* Mutant: a failed swap leaves the expected value alone.
CompareExchangeKeepsExpected(c, ok) ==
  /\ pc[c] = "cas"
  /\ ok <=> v = unlocked[c]
  /\ v' = IF ok THEN METAL_MUTEX_LOCKED ELSE v
  /\ UNCHANGED unlocked

\* atomic_compare_exchange_strong(&mutex->v, &unlocked, LOCKED); ok is its
\* result.
CompareExchange(c, ok) ==
  /\ pc[c] = "cas"
  /\ ok <=> v = unlocked[c]
  /\ v' = IF ok THEN METAL_MUTEX_LOCKED ELSE v
  /\ unlocked' = [unlocked EXCEPT ![c] = v]

Acquired(c) ==
  /\ CompareExchange(c, TRUE)
  /\ pc' = [pc EXCEPT ![c] = "in"]

\* The while loop of __metal_mutex_acquire goes round.
SpinAgain(c) ==
  /\ c \in Spinners
  /\ CompareExchange(c, FALSE)
  /\ UNCHANGED pc

\* __metal_mutex_try_acquire returns 0.
TryFails(c) ==
  /\ c \in Tryers
  /\ CompareExchange(c, FALSE)
  /\ pc' = [pc EXCEPT ![c] = "out"]

Release(c) ==
  /\ pc[c] = "in"
  /\ v' = METAL_MUTEX_UNLOCKED
  /\ pc' = [pc EXCEPT ![c] = "out"]
  /\ UNCHANGED unlocked

\* A handler that has begun runs to its end before anything else on its core.
Preempted(c) == \E h \in Handlers \ {c} : pc[h] # "out"

ContextStep(c) ==
  \/ CallLock(c) \/ Acquired(c) \/ SpinAgain(c) \/ TryFails(c) \/ Release(c)

Next == \E c \in Context : ~Preempted(c) /\ ContextStep(c)

Spec == Init /\ [][Next]_vars

\* A handler inside a call takes its next step: it has the core to itself.
FairSpec ==
  Spec /\ \A h \in Handlers : WF_vars(~Preempted(h) /\ ContextStep(h))
-----------------------------------------------------------------------------
\* At most one context is between acquire and release.
MutualExclusion ==
  \A c, d \in Context : pc[c] = "in" /\ pc[d] = "in" => c = d

\* An interrupt handler's lock call returns although the context it
\* interrupted may own the mutex and cannot run: the handler is not stuck in
\* the spin loop of __metal_mutex_acquire.
HandlerNeverStuck ==
  \A h \in Handlers : pc[h] = "cas" ~> pc[h] # "cas"
=============================================================================
