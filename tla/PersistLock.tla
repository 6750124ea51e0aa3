---------------------------- MODULE PersistLock ----------------------------
(***************************************************************************)
(* lib/server/persist-lock.ts: a lock made of nothing but promises.        *)
(*                                                                         *)
(* Call n registers its section on the promise persistChain holds at that  *)
(* moment and leaves, in persistChain, a promise that settles when its own *)
(* section has.  There is no queue and no owner: that the sections run one *)
(* at a time, in the order of the calls, whatever becomes of each, is what *)
(* has to be shown.                                                        *)
(***************************************************************************)
EXTENDS Naturals, Sequences

CONSTANT MaxCalls   \* bound: calls of withPersistLock

ASSUME MaxCallsAssumption == MaxCalls \in Nat

VARIABLES
    calls,          \* withPersistLock has been called this often
    persistChain,   \* the call whose promise the variable holds; 0: resolved
    after,          \* call -> the call whose promise its section waits for
    state           \* call -> what has become of its section

lockVars == <<calls, persistChain, after, state>>

Calls == 1 .. MaxCalls
Settled == {"fulfilled", "rejected"}
States == {"uncalled", "waiting", "running"} \cup Settled

LockTypeOK ==
    /\ calls \in 0 .. MaxCalls
    /\ persistChain \in 0 .. MaxCalls
    /\ after \in [Calls -> 0 .. MaxCalls]
    /\ state \in [Calls -> States]

LockInit ==
    /\ calls = 0
    /\ persistChain = 0
    /\ after = [n \in Calls |-> 0]
    /\ state = [n \in Calls |-> "uncalled"]

\* Mutant: the call forgets to move persistChain on.
CallForgets(n) ==
    /\ n = calls + 1
    /\ calls' = n
    /\ after' = [after EXCEPT ![n] = persistChain]
    /\ state' = [state EXCEPT ![n] = "waiting"]
    /\ UNCHANGED persistChain

\* The call itself is synchronous: it reads and replaces persistChain.
Call(n) ==
    /\ n = calls + 1
    /\ calls' = n
    /\ after' = [after EXCEPT ![n] = persistChain]
    /\ persistChain' = n
    /\ state' = [state EXCEPT ![n] = "waiting"]

StartAfterSuccess(n) ==
    /\ state[n] = "waiting"
    /\ after[n] # 0 => state[after[n]] = "fulfilled"
    /\ state' = [state EXCEPT ![n] = "running"]
    /\ UNCHANGED <<calls, persistChain, after>>

\* persistChain.then(fn, fn): fn runs once the promise has settled; both of
\* the chained promises resolve, so a rejected section counts as settled.
Start(n) ==
    /\ state[n] = "waiting"
    /\ after[n] # 0 => state[after[n]] \in Settled
    /\ state' = [state EXCEPT ![n] = "running"]
    /\ UNCHANGED <<calls, persistChain, after>>

\* Mutant: a throw rejects every promise chained behind it as well.
SettleRejectsAll(n) ==
    /\ state[n] = "running"
    /\ \/ state' = [state EXCEPT ![n] = "fulfilled"]
       \/ state' = [m \in Calls |-> IF m >= n /\ m <= calls THEN "rejected" ELSE state[m]]
    /\ UNCHANGED <<calls, persistChain, after>>

\* fn returns or throws.
Settle(n) ==
    /\ state[n] = "running"
    /\ \E outcome \in Settled : state' = [state EXCEPT ![n] = outcome]
    /\ UNCHANGED <<calls, persistChain, after>>

LockNext == \E n \in Calls : Call(n) \/ Start(n) \/ Settle(n)

LockSpec == LockInit /\ [][LockNext]_lockVars

\* Every microtask runs, and every section's own awaits end.
SectionsGoOn == \E n \in Calls : Start(n) \/ Settle(n)

LockFairSpec == LockSpec /\ WF_lockVars(SectionsGoOn)

----------------------------------------------------------------------------
\* The calls up to d have settled; the one after it may run; all later ones
\* wait.
Front(d) ==
    \A n \in 1 .. calls :
        /\ n <= d <=> state[n] \in Settled
        /\ n > d + 1 => state[n] = "waiting"

\* What makes it a queue, although nothing in the code is one: persistChain
\* always holds the latest call's promise, every call waits for the call
\* before it, and so there is a front that moves along the calls.
ChainOfCalls ==
    /\ LockTypeOK
    /\ persistChain = calls
    /\ \A n \in Calls : n > calls <=> state[n] = "uncalled"
    /\ \A n \in 1 .. calls : after[n] = n - 1
    /\ \E d \in 0 .. calls : Front(d)

\* Two sections never run at the same time.
MutualExclusion ==
    \A m, n \in Calls : state[m] = "running" /\ state[n] = "running" => m = n

\* A section starts only after the sections of all earlier calls settled.
CallOrder ==
    \A m, n \in Calls : m < n /\ state[n] \in {"running"} \cup Settled => state[m] \in Settled

\* Every section runs and settles, even when sections before it reject: again
\* and again there is nobody left in the lock.  (A state of a section is never
\* taken back and the calls are finitely many, so this is the same as that each
\* of them settles.)
EverySectionSettles ==
    []<>(\A n \in Calls : state[n] \in {"uncalled"} \cup Settled)

\* The chain implements the FIFO lock: the queue is the calls that have not
\* settled.
Gone == CHOOSE d \in 0 .. calls : Front(d)

Fifo == INSTANCE FifoLock WITH Callers <- Calls,
                              queue <- [i \in 1 .. calls - Gone |-> Gone + i]

ImplementsFifoLock == Fifo!Spec
=============================================================================
