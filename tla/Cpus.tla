-------------------------------- MODULE Cpus --------------------------------
(***************************************************************************)
(* How EventManager spreads its threads over the processors: cpu_ counts   *)
(* the threads bound to each; a processor the configuration detaches has   *)
(* INT32_MAX.  Initialize() binds the log thread, AddWorker() one worker.  *)
(***************************************************************************)
EXTENDS Integers, Sequences, FiniteSetsExt

CONSTANTS
    CpCount,        \* getCPUCount()
    CpIntMax,       \* bound: stands for INT32_MAX
    CpMaxWorker     \* bound: calls of AddWorker

ASSUME CpAssumption ==
    /\ CpCount \in Nat \ {0}
    /\ CpMaxWorker \in Nat /\ CpIntMax \in Nat /\ CpIntMax > CpMaxWorker + 1

VARIABLES
    cpLoad,     \* cpu_
    cpDetach,   \* the indices in "detach"
    cpBound,    \* the index given to each thread, in order: the log first
    cpPc        \* "setup", or "run" once Initialize has returned

cpVars == <<cpLoad, cpDetach, cpBound, cpPc>>

\* EventManager's constructor; "detach" may name processors there are not
CPInit ==
    /\ cpLoad = [i \in 1..CpCount |-> 0]
    /\ cpDetach \in SUBSET (1..(CpCount + 1))
    /\ cpBound = << >> /\ cpPc = "setup"

\* An int32_t after the increment
Increment(n) == IF n = CpIntMax THEN - CpIntMax - 1 ELSE n + 1

\* Mutant: min is never assigned
LeastLoadedKeepsMin(load) ==
    LET below == {i \in DOMAIN load : CpIntMax > load[i]}
    IN  IF below = {} THEN 1 ELSE Max(below)

\* The search for the first of the smallest entries below INT32_MAX, which
\* leaves the index 0 when there is none
LeastLoaded(load) ==
    LET below == {i \in DOMAIN load : load[i] < CpIntMax}
        least == {i \in below : \A j \in below : load[i] <= load[j]}
    IN  IF below = {} THEN 1 ELSE Min(least)

\* -1 when threads are not bound
Bind(load) ==
    IF load = << >>
    THEN /\ cpLoad' = load
         /\ cpBound' = Append(cpBound, -1)
    ELSE /\ cpLoad' = [load EXCEPT ![LeastLoaded(load)] = Increment(@)]
         /\ cpBound' = Append(cpBound, LeastLoaded(load))

\* Initialize: "detach", then "bind_cpu", then the log thread
CPInitialize(bind_cpu) ==
    /\ cpPc = "setup"
    /\ cpPc' = "run"
    /\ Bind(IF bind_cpu
            THEN [i \in DOMAIN cpLoad |-> IF i \in cpDetach THEN CpIntMax ELSE cpLoad[i]]
            ELSE << >>)
    /\ UNCHANGED cpDetach

AddWorker ==
    /\ cpPc = "run"
    /\ Len(cpBound) <= CpMaxWorker
    /\ Bind(cpLoad)
    /\ UNCHANGED <<cpDetach, cpPc>>

CPNext == (\E bind_cpu \in BOOLEAN : CPInitialize(bind_cpu)) \/ AddWorker

-----------------------------------------------------------------------------
\* Threads bound to processor i
On(i) == Cardinality({j \in DOMAIN cpBound : cpBound[j] = i})

\* Over any number of AddWorker() calls the threads stay evenly spread over the
\* processors that are not detached and none runs on one that is; when all are
\* detached the first counter overflows and every thread is bound to it.
CPBalanced ==
    LET free == (1..CpCount) \ cpDetach
    IN  cpPc = "run" /\ cpLoad # << >> =>
          IF free = {} THEN On(1) = Len(cpBound)
          ELSE /\ \A i, j \in free : On(i) <= On(j) + 1
               /\ \A i \in cpDetach : On(i) = 0
=============================================================================
