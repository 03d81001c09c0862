---------------------------- MODULE ListWorkers ----------------------------
(***************************************************************************)
(* listThreads of src/src/inspection.ts: at most LIST_INSPECTION_CONCUR-   *)
(* RENCY workers take the threads in order from a shared index and inspect *)
(* them concurrently.  After a failure nothing more is dispatched, the     *)
(* inspections under way are drained, and the first error is thrown.       *)
(***************************************************************************)
EXTENDS Naturals

CONSTANTS
  Threads,      \* threadIds.length, after the names were filtered and sorted
  Concurrency   \* LIST_INSPECTION_CONCURRENCY

ASSUME ListAssumption ==
  /\ Threads \in Nat
  /\ Concurrency \in Nat \ {0}

\* Array.from({ length: Math.min(LIST_INSPECTION_CONCURRENCY, n) }, ...)
Workers == {w \in 1..Concurrency : w <= Threads}
None == 0

VARIABLES
  nextIndex,   \* the last thread that was dispatched
  at,          \* at[w]: the thread that w inspects, None between two
  running,     \* workers whose promise is not resolved
  sessions,    \* the threads whose result is stored, each in its own slot
  failed,
  firstError,  \* the thread whose error will be thrown
  errors,      \* history: the threads whose inspection threw
  outcome      \* "pending", "listed" or "threw"

vars == <<nextIndex, at, running, sessions, failed, firstError, errors, outcome>>

TypeOK ==
  /\ nextIndex \in 0..Threads
  /\ at \in [Workers -> 0..Threads]
  /\ running \subseteq Workers
  /\ sessions \subseteq 1..Threads
  /\ failed \in BOOLEAN
  /\ firstError \in 0..Threads
  /\ errors \subseteq 1..Threads
  /\ outcome \in {"pending", "listed", "threw"}

Init ==
  /\ nextIndex = 0
  /\ at = [w \in Workers |-> None]
  /\ running = Workers
  /\ sessions = {} /\ errors = {}
  /\ failed = FALSE /\ firstError = None
  /\ outcome = "pending"

Busy(w) == at[w] # None

\* A faulty loop that stops one short.
OneShort == ~failed /\ nextIndex + 1 < Threads

\* !failed && nextIndex < threadIds.length
MayDispatch == ~failed /\ nextIndex < Threads

\* The worker takes the next thread; nothing comes between the test, the
\* increment and the start of the inspection.
Dispatch(w) ==
  /\ w \in running /\ ~Busy(w)
  /\ MayDispatch
  /\ nextIndex' = nextIndex + 1
  /\ at' = [at EXCEPT ![w] = nextIndex']
  /\ UNCHANGED <<running, sessions, failed, firstError, errors, outcome>>

\* The worker's loop ends.
Retire(w) ==
  /\ w \in running /\ ~Busy(w)
  /\ ~MayDispatch
  /\ running' = running \ {w}
  /\ UNCHANGED <<nextIndex, at, sessions, failed, firstError, errors, outcome>>

\* inspectThread resolves: the result goes to the slot of its thread.
Succeeds(w) ==
  /\ Busy(w)
  /\ sessions' = sessions \cup {at[w]}
  /\ at' = [at EXCEPT ![w] = None]
  /\ UNCHANGED <<nextIndex, running, failed, firstError, errors, outcome>>

\* if (!failed) firstError = error
KeepFirst(w) == firstError' = IF failed THEN firstError ELSE at[w]

Throws(w) ==
  /\ Busy(w)
  /\ KeepFirst(w)
  /\ failed' = TRUE
  /\ errors' = errors \cup {at[w]}
  /\ at' = [at EXCEPT ![w] = None]
  /\ UNCHANGED <<nextIndex, running, sessions, outcome>>

\* Promise.all of the workers, which never reject.
Drained == running = {}

Settle ==
  /\ outcome = "pending" /\ Drained
  /\ outcome' = IF failed THEN "threw" ELSE "listed"
  /\ UNCHANGED <<nextIndex, at, running, sessions, failed, firstError, errors>>

Worker(w) == Dispatch(w) \/ Retire(w) \/ Succeeds(w) \/ Throws(w)

Next == Settle \/ \E w \in Workers : Worker(w)

Spec == Init /\ [][Next]_vars

-----------------------------------------------------------------------------
\* A result lists every thread, each inspected, or one error is thrown: no
\* thread is skipped and no slot of sessions is left empty.
Complete == outcome = "listed" => sessions = 1..Threads /\ errors = {}

\* Nothing is inspected any more when the caller learns the result.
NoStragglers == outcome # "pending" => \A w \in Workers : ~Busy(w)

\* No two workers inspect the same thread, and none inspects a thread again.
EachOnce ==
  \A w \in Workers : Busy(w) =>
    /\ at[w] \notin sessions \cup errors
    /\ \A v \in Workers : at[v] = at[w] => v = w

\* The first failure decides: what it threw is thrown in the end, and after it
\* no thread is dispatched, although others are still inspected.
FirstErrorStands ==
  [][failed => firstError' = firstError /\ nextIndex' = nextIndex]_vars
=============================================================================
