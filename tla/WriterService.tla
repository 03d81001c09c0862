---------------------------- MODULE WriterService ----------------------------
(***************************************************************************)
(* What Codex writers are promised about one thread: at most one of them   *)
(* holds it, and a writer is turned away only while another writer holds   *)
(* it.  A diagnostic that looks at the lock does not occur here at all: it *)
(* must be invisible (src/docs/cli-reference.md, "Native coordination      *)
(* during probes").                                                        *)
(***************************************************************************)
CONSTANTS Writers, NoOne

VARIABLES
  holder,   \* the writer that holds the thread
  answer    \* answer[w]: what w was told when it asked for the thread

Init == /\ holder = NoOne
        /\ answer = [w \in Writers |-> "none"]

Grant(w) == /\ answer[w] = "none"
            /\ holder = NoOne
            /\ holder' = w
            /\ answer' = [answer EXCEPT ![w] = "granted"]

Deny(w) == /\ answer[w] = "none"
           /\ holder \in Writers \ {w}
           /\ answer' = [answer EXCEPT ![w] = "denied"]
           /\ UNCHANGED holder

\* A writer drops the thread, or dies.
Release(w) == /\ holder = w
              /\ holder' = NoOne
              /\ answer' = [answer EXCEPT ![w] = "none"]

\* A writer that was turned away is done with its request.
Retire(w) == /\ answer[w] = "denied"
             /\ answer' = [answer EXCEPT ![w] = "none"]
             /\ UNCHANGED holder

Next == \E w \in Writers : Grant(w) \/ Deny(w) \/ Release(w) \/ Retire(w)

Spec == Init /\ [][Next]_<<holder, answer>>
=============================================================================
