--------------------------- MODULE SgxRenderQueue ---------------------------
(***************************************************************************)
(* What the SGX render node promises its clients about the order and the   *)
(* outcome of renders (include/uapi/drm/apple_sgx_drm.h, "SUBMIT"):        *)
(* renders run one at a time; those of one file, and those that list a     *)
(* common buffer, run in the order they were submitted; each gets one      *)
(* outcome, and keeps it.                                                  *)
(*                                                                         *)
(* SgxRender is the driver that keeps the promise: its property            *)
(* KeepsPromise says that it implements this specification.                *)
(***************************************************************************)
EXTENDS Naturals

CONSTANTS Jobs,     \* the renders ever submitted
          Shapes,   \* what a submit may say (SgxRender)
          None      \* no render

VARIABLES submitted, \* how many were submitted
          num,      \* [Jobs -> Nat], the place in the order of submission, 0 = none
          shape,    \* [Jobs -> Shapes], of a submitted render
          queued,   \* submitted and not started
          current,  \* the render running, or None
          fin       \* [Jobs -> {"none", "ok", "failed"}], the outcome

vars == <<submitted, num, shape, queued, current, fin>>

(* Renders whose order the clients can tell. *)
Conflict(s, t) == s.file = t.file \/ s.bos \cap t.bos # {}

Init ==
    /\ submitted = 0
    /\ num = [j \in Jobs |-> 0]
    /\ shape = [j \in Jobs |-> None]
    /\ queued = {}
    /\ current = None
    /\ fin = [j \in Jobs |-> "none"]

Submit(j, s) ==
    /\ num[j] = 0
    /\ submitted' = submitted + 1
    /\ num' = [num EXCEPT ![j] = submitted']
    /\ shape' = [shape EXCEPT ![j] = s]
    /\ queued' = queued \cup {j}
    /\ UNCHANGED <<current, fin>>

Start(j) ==
    /\ current = None
    /\ j \in queued
    /\ \A i \in queued : num[i] < num[j] => ~Conflict(shape[i], shape[j])
    /\ queued' = queued \ {j}
    /\ current' = j
    /\ UNCHANGED <<submitted, num, shape, fin>>

End(result) ==
    /\ current # None
    /\ fin' = [fin EXCEPT ![current] = result]
    /\ current' = None
    /\ UNCHANGED <<submitted, num, shape, queued>>

(* A file closed: its renders that have not started never will. *)
Drop(js) ==
    /\ js \subseteq queued
    /\ queued' = queued \ js
    /\ fin' = [j \in Jobs |-> IF j \in js THEN "failed" ELSE fin[j]]
    /\ UNCHANGED <<submitted, num, shape, current>>

Next ==
    \/ \E j \in Jobs, s \in Shapes : Submit(j, s)
    \/ \E j \in Jobs : Start(j)
    \/ \E r \in {"ok", "failed"} : End(r)
    \/ \E js \in SUBSET queued : Drop(js)

Spec == Init /\ [][Next]_vars
=============================================================================
