---------------------------- MODULE ImmutableStore ----------------------------
(***************************************************************************)
(* What the ArtifactStore protocol promises its callers: a version, once   *)
(* bound to a digest, keeps it; a promise is made only for the digest the  *)
(* version is bound to; and only a binding without a promise may still be  *)
(* lost.                                                                   *)
(***************************************************************************)
CONSTANTS Objects, Digests, None

VARIABLES
    bound,     \* the digest each object is bound to, or None
    promised   \* <<object, digest>> pairs that are never lost

ivars == <<bound, promised>>

Init ==
    /\ bound = [o \in Objects |-> None]
    /\ promised = {}

Bind(o, d) ==
    /\ bound[o] = None
    /\ bound' = [bound EXCEPT ![o] = d]
    /\ UNCHANGED promised

\* From now on these bindings are never lost.
Promise(pairs) ==
    /\ \A x \in pairs : bound[x[1]] = x[2]
    /\ promised' = promised \cup pairs
    /\ UNCHANGED bound

\* A crash may lose any bindings that were not promised, and what of the
\* others it left on the disk may count as promised from then on.
Forget(lost, pairs) ==
    /\ \A x \in promised \cup pairs : x[1] \notin lost
    /\ \A x \in pairs : bound[x[1]] = x[2]
    /\ bound' = [o \in Objects |-> IF o \in lost THEN None ELSE bound[o]]
    /\ promised' = promised \cup pairs

Next ==
    \/ \E o \in Objects, d \in Digests : Bind(o, d)
    \/ \E pairs \in SUBSET (Objects \X Digests) :
         Promise(pairs) \/ \E lost \in SUBSET Objects : Forget(lost, pairs)

Spec == Init /\ [][Next]_ivars
=============================================================================
