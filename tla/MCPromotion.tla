----------------------------- MODULE MCPromotion -----------------------------
(* Instances of Promotion for TLC. *)
EXTENDS Promotion, TLC

CONSTANTS m1, m2, ghost, stable, d1, d2, d3, d4, d5, d6, k1, k2, p1, p2

MCModules == {m1, m2, ghost}
MCObjects == MCModules \X (1..3)

Of(c, d) == [channel |-> c, digest |-> d]

\* m1 has one imported stable version; m2 has none; ghost has no row.
MCImported == [o \in MCObjects |-> IF o = <<m1, 1>> THEN Of(stable, d1) ELSE None]

\* The second candidate of m1@2 is what reviewers may merge later on.
MCCandidates == [o \in MCObjects |->
    CASE o = <<m1, 2>> -> {Of(stable, d2), Of(stable, d4)}
      [] o = <<m1, 3>> -> {Of(stable, d3)}
      [] o = <<m2, 1>> -> {Of(stable, d5)}
      [] o = <<ghost, 1>> -> {Of(stable, d6)}
      [] OTHER -> {}]

\* m1@3 and m2@1 require each other's module, the revised m1@2 a missing one.
MCRequires == [d \in {d1, d2, d3, d4, d5, d6} |->
    CASE d = d3 -> <<m2>> [] d = d5 -> <<m1>> [] d = d4 -> <<ghost>> [] OTHER -> <<>>]

ToStable(o, d, r, k) == [obj |-> o, channel |-> stable, digest |-> d, rev |-> r, key |-> k]

\* Two promotions of one channel, the same version under two keys, a key
\* reused for another module, a follow-up at the next revision, a revised candidate,
\* an older version after a newer one, and a module without a row.
MCIntents == {ToStable(<<m1, 2>>, d2, 2, k1),
              ToStable(<<m1, 2>>, d2, 1, k1), ToStable(<<m1, 2>>, d2, 1, k2),
              ToStable(<<m1, 3>>, d3, 1, k2), ToStable(<<m1, 3>>, d3, 2, k2),
              ToStable(<<m2, 1>>, d5, 0, k1), ToStable(<<m1, 2>>, d4, 1, k1),
              ToStable(<<ghost, 1>>, d6, 0, k2)}

MCAttempts == [p \in Promoters |-> IF p = p1 THEN 2 ELSE 1]
=============================================================================
