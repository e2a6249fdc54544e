---------------------------- MODULE MCProjection -----------------------------
EXTENDS Projection, TLC

CONSTANTS m1, m2, m3, w1, w2, a, b

MCMessages == {m1, m2, m3}
MCMetrics == {a, b}
MCWorkers == {w1, w2}

\* m1 and m2 report the same value of a, m3 another one; b comes with m2 only.
MCValue == (m1 :> (a :> 1)) @@ (m2 :> ((a :> 1) @@ (b :> 1))) @@ (m3 :> (a :> 2))
\* m2 and m3 were ingested in the same millisecond.
MCTime == (m1 :> 1) @@ (m2 :> 2) @@ (m3 :> 2)
==============================================================================
