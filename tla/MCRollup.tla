------------------------------ MODULE MCRollup -------------------------------
EXTENDS Rollup, TLC

CONSTANTS m1, m2, m3, m4, w1, w2

MCMessages == {m1, m2, m3, m4}
MCMessages3 == {m1, m2, m3}
MCWorkers == {w1, w2}
MCWorkers1 == {w1}
MCWidths == {1, 2, 4}

At(t) == [at |-> t, pv |-> 1, battery |-> -1]

\* Three samples and an envelope without metrics; the second and the third are in one bucket of width two.
MCSample == (m1 :> At(0)) @@ (m2 :> At(2)) @@ (m3 :> At(3)) @@ (m4 :> None)
\* Three samples a unit of time apart: what is integrated twice was then reported by a
\* redelivered envelope.
MCSampleInRow == (m1 :> At(0)) @@ (m2 :> At(1)) @@ (m3 :> At(2))
==============================================================================
