--------------------------- MODULE MCRollupRebuild ---------------------------
EXTENDS RollupRebuild

CONSTANT key

MCWidths == {1, 2, 4}

\* PV and battery power, or discharge alone.
MCSamples == {[at |-> t, pv |-> p[1], battery |-> p[2]] :
                 t \in {0, 1, 3}, p \in {<<2, 1>>, <<None, -1>>}}
MCEnvelopes == [key : {key, None}, sample : MCSamples] \cup {[key |-> key, sample |-> None]}
==============================================================================
