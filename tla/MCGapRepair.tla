----------------------------- MODULE MCGapRepair ------------------------------
EXTENDS GapRepair

\* Two objects that share an instant; the newest envelope comes first in the order of keys.
MCObjects == << [recs |-> <<5>>, min |-> 4, max |-> 5],
                [recs |-> <<2, 4>>, min |-> 2, max |-> 4] >>
==============================================================================
