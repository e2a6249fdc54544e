------------------------------ MODULE MCArchive ------------------------------
(* Instances of Archive for TLC. *)
EXTENDS Archive

CONSTANTS m1, m2, w1, w2

MCMessages == {m1, m2}
MCWorkers == {w1, w2}

Mode(o, id, ws, f, t, c) ==
    [outbox |-> o, fixedID |-> id, workers |-> ws, failures |-> f, timeouts |-> t, crashes |-> c]

MCModes == {Mode(FALSE, FALSE, {w1, w2}, 1, 0, 1), Mode(FALSE, FALSE, {w1, w2}, 0, 1, 1),
            Mode(FALSE, FALSE, {w1}, 1, 1, 1), Mode(FALSE, TRUE, {w1}, 1, 1, 1),
            Mode(TRUE, FALSE, {w1}, 2, 0, 1), Mode(TRUE, TRUE, {w1}, 1, 0, 1),
            Mode(TRUE, FALSE, {w1, w2}, 1, 0, 0)}
MCModeNak == {Mode(FALSE, FALSE, {w1}, 1, 0, 0)}
==============================================================================
