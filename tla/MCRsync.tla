------------------------------ MODULE MCRsync ------------------------------
EXTENDS RsyncConnection
CONSTANTS x, y, q, c1
MCSubtree == [c \in Clients |-> IF c = c1 THEN Paths ELSE {q}]
MCTree == [c \in Clients |-> [r \in Paths |-> IF c = c1 THEN IF r = q THEN None ELSE <<y, x>>
                                           ELSE IF r = q THEN <<x>> ELSE None]]
MCEdits == [c \in Clients |-> IF c = c1 THEN 1 ELSE 0]
MCEditTwice == [c \in Clients |-> 2]
MCContents == {<< >>, <<x>>, <<y, x>>}
MCRepeats == {<<x>>, <<x, x>>}
MCModes == [c \in Clients |-> IF c = c1 THEN {[delete |-> TRUE, dry |-> d] : d \in BOOLEAN}
                                         ELSE {[delete |-> FALSE, dry |-> FALSE]}]
=============================================================================
