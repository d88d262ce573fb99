------------------------------ MODULE MCNvDimm ------------------------------
EXTENDS NvDimm
\* The channels of the shipped device files, with reads of addresses that were never written.
Shipped == [packages |-> 2, planes |-> 1, front |-> TRUE, commands |-> TRUE, requests |-> FALSE,
            diskRead |-> TRUE, gc |-> FALSE, ctrl |-> 3, idle |-> 9, force |-> 9, limit |-> 2,
            types |-> {"DATA_READ", "DATA_WRITE"}]
Rewritten == [Shipped EXCEPT !.diskRead = FALSE, !.limit = 3]
\* One channel in each direction, and two planes in a die.
Duplex == [Rewritten EXCEPT !.packages = 1, !.planes = 2, !.commands = FALSE, !.requests = TRUE,
                            !.ctrl = 2, !.limit = 4]
\* The collector when the device is idle, until no block from its pointer on is dirty ...
Collected == [Rewritten EXCEPT !.front = FALSE, !.gc = TRUE, !.ctrl = 6]
Idle == [Collected EXCEPT !.idle = 1, !.limit = 4]
\* ... until the pages behind the write pointer are used up ...
Spent == [Idle EXCEPT !.limit = 6, !.types = {"DATA_WRITE"}]
\* ... and in panic mode, with one plane and with a second that has nothing to collect.
Panic == [Collected EXCEPT !.packages = 1, !.front = TRUE, !.commands = FALSE, !.force = 2,
                           !.limit = 4]
PanicTwo == [Panic EXCEPT !.packages = 2, !.front = FALSE]
\* Blocks of two pages: a block is collected while one of them is still wanted.
Moving == [Collected EXCEPT !.idle = 1, !.limit = 4]
MCMoving == {Moving}
MCSetups == {Shipped, Rewritten, Duplex, Idle, Spent, Panic, PanicTwo}
=============================================================================
