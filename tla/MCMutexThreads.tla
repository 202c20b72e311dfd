--------------------------- MODULE MCMutexThreads ---------------------------
(***************************************************************************)
(* Small instances of the two threaded programs for TLC.                   *)
(***************************************************************************)
EXTENDS MutexThreads

FiveElements == [k \in 0 .. 4 |-> 2 ^ k]

Opt(o, n) == [opt |-> o, digits |-> TRUE, val |-> n]
Request(s, e, n) == <<Opt("s", s), Opt("t", n), Opt("e", e)>>

\* 9 and 361 are squares of primes; 331, 337 and 353 have two 3's.
GoodLines ==
    {Request(r[1], r[2], n) : r \in {<<2, 2>>, <<2, 9>>, <<3, 40>>, <<331, 337>>, <<331, 361>>},
                              n \in 1 .. 4}

Bad == [opt |-> "?", digits |-> FALSE, val |-> 0]
BadLines ==
    {<<>>, <<Bad>>,
     <<Opt("s", 2), Opt("e", 3)>>,
     <<Opt("s", 0), Opt("e", 3), Opt("t", 1)>>,
     <<Opt("s", 1), Opt("e", 3), Opt("t", 1)>>,
     <<Opt("s", 2), Opt("e", 3), Opt("t", 0)>>,
     <<Opt("s", 2), Opt("e", 3), Opt("t", 5)>>,
     <<Opt("s", 2), Opt("e", 1024), Opt("t", 1)>>,
     <<Opt("s", 9), Opt("e", 3), Opt("t", 1)>>,
     <<Opt("s", 2), Opt("arg", 0), Opt("e", 3), Opt("t", 1)>>,
     <<Opt("s", 2), [Bad EXCEPT !.opt = "e"], Opt("t", 1)>>,
     <<Opt("e", 3), Opt("e", 4), Opt("s", 2), Opt("t", 2)>>}

SomeLines == GoodLines \cup BadLines

\* 577 * 577 = 332929.
SquareLine == {Request(332900, 332929, 1)}

Zeroed == {{}}
\* Index 1 is left out: set, it crosses out every number of the segment.
ZeroedOrDirty == {{}, {2, 6, 17, 19, 20, 350}, {0, 3}}
=============================================================================
