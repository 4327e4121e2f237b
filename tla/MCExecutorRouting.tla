------------------------ MODULE MCExecutorRouting ------------------------
EXTENDS ExecutorRouting, TLC

CONSTANTS h1, h2, d1, d2, o1, o2, s1, s2, x, y, c, d, k1

\* Two sources of each kind; the second source of executors takes agent 2 once
\* the first has dropped it.
Both == [source |-> x, version |-> 1, bound |-> {1, 2}, enabled |-> {1, 2}]
OneDisabled == [source |-> x, version |-> 2, bound |-> {1, 2}, enabled |-> {1}]
OneDropped == [source |-> x, version |-> 3, bound |-> {1}, enabled |-> {1}]
Taker == [source |-> y, version |-> 1, bound |-> {2}, enabled |-> {2}]
MCExecCatalogs == {Both, OneDisabled, OneDropped, Taker}
MCInitialCatalog == x :> Both @@ y :> None

Single == [source |-> c, version |-> 1, max |-> 1 :> 1 @@ 2 :> 1]
Double == [source |-> c, version |-> 2, max |-> 1 :> 2 @@ 2 :> 2]
Narrow == [source |-> c, version |-> 3, max |-> 1 :> 1]
Second == [source |-> d, version |-> 1, max |-> 2 :> 2]
MCCapCatalogs == {Single, Double, Narrow, Second}
MCInitialCapacity == c :> Single @@ d :> None

MCInitialRoster == [version |-> 1, ids |-> 1 :> d1 @@ 2 :> d2]
MCRosters == {MCInitialRoster, [version |-> 2, ids |-> 1 :> d2],
              [version |-> 3, ids |-> 2 :> d2]}

MCRequests ==
    {[key |-> k1, routed |-> TRUE, target |-> None, accepts |-> {1, 2}, prefer |-> h1],
     [key |-> k1, routed |-> FALSE, target |-> 2, accepts |-> {2}, prefer |-> None]}

MCHome == 1 :> h1 @@ 2 :> h2
\* Each variant has room for one kind of change, with a little of the others.
Budget(r, k, a, s) == [roster |-> r, catalog |-> k, agent |-> a, submit |-> s]
MCBudgets == {Budget(6, 0, 0, 0), Budget(2, 0, 1, 1), Budget(0, 3, 0, 2),
              Budget(0, 1, 1, 3)}
Symmetric == Permutations({o1, o2}) \cup Permutations({s1, s2})
============================================================================
