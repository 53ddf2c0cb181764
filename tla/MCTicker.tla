------------------------------- MODULE MCTicker -------------------------------
EXTENDS TickerProperties, TLC

Command(op, wid) == [op |-> op, wid |-> wid]
StartsAndQuit == {Command("start", 0), Command("quit", 0)}
NoQuit == {Command("start", 0), Command("stop", 1), Command("watchers", 0)}

Symmetry == Permutations(Watchers) \cup Permutations(Children)
===============================================================================
