--------------------------- MODULE MCProcessShutdown ---------------------------
(* A request and a digest run around a close, and a queue of one alert.  One  *)
(* signal: it is heard after an exception, and again after itself.            *)
EXTENDS ProcessShutdown

\* Bound: what the queue does with its windows after the close is AlertQueue's
\* run: the crash, raised once, keeps its window, and no failure waits for a log
\* line (a second one is followed once the window of the first line is over).
Bounded == lapsed = {} /\ unlogged = 0
===============================================================================
