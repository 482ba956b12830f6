------------------------------- MODULE MCTracing -------------------------------
(* Two runs of up to two completions with a tool call each, under one process *)
(* or two, any subset of the backends, one fault: a run that raises before    *)
(* one that does not and after it, a killed run under a later process's run,  *)
(* a lost line of a run, a refused run span with children that start.         *)
EXTENDS Tracing

MCRates == {<<Unpriced, Unpriced>>, <<Unpriced, 1>>}
=============================================================================
