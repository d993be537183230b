----------------------------- MODULE MCCollectors ----------------------------
(* One host where two scrapes and the stream race for the baseline, and    *)
(* one where the stream collects three containers, two of them monitored.  *)
EXTENDS Collectors
CONSTANTS stream, scrape, probe, api, nginx, other
MCHosts == {[callers |-> {stream, scrape, probe}, containers |-> {}, ticks |-> 3],
            [callers |-> {stream}, containers |-> {api, nginx, other}, ticks |-> 1]}
==============================================================================
