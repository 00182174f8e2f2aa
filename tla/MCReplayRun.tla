---------------------------- MODULE MCReplayRun ----------------------------
(* Streams for the model checker: the default configuration replays two    *)
(* timeframes of one symbol; three symbols compete for two positions.      *)
EXTENDS ReplayRun

TwoTimeframes == << <<"BNB", "1h">>, <<"BNB", "15m">> >>
ThreeSymbols  == << <<"BNB", "1h">>, <<"BNB", "15m">>,
                    <<"ETH", "1h">>, <<"SOL", "1h">> >>

\* BNBRejectionClusterSpecialist, and one more of its kind for each stream.
Shipped == {<<"BNB", "1h">>}
Every   == {<<"BNB", "1h">>, <<"BNB", "15m">>, <<"ETH", "1h">>, <<"SOL", "1h">>}
=============================================================================
