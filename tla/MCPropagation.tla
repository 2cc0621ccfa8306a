--------------------------- MODULE MCPropagation ---------------------------
(* Instances of Propagation for TLC.                                       *)
EXTENDS Propagation

CONSTANTS n1, n2, n3

AllButOne == [all |-> TRUE, nodes |-> {}, exclude |-> {n3}]
OnlyFirst == [all |-> FALSE, nodes |-> {n1}, exclude |-> {}]

(* The second object cannot be restored unless the run created it.         *)
SourceWins == <<"source-wins", "authoritative-source", "reject">>
AllOwned == <<TRUE, TRUE, TRUE>>
SecondFixed == <<TRUE, FALSE, TRUE>>
OneOlder == {<<"newer", "older", "absent">>, <<"older", "absent", "older">>,
             <<"source", "source", "source">>}

DestinationWins == <<"source-wins", "destination-wins">>
BothOwned == <<TRUE, TRUE>>
BothReversible == <<TRUE, TRUE>>
Differing == {<<"older", "older">>}
============================================================================
