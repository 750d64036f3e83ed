-------------------------------- MODULE MCHub --------------------------------
EXTENDS Hub, TLC

Sym == Permutations(Peers) \cup Permutations(Requests)

AllNeeds == BOOLEAN \X BOOLEAN
BothNeeds == {<<TRUE, TRUE>>}
AllWants == Ids \cup {None}
NoWants == {None}
=============================================================================
