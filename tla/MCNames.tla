------------------------------- MODULE MCNames -------------------------------
EXTENDS Names

Plain(w) == [word |-> w, nums |-> <<>>]
MCOctet == [i \in Ip |-> i]
MCLabel == {Plain("a"), [word |-> "a", nums |-> <<3>>]}
MCSanitized == [s \in Service |-> Plain("web")]
MCQuery == {<<Plain("a")>>, <<[word |-> "a", nums |-> <<3>>]>>, <<Plain("web"), Plain("a")>>,
            <<Plain("x"), Plain("a")>>, <<Plain("x"), Plain("org")>>}
=============================================================================
