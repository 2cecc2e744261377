---------------------------- MODULE MCUdtContainers ----------------------------
EXTENDS UdtContainers

\* An ordered message of one packet, unordered ones of three and of one, and an
\* ordered one of two.
FourMessages == <<[len |-> 1, order |-> TRUE], [len |-> 3, order |-> FALSE],
                  [len |-> 1, order |-> FALSE], [len |-> 2, order |-> TRUE]>>

\* No socket is told from another.  The permutations of all but one of them are cheaper to
\* apply than those of all, and enough.
OneSocket == CHOOSE s \in Socks : TRUE
AnySocket == Permutations(Socks \ {OneSocket})
=============================================================================
