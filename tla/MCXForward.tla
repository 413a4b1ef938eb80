----------------------------- MODULE MCXForward -----------------------------
(* Small instances of XForwardManager, with the gateway it implements. *)
EXTENDS XForwardGateway, TLC

CONSTANTS t1, t2, q1,  \* transactions and a query
          d, m1        \* a digest, and the uuid of a query message

\* t1 and t2 are one signed transaction that the client submits twice.
SameDigest == [r \in Requests |-> IF r = q1 THEN m1 ELSE d]

\* The two submissions, and the io threads, are interchangeable.
Symmetry == Permutations(TxRequests) \cup Permutations(IoThreads)
===============================================================================
