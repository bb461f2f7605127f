---------------------------- MODULE HeapContract ----------------------------
(***************************************************************************)
(* What a caller of kmalloc, kmalloc_a and kfree relies on.  `live' maps    *)
(* each pointer that was handed out and not yet freed to its request.       *)
(***************************************************************************)
EXTENDS Integers

CONSTANTS Sizes

VARIABLE live

Disjoint(p, n, q, m) == p + n <= q \/ q + m <= p

Init == live = <<>>

\* A fresh region of the size asked for, away from every region in use and
\* page aligned when that was asked for.
Alloc ==
    \E p \in DOMAIN live' \ DOMAIN live :
      /\ live' = [q \in DOMAIN live \cup {p} |->
                    IF q = p THEN live'[p] ELSE live[q]]
      /\ live'[p].size \in Sizes \ {0}
      /\ live'[p].align => p % 4096 = 0
      /\ \A q \in DOMAIN live : Disjoint(p, live'[p].size, q, live[q].size)

\* A region is given back; the others stay as they are.
Free ==
    \E p \in DOMAIN live : live' = [q \in DOMAIN live \ {p} |-> live[q]]

Next == Alloc \/ Free

Spec == Init /\ [][Next]_live
=============================================================================
