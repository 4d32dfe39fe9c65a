-------------------------------- MODULE LogFifo --------------------------------
(***************************************************************************)
(* What the asynchronous logger promises to the threads that log: a queue. *)
(* The line with the number n is the n-th that was accepted.  Lines are    *)
(* delivered in the order in which they were accepted, each at most once;  *)
(* lines are discarded only while at least Overload lines wait, and then   *)
(* the oldest Reserve of them are spared.                                  *)
(***************************************************************************)
EXTENDS Integers, Sequences

CONSTANTS Overload, Reserve

VARIABLES accepted, pending, delivered

Init == accepted = 0 /\ pending = <<>> /\ delivered = <<>>

Accept ==
    /\ accepted' = accepted + 1
    /\ pending' = Append(pending, accepted + 1)
    /\ UNCHANGED delivered

Deliver ==
    \E n \in 1 .. Len(pending) :
        /\ delivered' = delivered \o SubSeq(pending, 1, n)
        /\ pending' = SubSeq(pending, n + 1, Len(pending))
        /\ UNCHANGED accepted

\* The lines i to j - 1 of those that wait are thrown away.
Discard ==
    /\ Len(pending) >= Overload
    /\ \E i \in Reserve + 1 .. Len(pending) : \E j \in i + 1 .. Len(pending) + 1 :
           pending' = SubSeq(pending, 1, i - 1) \o SubSeq(pending, j, Len(pending))
    /\ UNCHANGED <<accepted, delivered>>

Next == Accept \/ Deliver \/ Discard

Spec == Init /\ [][Next]_<<accepted, pending, delivered>>

=============================================================================
