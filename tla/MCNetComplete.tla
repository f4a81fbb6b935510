--------------------------- MODULE MCNetComplete ---------------------------
(* A two-byte length field and a limit of six bytes.  The first client      *)
(* sends any two frames, malformed or not, and a good one; the second two   *)
(* good ones, so that the counter wraps.                                    *)
EXTENDS NetComplete, TLC

CONSTANTS f1, f2

Right(n)   == [size |-> n, net |-> n, host |-> 99]   \* as the protocol says
NetOrder   == {Right(2), Right(3), Right(4), Right(6)}
HostOrder  == [size |-> 3, net |-> 99, host |-> 3]   \* written without htonl
Negative   == [size |-> 3, net |-> 99, host |-> -1]
Misread    == [size |-> 3, net |-> 5, host |-> 3]    \* swapped, yet small
Zero       == [size |-> 3, net |-> 0, host |-> 0]
TooSmall   == [size |-> 3, net |-> 1, host |-> 99]

MCFrames  == NetOrder \cup {HostOrder, Negative, Misread, Zero, TooSmall}
MCHeaders == {[net |-> n, host |-> h] : n \in {0, 2, 7}, h \in {-1, 4}}

MCStreams ==
  {(f1 :> <<a, b, Right(2)>>) @@ (f2 :> <<Right(3), c>>) :
     a \in MCFrames, b \in MCFrames, c \in {Right(2), Right(4)}}
=============================================================================
