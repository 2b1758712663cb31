----------------------------- MODULE MCStreamer -----------------------------
(* Two images; for the first, a mirror that serves ranges, one that does   *)
(* not, one whose body has no delimiter, a compressed one and a local file; *)
(* one mirror for the second.                                               *)
EXTENDS Streamer

CONSTANTS a, b, ranged, whole, endless, packed, local, other

Served == [image |-> a, packed |-> FALSE, range |-> TRUE,
           sized |-> TRUE, local |-> FALSE]

MCServes ==
  [m \in {ranged, whole, endless, packed, local, other} |->
     CASE m = ranged  -> Served
       [] m = whole   -> [Served EXCEPT !.range = FALSE]
       [] m = endless -> [Served EXCEPT !.sized = FALSE]
       [] m = packed  -> [Served EXCEPT !.packed = TRUE]
       [] m = local   -> [Served EXCEPT !.local = TRUE, !.range = FALSE]
       [] m = other   -> [Served EXCEPT !.image = b]]

\* Mixed lists with a checksum, and lists without one that leave foreign,
\* truncated and compressed remains behind.
MCOrders ==
  [image : {a}, sha : {TRUE},
   mirrors : {<<ranged, whole>>, <<packed, ranged>>, <<endless, local>>,
              <<other, ranged>>}]
  \cup [image : {a}, sha : {FALSE}, mirrors : {<<endless>>, <<packed, whole>>}]
  \cup [image : {b}, sha : {TRUE, FALSE}, mirrors : {<<other>>}]

=============================================================================
