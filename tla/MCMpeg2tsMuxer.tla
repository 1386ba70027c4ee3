--------------------------- MODULE MCMpeg2tsMuxer ---------------------------
(***************************************************************************)
(* A small instance of Mpeg2tsMuxer: frames that just fill their first     *)
(* packet, leave 183, 184 or a few bytes for the last one, in one piece or *)
(* two, side by side or as a ring buffer splits them.                      *)
(***************************************************************************)
EXTENDS Mpeg2tsMuxer

Frame(i, key, size0, size1, data1, pts) ==
    [stream_idx |-> i, flags |-> key, size0 |-> size0, size1 |-> size1,
     data1 |-> data1, pts |-> pts]

MCPackets == {Frame(0, TRUE, 100, 246, 100, 40), Frame(0, FALSE, 156, 0, 0, 20000000),
              Frame(0, FALSE, 200, 139, -500, 10013), Frame(0, TRUE, 330, 0, 0, 0),
              Frame(1, FALSE, 155, 0, 0, 128), Frame(1, FALSE, 155, 183, 155, 7500001)}

\* An audio frame that does not fill a packet.
MCSmallPackets == {Frame(0, TRUE, 100, 246, 100, 40), Frame(1, FALSE, 100, 0, 0, 64)}
=============================================================================
