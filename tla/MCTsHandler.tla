---------------------------- MODULE MCTsHandler ----------------------------
(* Small instances of TsHandler for TLC. *)
EXTENDS TsHandler

U(kind, value) == [kind |-> kind, value |-> value]
Frame == U("frame", None)

\* A full start, and a change of one set with an empty unit, or a short SPS with
\* bytes without a start code.  Packets that are lost make other messages of them.
HevcPictures ==
  {<<U("vps", "a"), U("sps", "a"), U("pps", "a"), Frame>>,
   <<U("sps", "b"), U("empty", None)>>}

H264Pictures ==
  {<<U("sps", "a"), U("pps", "a"), Frame>>,
   <<U("sps", None), Frame, U("garbage", None)>>}

MCPictures == [c \in {"h264", "hevc"} |-> IF c = "h264" THEN H264Pictures ELSE HevcPictures]

MCSounds == {<<U("empty", None), U("adts", "a"), U("garbage", None)>>}
=============================================================================
