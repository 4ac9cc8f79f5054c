---------------------------- MODULE MCImageCodec ----------------------------
(* Instances of ImageCodec for TLC: cells of four values, u32 of one cell,  *)
(* u64 of two, so that the last LSN is 15 and a count or length at most 3.   *)
EXTENDS ImageCodec

SmallPayloads == {<< >>, <<0>>, <<1, 2, 0, 3>>}

SmallNames == {<<0>>, <<1, 1, 0, 2>>}
=============================================================================
