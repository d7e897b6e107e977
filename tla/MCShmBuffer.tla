---------------------------- MODULE MCShmBuffer ----------------------------
(* TLC instances of ShmBuffer, with SHM_SMALL_MSG_SIZE as in config.hpp.   *)
EXTENDS ShmBuffer

MCChunk == 4194304

(* EOS, a byte, two chunks exactly and one byte more.                      *)
MCSize == {0, 1, 2 * MCChunk, 2 * MCChunk + 1}

OneProcess == [w \in Writer |-> "process"]
=============================================================================
