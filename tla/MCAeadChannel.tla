---------------------------- MODULE MCAeadChannel ----------------------------
(* A channel whose counter is exhausted after three frames, two frame      *)
(* types to confuse, one plaintext.                                        *)
EXTENDS AeadChannel

MCMaxCtr == 3
MCFrameTypes == {"ClipPush", "ClipAck"}
MCMessages == {"m"}
=============================================================================
