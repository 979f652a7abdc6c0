----------------------------- MODULE MCFileOnce -----------------------------
(* Small instances of FileOnce: a source that boards each seq under its own *)
(* key.                                                                     *)
EXTENDS FileOnce

CONSTANTS k0, k1, k2, k3

\* One key per seq, as SourceTerminal::board stamps them.
OneKeyPerSeq == {<<0, k0>>, <<1, k1>>, <<2, k2>>, <<3, k3>>}
=============================================================================
