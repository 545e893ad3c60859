------------------------- MODULE MCDownloadPipeline -------------------------
(* Small instances of DownloadPipeline for TLC.                            *)
EXTENDS DownloadPipeline

SomeFirst == {0, 1, 2}
SomeFinal == {0, 3, 5, 6}
SomeSizes == {1, 2, 9}
=============================================================================
