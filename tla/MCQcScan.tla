------------------------------ MODULE MCQcScan -------------------------------
(* The instance of QcScan that TLC checks: the whole chain of children.      *)
EXTENDS QcScan

WholeChain == <<"hash", "probe", "ffmpeg">>
==============================================================================
