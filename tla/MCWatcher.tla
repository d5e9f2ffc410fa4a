------------------------------ MODULE MCWatcher ------------------------------
(***************************************************************************)
(* Instances of Watcher for TLC.                                           *)
(***************************************************************************)
EXTENDS Watcher

D(movs) == [found |-> "yes", criminal |-> TRUE, movs |-> movs]
M(signs, time) == [signs |-> signs, time |-> time]

\* Convicted; then acquitted on appeal, for good, the newest movement first.
Convicted == D(<<M({"proceden"}, 1)>>)
Acquitted == D(<<M({"final"}, 3), M({"improceden", "proceden"}, 2), M({"proceden"}, 1)>>)
\* The same, with a movement in between that has no date.
Undated   == D(<<M({"improceden", "proceden"}, 2), M({}, 0), M({"proceden"}, 1)>>)

MCReversal == {Convicted, Acquitted, Hidden}
MCUndated  == {Convicted, Undated}
===============================================================================
