--------------------------- MODULE MCTilckSignals ---------------------------
(* Small instances of TilckSignals: the numbers are those of signal.h.      *)
EXTENDS TilckSignals, TLC

CONSTANTS pa, pb

OneTask  == {pa}
TwoTasks == {pa, pb}

SIGFPE  == 8
SIGKILL == 9
SIGCONT == 18
SIGSTOP == 19

MCSig      == {SIGFPE, SIGKILL, SIGCONT, SIGSTOP}
MCFixed    == {SIGKILL, SIGSTOP}
MCCaught   == {SIGFPE}
MCDefault  == (SIGFPE :> "terminate") @@ (SIGKILL :> "terminate")
              @@ (SIGCONT :> "continue") @@ (SIGSTOP :> "stop")
=============================================================================
