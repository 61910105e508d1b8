---------------------------- MODULE DeviceApps ----------------------------
(***************************************************************************)
(* The pen's app and the doze app, which share no state: a behaviour moves *)
(* one of them, and the other stays in one of its initial states.          *)
(***************************************************************************)
EXTENDS PenService, Doze

VARIABLE app

AppsInit ==
    /\ app \in {"pen", "doze"}
    /\ Init /\ DozeInit
    /\ app = "doze" \/ (screenOn /\ \A p \in Prefs : ~prefs[p])
    /\ app = "pen" \/ rate = "other"

AppsNext ==
    /\ UNCHANGED app
    /\ \/ app = "pen" /\ Next /\ UNCHANGED dozeVars
       \/ app = "doze" /\ DozeNext /\ UNCHANGED vars

PenRuns == app = "pen" /\ Service /\ UNCHANGED <<app, dozeVars>>

AppsSpec == AppsInit /\ [][AppsNext]_<<app, vars, dozeVars>> /\ WF_vars(PenRuns)
=============================================================================
