------------------------------ MODULE Plugins -------------------------------
(***************************************************************************)
(* The host with one of the plugins hypr, sqlite, ws, ffmpeg and dbus (its *)
(* signals: DbusClient and DbusService model the rest) loaded.             *)
(* They have nothing in common but the script thread, which calls one hook *)
(* or one function of one plugin at a time, so that what is shown of each  *)
(* alone holds of it beside the others as long as these give the thread    *)
(* back: JoinsEnd.                                                         *)
(***************************************************************************)
EXTENDS HyprPlugin, SqlPlugin, WsPlugin, VideoPlugin, DbusSignals

VARIABLE plugin  \* the plugin loaded

vars == <<plugin, hyprVars, sqlVars, wsVars, videoVars, sigVars>>

Init ==
    /\ plugin \in {"hypr", "sqlite", "ws", "ffmpeg", "dbus"}
    /\ HyprInit /\ SqlInit /\ WsInit /\ VideoInit /\ SigInit

Hypr   == /\ plugin = "hypr" /\ HyprNext
          /\ UNCHANGED <<plugin, sqlVars, wsVars, videoVars, sigVars>>
Sqlite == /\ plugin = "sqlite" /\ SqlNext
          /\ UNCHANGED <<plugin, hyprVars, wsVars, videoVars, sigVars>>
Ws     == /\ plugin = "ws" /\ WsNext
          /\ UNCHANGED <<plugin, hyprVars, sqlVars, videoVars, sigVars>>
Ffmpeg == /\ plugin = "ffmpeg" /\ VideoNext
          /\ UNCHANGED <<plugin, hyprVars, sqlVars, wsVars, sigVars>>
Dbus   == /\ plugin = "dbus" /\ SigNext
          /\ UNCHANGED <<plugin, hyprVars, sqlVars, wsVars, videoVars>>

Next == Hypr \/ Sqlite \/ Ws \/ Ffmpeg \/ Dbus

Spec == Init /\ [][Next]_vars

\* The fairness of the plugin that is loaded; of signals nothing is asked in the end.
Fairness ==
    /\ WF_hyprVars(plugin = "hypr" /\ HyprHostSteps)
    /\ WF_hyprVars(plugin = "hypr" /\ HyprNetSteps)
    /\ \A j \in HyprIds : WF_hyprVars(plugin = "hypr" /\ HyprJobSteps(j))
    /\ WF_sqlVars(plugin = "sqlite" /\ SqlHostSteps)
    /\ WF_sqlVars(plugin = "sqlite" /\ SqlWorkerSteps)
    /\ WF_wsVars(plugin = "ws" /\ WsHostSteps)
    /\ \A s \in Sockets : WF_wsVars(plugin = "ws" /\ WsThreadSteps(s))
    /\ WF_videoVars(plugin = "ffmpeg" /\ VideoHostSteps)
    /\ \A k \in Streams : WF_videoVars(plugin = "ffmpeg" /\ VideoWorkerSteps(k))
    /\ WF_videoVars(plugin = "ffmpeg" /\ VideoRenderSteps)

FairSpec == Spec /\ Fairness

-----------------------------------------------------------------------------

TypeOK == HyprTypeOK /\ SqlTypeOK /\ WsTypeOK /\ VideoTypeOK /\ SigTypeOK

\* The script thread waits for threads of the plugin to end.
ScriptWaits == CASE plugin = "hypr"   -> HyprJoining
                 [] plugin = "sqlite" -> SqlJoining
                 [] plugin = "ws"     -> WsJoining
                 [] plugin = "ffmpeg" -> VideoJoining
                 [] OTHER             -> FALSE

ScriptGoesOn == CASE plugin = "hypr"   -> hyprJs = "over"
                  [] plugin = "sqlite" -> sqlJs.pc = "over"
                  [] plugin = "ws"     -> wsJs.pc = "over"
                  [] plugin = "ffmpeg" -> videoJs.pc # "join"
                  [] OTHER             -> TRUE

\* Whatever its threads are doing, a plugin gives the script thread back: the joins in
\* the shutdown hooks of hypr, sqlite and ws and those of ffmpeg's load(), stop() and
\* cleanup end, but for the lost wake-up of sqlite (SqlJoining) and the reconnecting
\* socket of ws (WsJoining).
JoinsEnd == ScriptWaits ~> ScriptGoesOn

Waiting(j) == CASE plugin = "hypr"   -> j \in hyprPromises
                [] plugin = "sqlite" -> j \in SqlWaiting
                [] OTHER             -> FALSE

\* Every promise of hypr's send() and of sqlite's exec() and query() is settled, or
\* dropped by the shutdown hook (hypr_update_callback, the worker's completions).
RequestsSettle == \A j \in HyprIds \cup SqlJobIds : Waiting(j) ~> ~Waiting(j)

=============================================================================
