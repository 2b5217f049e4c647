------------------------------ MODULE Subagent ------------------------------
(***************************************************************************)
(* The life of the process ops-snmpd: main() in src/src/ops_subagent.c,    *)
(* the plugins it loads (snmp_plugins.c), the OVSDB thread it creates      *)
(* (snmp_ovsdb_main_thread), which also answers "ovs-appctl exit", and the *)
(* signals that stop it.  keep_running and exiting are plain globals that  *)
(* both threads use.                                                       *)
(***************************************************************************)
EXTENDS FiniteSets

CONSTANTS
  Plugins,    \* the files in FEATURE_SNMP_PATH
  Signals     \* SIGTERM and SIGINT

VARIABLES
  main,          \* where main() stands
  thread,        \* where the OVSDB thread stands
  unopened,      \* files lt_dlforeachfile has not come to
  resident,      \* plugins whose library is loaded
  registered,    \* plugins whose ops_snmp_init has registered its handlers
  caller_data,   \* plugins that have a plugin_class as caller data
  destroyed,     \* plugins whose ops_snmp_destroy was called
  handled,       \* signals with stop_server as their handler
  keep_running,
  exiting,
  asked,         \* an exit command waits to be answered
  stop           \* ghost: "none", "early" (an exit before keep_running was set), "due"

plugin_vars == <<unopened, resident, registered, caller_data, destroyed>>
stop_vars == <<handled, keep_running, exiting, stop>>
subagent_vars == <<main, thread, plugin_vars, stop_vars, asked>>

-----------------------------------------------------------------------------
(* main(), up to its loop.                                                 *)

\* plugins_snmp_init registers the caller and begins with the files ...
BeginPlugins ==
  /\ main = "init"
  /\ main' = "plugins"
  /\ UNCHANGED <<thread, plugin_vars, stop_vars, asked>>

\* ... or it cannot, logs that and returns.
SkipPlugins ==
  /\ main = "init"
  /\ main' = "create"
  /\ UNCHANGED <<thread, plugin_vars, stop_vars, asked>>

\* Variant: the plugin is initialised before its interface is checked.
RefusedPluginInitialised(p) ==
  /\ main = "plugins" /\ p \in unopened
  /\ unopened' = unopened \ {p}
  /\ registered' = registered \cup {p}
  /\ UNCHANGED <<main, thread, resident, caller_data, destroyed, stop_vars, asked>>

\* plugins_open_plugin: the file does not load, there is no memory, or a
\* function of the interface is missing; then the library is closed again.
RefusedPlugin(p) ==
  /\ main = "plugins" /\ p \in unopened
  /\ unopened' = unopened \ {p}
  /\ UNCHANGED <<main, thread, resident, registered, caller_data, destroyed, stop_vars, asked>>

\* The plugin_class is filled in and its ops_snmp_init called.  Nothing
\* attaches it to the handle.
OpenPlugin(p) ==
  /\ main = "plugins" /\ p \in unopened
  /\ unopened' = unopened \ {p}
  /\ resident' = resident \cup {p}
  /\ registered' = registered \cup {p}
  /\ UNCHANGED <<main, thread, caller_data, destroyed, stop_vars, asked>>

PluginsDone ==
  /\ main = "plugins" /\ unopened = {}
  /\ main' = "create"
  /\ UNCHANGED <<thread, plugin_vars, stop_vars, asked>>

\* pthread_create; without a thread the process exits.
CreateThread ==
  /\ main = "create"
  /\ main' = "enable"
  /\ thread' = "start"
  /\ UNCHANGED <<plugin_vars, stop_vars, asked>>

CreateThreadFails ==
  /\ main = "create"
  /\ main' = "exited"
  /\ UNCHANGED <<thread, plugin_vars, stop_vars, asked>>

\* Variant: the handlers come first.
EnableAfterHandlers ==
  /\ main = "enable"
  /\ IF handled = Signals
       THEN keep_running' = TRUE /\ main' = "loop" /\ UNCHANGED handled
       ELSE /\ \E sig \in Signals \ handled : handled' = handled \cup {sig}
            /\ UNCHANGED <<keep_running, main>>
  /\ UNCHANGED <<thread, plugin_vars, exiting, stop, asked>>

\* keep_running = 1, after init_snmp and with the thread running.
Enable ==
  /\ main = "enable"
  /\ keep_running' = TRUE
  /\ main' = "signals"
  /\ UNCHANGED <<thread, plugin_vars, handled, exiting, stop, asked>>

InstallHandler(sig) ==
  /\ main = "signals" /\ sig \notin handled
  /\ handled' = handled \cup {sig}
  /\ main' = IF handled' = Signals THEN "loop" ELSE "signals"
  /\ UNCHANGED <<thread, plugin_vars, keep_running, exiting, stop, asked>>

-----------------------------------------------------------------------------
(* main(), its loop and its end.                                           *)

\* agent_check_and_process(1) waits for a packet or an alarm and calls the
\* handlers it is for.
CheckAndProcess ==
  /\ main = "loop" /\ keep_running
  /\ main' = "process"
  /\ UNCHANGED <<thread, plugin_vars, stop_vars, asked>>

RequestsProcessed ==
  /\ main = "process"
  /\ main' = "loop"
  /\ UNCHANGED <<thread, plugin_vars, stop_vars, asked>>

LeaveLoop ==
  /\ main = "loop" /\ ~keep_running
  /\ main' = "destroy"
  /\ UNCHANGED <<thread, plugin_vars, stop_vars, asked>>

\* plugins_snmp_destroy: PLUGINS_CALL skips a handle without caller data;
\* lt_dlexit unloads every library.
DestroyPlugins ==
  /\ main = "destroy"
  /\ main' = "shutdown"
  /\ destroyed' = resident \cap caller_data
  /\ resident' = {}
  /\ UNCHANGED <<thread, unopened, registered, caller_data, stop_vars, asked>>

\* snmp_shutdown and return: the process ends, wherever the thread stands.
Shutdown ==
  /\ main = "shutdown"
  /\ main' = "exited"
  /\ UNCHANGED <<thread, plugin_vars, stop_vars, asked>>

-----------------------------------------------------------------------------
(* The OVSDB thread.                                                       *)

Alive == main # "exited"

StartThread ==
  /\ Alive /\ thread = "start"
  /\ exiting' = FALSE
  /\ thread' = "loop"
  /\ UNCHANGED <<main, plugin_vars, handled, keep_running, stop, asked>>

\* One round without a command: snmp_run, the waits, poll_block.
RunAndBlock ==
  /\ Alive /\ thread = "loop" /\ ~exiting
  /\ thread' = "block"
  /\ UNCHANGED <<main, plugin_vars, stop_vars, asked>>

Wake ==
  /\ Alive /\ thread = "block"
  /\ thread' = "loop"
  /\ UNCHANGED <<main, plugin_vars, stop_vars, asked>>

\* Variant: the command stops the thread only.
AnswerExitOfThread ==
  /\ Alive /\ thread = "loop" /\ ~exiting /\ asked
  /\ asked' = FALSE
  /\ exiting' = TRUE
  /\ stop' = IF main = "enable" THEN "early" ELSE "due"
  /\ UNCHANGED <<main, thread, plugin_vars, handled, keep_running>>

\* A round in which unixctl_server_run calls ops_snmpd_exit.
AnswerExit ==
  /\ Alive /\ thread = "loop" /\ ~exiting /\ asked
  /\ asked' = FALSE
  /\ exiting' = TRUE
  /\ keep_running' = FALSE
  /\ stop' = IF main = "enable" THEN "early" ELSE "due"
  /\ UNCHANGED <<main, thread, plugin_vars, handled>>

\* The loop ends and the server of the commands with it.
EndThread ==
  /\ Alive /\ thread = "loop" /\ exiting
  /\ thread' = "ended"
  /\ UNCHANGED <<main, plugin_vars, stop_vars, asked>>

-----------------------------------------------------------------------------
(* The outside.                                                            *)

AskExit ==
  /\ Alive /\ thread \in {"start", "loop", "block"} /\ ~asked /\ ~exiting
  /\ asked' = TRUE
  /\ UNCHANGED <<main, thread, plugin_vars, stop_vars>>

\* stop_server, or the default action while there is no handler.
Signal(sig) ==
  /\ Alive
  /\ IF sig \in handled
       THEN keep_running' = FALSE /\ stop' = "due" /\ UNCHANGED main
       ELSE main' = "exited" /\ UNCHANGED <<keep_running, stop>>
  /\ UNCHANGED <<thread, plugin_vars, handled, exiting, asked>>

-----------------------------------------------------------------------------

SubagentInit ==
  /\ main = "init"
  /\ thread = "none"
  /\ unopened = Plugins
  /\ resident = {}
  /\ registered = {}
  /\ caller_data = {}
  /\ destroyed = {}
  /\ handled = {}
  /\ keep_running = FALSE
  /\ exiting = FALSE
  /\ asked = FALSE
  /\ stop = "none"

Main ==
  \/ BeginPlugins \/ SkipPlugins \/ PluginsDone
  \/ \E p \in Plugins : RefusedPlugin(p) \/ OpenPlugin(p)
  \/ CreateThread \/ CreateThreadFails
  \/ Enable
  \/ \E sig \in Signals : InstallHandler(sig)
  \/ CheckAndProcess \/ RequestsProcessed \/ LeaveLoop
  \/ DestroyPlugins \/ Shutdown

OvsdbThread == StartThread \/ RunAndBlock \/ Wake \/ AnswerExit \/ EndThread

Outside == AskExit \/ \E sig \in Signals : Signal(sig)

SubagentNext == Main \/ OvsdbThread \/ Outside

SubagentSpec == SubagentInit /\ [][SubagentNext]_subagent_vars

\* Both threads are scheduled; agent_check_and_process returns, since the
\* AgentX session sets an alarm to ping the master.
SubagentFairSpec == SubagentSpec /\ WF_subagent_vars(Main) /\ WF_subagent_vars(OvsdbThread)

-----------------------------------------------------------------------------
(* Properties.                                                             *)

SubagentTypeOK ==
  /\ main \in {"init", "plugins", "create", "enable", "signals", "loop", "process",
               "destroy", "shutdown", "exited"}
  /\ thread \in {"none", "start", "loop", "block", "ended"}
  /\ unopened \subseteq Plugins /\ resident \subseteq Plugins \ unopened
  /\ registered \subseteq Plugins /\ caller_data \subseteq resident
  /\ destroyed \subseteq registered
  /\ handled \subseteq Signals
  /\ keep_running \in BOOLEAN /\ exiting \in BOOLEAN /\ asked \in BOOLEAN
  /\ stop \in {"none", "early", "due"}

\* A handler is called only while the library it lives in is loaded:
\* a refused plugin has registered nothing, and plugins are unloaded only
\* when no request is processed any more.
HandlersAreResident == main \in {"loop", "process"} => registered \subseteq resident

\* The OVSDB thread does not end under a subagent that goes on serving an
\* old replica, unless the exit command came before main() set keep_running.
ThreadEndsWithMain == thread = "ended" /\ keep_running => stop = "early"

\* Once main() has set keep_running, an exit command and a handled signal
\* end the process.
StopIsObeyed == stop = "due" ~> main = "exited"
=============================================================================
