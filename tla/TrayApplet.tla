----------------------------- MODULE TrayApplet -----------------------------
(***************************************************************************)
(* The daemon's notification socket (daemon.py) and the tray applet        *)
(* (tray/applet.py), which asks the user about quarantined devices and     *)
(* runs `wru allow` or `wru deny` with the answer, beside users at their   *)
(* shells.  Of the daemon only what they see is here: it loads policy.json *)
(* at its start, lets in what is listed, lets in, asks about, analyses or  *)
(* blocks what is not, as its score says, and may be restarted.            *)
(*                                                                         *)
(* Only a question has consequences; the other notifications are shown and *)
(* left out.  Nobody reads notifications.jsonl.                            *)
(***************************************************************************)
EXTENDS UserCommands, Sequences

CONSTANTS Shells, Dialog,        \* the Processes
          MaxPlugs, MaxRestarts, MaxCommands, MaxIdles  \* bound a run

ASSUME TrayAssumption ==
    /\ Processes = Shells \cup {Dialog} /\ Dialog \notin Shells
    /\ {MaxPlugs, MaxRestarts, MaxCommands, MaxIdles} \subseteq Nat

VARIABLES daemon,    \* "up" or "down"
          listed,    \* _allowlist, as loaded
          analysing, \* an analysis of the device at the port is under way
          server,    \* the connection is in _notification_clients
          applet,    \* "connected" or "waiting" to connect
          socket,    \* questions sent and not read
          dialog,    \* the question on the screen
          plugs, restarts, commands, idles

trayVars == <<daemon, listed, analysing, server, applet, socket, dialog>>
bounds == <<plugs, restarts, commands, idles>>
vars == <<commandVars, trayVars, bounds>>

TypeOK ==
    /\ CommandTypeOK
    /\ daemon \in {"up", "down"} /\ listed \subseteq Entries /\ analysing \in BOOLEAN
    /\ server \in BOOLEAN /\ applet \in {"connected", "waiting"}
    /\ socket \in Seq(Devices) /\ dialog \in Devices \cup {NoDevice}

Init ==
    /\ CommandInit
    /\ daemon = "down" /\ listed = {} /\ analysing = FALSE
    /\ server = FALSE /\ applet = "waiting" /\ socket = <<>> /\ dialog = NoDevice
    /\ plugs = 0 /\ restarts = 0 /\ commands = 0 /\ idles = 0

-----------------------------------------------------------------------------
(* A file that cannot be parsed is logged and leaves the lists empty.      *)
LoadPolicy ==
    /\ daemon = "down"
    /\ daemon' = "up"
    /\ listed' = IF policy.whole THEN policy.entries ELSE {}
    /\ UNCHANGED <<commandVars, analysing, server, applet, socket, dialog, bounds>>

DaemonStops ==
    /\ daemon = "up" /\ restarts < MaxRestarts
    /\ daemon' = "down" /\ listed' = {} /\ analysing' = FALSE
    /\ server' = FALSE
    /\ restarts' = restarts + 1
    /\ UNCHANGED <<commandVars, applet, socket, dialog, plugs, commands, idles>>

(* A new stick is off until it is evaluated, here in the same step.  What  *)
(* is listed is let in; anything else the score may let in too, without a  *)
(* question; or it is quarantined, which asks, analysed or blocked.        *)
Decisions(d) ==
    IF Allows(listed, d) THEN {"allow"} ELSE {"allow", "quarantine", "analyze", "deny"}

(* What is sent to nobody, or to an applet that has gone, is lost.         *)
Plug(d) ==
    /\ daemon = "up" /\ here = NoDevice /\ plugs < MaxPlugs
    /\ \E decision \in Decisions(d) :
         /\ on' = (decision = "allow")
         /\ analysing' = (analysing \/ decision = "analyze")
         /\ socket' = IF decision = "quarantine" /\ server /\ applet = "connected"
                      THEN Append(socket, d) ELSE socket
    /\ here' = d
    /\ plugs' = plugs + 1
    /\ UNCHANGED <<policyVars, previewVars, command, daemon, listed, server, applet, dialog,
                   restarts, commands, idles>>

(* With its result the analysis lets in, or switches off, what is at the   *)
(* port by then, or leaves it.                                             *)
AnalysisEnds ==
    /\ analysing
    /\ analysing' = FALSE
    /\ on' \in {on, FALSE, here # NoDevice}
    /\ UNCHANGED <<here, policyVars, previewVars, command>>
    /\ UNCHANGED <<daemon, listed, server, applet, socket, dialog, bounds>>

Unplug ==
    /\ here # NoDevice
    /\ here' = NoDevice /\ on' = FALSE
    /\ UNCHANGED <<policyVars, previewVars, command, trayVars, bounds>>

-----------------------------------------------------------------------------
(* _on_tray_client_connected: in the list until the connection ends.  The  *)
(* applet waits RECONNECT_DELAY before it connects again, by when the old  *)
(* connection has been forgotten.                                          *)
Connect ==
    /\ applet = "waiting" /\ daemon = "up" /\ ~server
    /\ applet' = "connected" /\ server' = TRUE /\ socket' = <<>>
    /\ UNCHANGED <<commandVars, daemon, listed, analysing, dialog, bounds>>

ServerForgets ==
    /\ server /\ applet = "waiting"
    /\ server' = FALSE
    /\ UNCHANGED <<commandVars, daemon, listed, analysing, applet, socket, dialog, bounds>>

(* _socket_listener: the end of the connection once all is read, or 60     *)
(* seconds without a line, which a line may come just too late for.        *)
ConnectionEndsBug ==  \* the loop waits for the next line of a server that is gone
    /\ applet = "connected"
    /\ server /\ idles < MaxIdles
    /\ idles' = idles + 1
    /\ applet' = "waiting" /\ socket' = <<>>
    /\ UNCHANGED <<commandVars, daemon, listed, analysing, server, dialog, plugs, restarts,
                   commands>>

ConnectionEnds ==
    /\ applet = "connected"
    /\ \/ ~server /\ socket = <<>> /\ UNCHANGED idles
       \/ idles < MaxIdles /\ idles' = idles + 1
    /\ applet' = "waiting" /\ socket' = <<>>
    /\ UNCHANGED <<commandVars, daemon, listed, analysing, server, dialog, plugs, restarts,
                   commands>>

(* _handle_notification shows a dialog, in a thread of its own; one at a   *)
(* time is followed here.                                                  *)
Ask ==
    /\ applet = "connected" /\ socket # <<>> /\ dialog = NoDevice
    /\ dialog' = Head(socket) /\ socket' = Tail(socket)
    /\ UNCHANGED <<commandVars, daemon, listed, analysing, server, applet, bounds>>

(* 60 seconds without an answer                                            *)
DialogTimesOut ==
    /\ dialog # NoDevice /\ command[Dialog] = NoCommand
    /\ dialog' = NoDevice
    /\ UNCHANGED <<commandVars, daemon, listed, analysing, server, applet, socket, bounds>>

Answer ==
    /\ dialog # NoDevice
    /\ Allow(Dialog, FALSE) \/ Deny(Dialog)
    /\ dialog' = NoDevice
    /\ UNCHANGED <<daemon, listed, analysing, server, applet, socket, bounds>>

UserTypes ==
    /\ commands < MaxCommands
    /\ commands' = commands + 1
    /\ \E shell \in Shells :
         (\E permanent \in BOOLEAN : Allow(shell, permanent)) \/ Deny(shell) \/ Preview(shell)
    /\ UNCHANGED <<trayVars, plugs, restarts, idles>>

Working(p) == (Works(p) \/ Killed(p)) /\ UNCHANGED <<trayVars, bounds>>

Tray == LoadPolicy \/ Connect \/ ServerForgets \/ ConnectionEnds \/ Ask \/ DialogTimesOut

Next ==
    \/ Tray \/ Answer \/ UserTypes
    \/ DaemonStops \/ Unplug \/ (\E d \in Devices : Plug(d)) \/ AnalysisEnds
    \/ \E p \in Processes : Working(p)

Fairness ==
    /\ WF_vars(LoadPolicy) /\ WF_vars(Connect) /\ WF_vars(ServerForgets)
    /\ WF_vars(ConnectionEnds) /\ WF_vars(Ask) /\ WF_vars(DialogTimesOut)

Spec == Init /\ [][Next]_vars /\ Fairness

-----------------------------------------------------------------------------
(* The list lets in only devices that were at the port when somebody asked *)
(* for them, or share the ids with such a one that has no serial number,   *)
(* or its serial number: whatever has taken the port since, however many   *)
(* commands write the file, and when the daemon was started over half of   *)
(* it.                                                                     *)
OnlyAskedForIsListed ==
    \A d \in Devices :
        Allows(policy.entries \cup listed, d) =>
            \E a \in asked : IdsOf[a] = IdsOf[d] /\ SerialOf[a] \in {"", SerialOf[d]}

(* The applet does not stay without a daemon: it is connected again and    *)
(* again, whoever of the two ended the connection.                         *)
AppletReconnects == []<>(applet = "connected" /\ server)
=============================================================================
