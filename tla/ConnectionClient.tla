-------------------------- MODULE ConnectionClient --------------------------
(***************************************************************************)
(* The connection under a CausalRepoClient: ReconnectableSocket, the       *)
(* reconnect timer of SocketManager, the login of ApiaryConnectionClient   *)
(* (WebSocketConnectionClient does the same) and the forcedOffline switch. *)
(*                                                                         *)
(* All of it runs on one JavaScript thread; what interleaves are the       *)
(* events: sockets opening and closing, the timer, the answer to a login   *)
(* and the user's switch.  A socket that open() replaced while it was      *)
(* still CLOSING lives on until its onclose fires.                         *)
(***************************************************************************)
EXTENDS Naturals, Sequences

CONSTANTS
    MaxLosses,    \* bound: sockets that fail or are lost
    MaxToggles    \* bound: uses of the forcedOffline switch

ASSUME ConnectionAssumption ==
    /\ MaxLosses \in Nat
    /\ MaxToggles \in Nat

VARIABLES
    socket,         \* readyState of the current WebSocket
    closing,        \* ReconnectableSocket._closing
    replaced,       \* number of replaced sockets that are still CLOSING
    timer,          \* whether the debounced reconnect is pending
    loggingIn,      \* whether the inner observable of the concatMap is active
    queue,          \* open (TRUE) and close (FALSE) events the concatMap holds back
    reply,          \* whether a login_result is due on the current socket
    connected,      \* _connectionStateChanged: "no", "yes", or "error" for good
    forcedOffline,
    settled,        \* history: the switch was used only when nothing was pending
    losses, toggles

vars == <<socket, closing, replaced, timer, loggingIn, queue, reply, connected,
          forcedOffline, settled, losses, toggles>>

Init ==
    /\ socket = "connecting"
    /\ closing = FALSE
    /\ replaced = 0
    /\ timer = FALSE
    /\ loggingIn = FALSE
    /\ queue = <<>>
    /\ reply = FALSE
    /\ connected = "no"
    /\ forcedOffline = FALSE
    /\ settled = TRUE
    /\ losses = 0 /\ toggles = 0

-----------------------------------------------------------------------------
(* ReconnectableSocket *)

(* Mutant of Open: _closing stays set. *)
OpenStillClosing ==
    IF socket \in {"closed", "closing"}
    THEN /\ socket' = "connecting"
         /\ replaced' = IF socket = "closing" THEN replaced + 1 ELSE replaced
         /\ reply' = FALSE
         /\ UNCHANGED closing
    ELSE UNCHANGED <<socket, closing, replaced, reply>>

Open ==
    IF socket \in {"closed", "closing"}
    THEN /\ socket' = "connecting"
         /\ closing' = FALSE
         /\ replaced' = IF socket = "closing" THEN replaced + 1 ELSE replaced
         /\ reply' = FALSE
    ELSE UNCHANGED <<socket, closing, replaced, reply>>

CloseSocket ==
    IF socket = "open"
    THEN socket' = "closing" /\ closing' = TRUE
    ELSE UNCHANGED <<socket, closing>>

-----------------------------------------------------------------------------
(* The concatMap over open and close events.  state is connectionState       *)
(* before it goes on with the events q, and s the readyState of the socket    *)
(* that a login would be sent on: send() throws while it is CONNECTING.       *)

NoTrue(q) == \A i \in DOMAIN q : ~q[i]
FirstTrue(q) == CHOOSE i \in DOMAIN q : q[i] /\ \A j \in 1 .. (i - 1) : ~q[j]

Proceed(q, state, s) ==
    IF NoTrue(q)
    THEN /\ connected' = IF q = <<>> THEN state ELSE "no"
         /\ loggingIn' = FALSE
         /\ queue' = <<>>
         /\ reply' = FALSE
    ELSE LET i == FirstTrue(q) IN
         /\ connected' = IF s = "connecting" THEN "error"
                         ELSE IF i > 1 THEN "no" ELSE state
         /\ loggingIn' = (s # "connecting")
         /\ queue' = SubSeq(q, i + 1, Len(q))
         /\ reply' = (s = "open")

(* Mutants of CloseEvent: connectionState does not follow the socket; only the *)
(* loss of an established connection starts the timer.                        *)
CloseEventSilent(s) ==
    /\ timer' = IF closing THEN timer ELSE TRUE
    /\ UNCHANGED <<connected, loggingIn, queue, reply>>

CloseEventOnce(s) ==
    /\ timer' = IF closing \/ connected # "yes" THEN timer ELSE TRUE
    /\ IF connected = "error" THEN UNCHANGED <<connected, loggingIn, queue, reply>>
       ELSE Proceed(Append(queue, FALSE), connected, s)

(* onclose of any socket: the close event follows the events held back, and  *)
(* takeUntil(onClose) ends a login that waits.                               *)
CloseEvent(s) ==
    /\ timer' = IF closing THEN timer ELSE TRUE
    /\ IF connected = "error" THEN UNCHANGED <<connected, loggingIn, queue, reply>>
       ELSE Proceed(Append(queue, FALSE), connected, s)

(* onopen: log in, or hold the event back while a login waits. *)
OnOpen ==
    /\ socket = "connecting"
    /\ socket' = "open"
    /\ IF connected = "error" \/ loggingIn
       THEN /\ queue' = IF loggingIn THEN Append(queue, TRUE) ELSE queue
            /\ UNCHANGED <<connected, loggingIn, reply>>
       ELSE Proceed(<<TRUE>>, connected, "open")
    /\ UNCHANGED <<closing, replaced, timer, forcedOffline, settled, losses, toggles>>

(* The socket fails to open, or the connection is lost. *)
Lose ==
    /\ losses < MaxLosses
    /\ socket \in {"connecting", "open"}
    /\ losses' = losses + 1
    /\ socket' = "closed"
    /\ CloseEvent("closed")
    /\ UNCHANGED <<closing, replaced, forcedOffline, settled, toggles>>

(* A close() completes, of the current socket or of a replaced one. *)
CloseCompletes ==
    /\ socket = "closing"
    /\ socket' = "closed"
    /\ CloseEvent("closed")
    /\ UNCHANGED <<closing, replaced, forcedOffline, settled, losses, toggles>>

(* Mutant of ReplacedCloses: onclose of a replaced socket fires again. *)
ReplacedClosesAgain ==
    /\ replaced' = replaced - 1
    /\ CloseEvent(socket)
    /\ UNCHANGED <<socket, closing, forcedOffline, settled, losses, toggles>>

ReplacedCloses ==
    /\ replaced > 0
    /\ replaced' = replaced - 1
    /\ CloseEvent(socket)
    /\ UNCHANGED <<socket, closing, forcedOffline, settled, losses, toggles>>

LoginResult ==
    /\ reply /\ socket = "open" /\ loggingIn
    /\ Proceed(queue, "yes", socket)
    /\ UNCHANGED <<socket, closing, replaced, timer, forcedOffline, settled, losses, toggles>>

-----------------------------------------------------------------------------
(* SocketManager: 5 seconds after the last close that nobody asked for. *)
Reconnect ==
    /\ timer
    /\ timer' = FALSE
    /\ Open
    /\ UNCHANGED <<loggingIn, queue, connected, forcedOffline, settled, losses, toggles>>

(* CausalRepoClient.forcedOffline.  Something is pending while a socket is    *)
(* closing or the reconnect timer runs.                                      *)
Settle == settled' = (settled /\ ~timer /\ socket # "closing")

GoOffline ==
    /\ toggles < MaxToggles
    /\ ~forcedOffline
    /\ Settle
    /\ forcedOffline' = TRUE
    /\ toggles' = toggles + 1
    /\ CloseSocket
    /\ UNCHANGED <<replaced, timer, loggingIn, queue, reply, connected, losses>>

GoOnline ==
    /\ toggles < MaxToggles
    /\ forcedOffline
    /\ Settle
    /\ forcedOffline' = FALSE
    /\ toggles' = toggles + 1
    /\ Open
    /\ UNCHANGED <<timer, loggingIn, queue, connected, losses>>

Next ==
    \/ OnOpen \/ Lose \/ CloseCompletes \/ ReplacedCloses \/ LoginResult
    \/ Reconnect \/ GoOffline \/ GoOnline

(* Sockets open and close, the server answers a login, and timers fire. *)
Fairness ==
    /\ WF_vars(OnOpen) /\ WF_vars(CloseCompletes) /\ WF_vars(ReplacedCloses)
    /\ WF_vars(LoginResult) /\ WF_vars(Reconnect)

Spec == Init /\ [][Next]_vars /\ Fairness

-----------------------------------------------------------------------------
TypeOK ==
    /\ socket \in {"connecting", "open", "closing", "closed"}
    /\ closing \in BOOLEAN
    /\ replaced \in Nat
    /\ timer \in BOOLEAN
    /\ loggingIn \in BOOLEAN
    /\ queue \in Seq(BOOLEAN)
    /\ reply \in BOOLEAN
    /\ connected \in {"no", "yes", "error"}
    /\ forcedOffline \in BOOLEAN
    /\ settled \in BOOLEAN
    /\ losses \in 0 .. MaxLosses
    /\ toggles \in 0 .. MaxToggles

(* While the client says it is connected, the packets it sends go to a       *)
(* socket that logged in: the socket was not lost, and not replaced by one    *)
(* that is still opening (on which send() would throw), unless the user       *)
(* switched back and forth too fast.                                         *)
ConnectedMeansLoggedIn ==
    connected = "yes" /\ settled => socket \in {"open", "closing"}

(* A client that is not forced offline never gives up: whenever its socket is  *)
(* closed, the reconnect timer is pending.                                   *)
NeverGivesUp == socket = "closed" /\ ~forcedOffline => timer

(* A user who waits for what is pending before using the switch is connected  *)
(* in the end, however often the connection was lost, unless he stays offline. *)
ReconnectsWhenSettled ==
    <>[](~forcedOffline /\ settled) => <>[](connected = "yes")

(* "Defines a websocket connection that will automatically try to reconnect   *)
(* if the connection is lost": unless the user stays offline, the client is   *)
(* connected in the end.                                                     *)
(* The code does not keep this; README.md, Disagreements, has the steps.      *)
Reconnects == <>[]~forcedOffline => <>[](connected = "yes")
=============================================================================
