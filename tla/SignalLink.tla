------------------------------ MODULE SignalLink ------------------------------
(***************************************************************************)
(* The connection of a SignalingClient: the socket it owns, the timers and *)
(* the access check that replace it, and the watchdog that asks whether it *)
(* still carries answers.  Sockets are numbered by socketGeneration; every *)
(* callback runs with the generation it was created for, which may be      *)
(* long gone.                                                              *)
(***************************************************************************)
EXTENDS Integers, FiniteSets

CONSTANTS
    MaxSockets,     \* bound: sockets opened
    MaxChallenges,  \* bound: challenges sent
    MaxRebaselines  \* bound: changes of visibility and late timers

ASSUME SignalLinkAssumption ==
    MaxSockets \in Nat /\ MaxChallenges \in Nat /\ MaxRebaselines \in Nat

VARIABLES
    sockets,    \* readyState of each socket
    owned,      \* the socket the client owns (0: none), its generation counter
    authed,     \* the owned socket's session is authenticated
    stopped,    \* the client stopped, or was ended by the server
    timers,     \* armed timers: reconnect, the authentication timeout's socket
    checks,     \* generations whose site access is being asked
    terminal,   \* a last message to send before stopping
    watch,      \* watchdog: timer, challenge pending, the one before it
    heard,      \* challenges whose response reached the page, and in flight
    rebaselines

vars == <<sockets, owned, authed, stopped, timers, checks, terminal, watch, heard,
          rebaselines>>

Generations == 1..MaxSockets
None == [gen |-> 0, seq |-> 0, confirm |-> FALSE]

-----------------------------------------------------------------------------
(***************************************************************************)
(* Watchdog.                                                               *)
(***************************************************************************)

Unwatched == [timer |-> 0, pending |-> None, previous |-> None]

Eligible == authed /\ owned.socket # 0 /\ sockets[owned.socket] = "open"

\* Arms the first interval unless a timer or a challenge is there already.
Refreshed(w) ==
    IF w.timer = 0 /\ w.pending = None THEN [w EXCEPT !.timer = owned.gen] ELSE w

SendChallenge(confirm) ==
    /\ heard.sent < MaxChallenges
    /\ heard' = [heard EXCEPT !.sent = @ + 1, !.flight = @ \cup {[gen |-> owned.gen, seq |-> heard.sent + 1]}]
    /\ watch' = [timer |-> owned.gen,
                 pending |-> [gen |-> owned.gen, seq |-> heard.sent + 1, confirm |-> confirm],
                 previous |-> IF watch.pending.gen = owned.gen THEN watch.pending ELSE None]

Close(s, g) == IF g # 0 /\ s[g] \in {"connecting", "open"} THEN [s EXCEPT ![g] = "closing"] ELSE s

NoTimers == [reconnect |-> FALSE, auth |-> 0]

\* connect.  A check of the generation before is aborted, and what it still does
\* then runs with its own generation.
Connected(s) ==
    /\ owned.gen < MaxSockets
    /\ owned' = [gen |-> owned.gen + 1, socket |-> owned.gen + 1]
    /\ sockets' = [s EXCEPT ![owned.gen + 1] = "connecting"]

Start ==
    /\ owned.socket = 0 /\ ~stopped
    /\ Connected(sockets)
    /\ timers' = [timers EXCEPT !.reconnect = FALSE]
    /\ UNCHANGED <<authed, stopped, checks, terminal, watch, heard, rebaselines>>

Halt ==
    /\ stopped' = TRUE /\ authed' = FALSE
    /\ sockets' = Close(sockets, owned.socket)
    /\ owned' = [owned EXCEPT !.socket = 0]
    /\ timers' = NoTimers /\ terminal' = "none"
    /\ watch' = Unwatched
    /\ UNCHANGED checks

Stop == ~stopped /\ Halt /\ UNCHANGED <<heard, rebaselines>>

\* A message to leave with goes out now, or after the next authentication
\* unless that takes too long.
SendThenStop ==
    /\ ~stopped /\ terminal = "none"
    /\ IF Eligible THEN Halt ELSE /\ terminal' = "waiting"
                                  /\ UNCHANGED <<sockets, owned, authed, stopped, timers, checks, watch>>
    /\ UNCHANGED <<heard, rebaselines>>

TerminalTimeout ==
    /\ terminal = "waiting" /\ Halt /\ UNCHANGED <<heard, rebaselines>>

SocketOpens(g) ==
    /\ sockets[g] = "connecting"
    /\ sockets' = [sockets EXCEPT ![g] = "open"]
    /\ timers' = IF owned.socket = g /\ ~stopped THEN [timers EXCEPT !.auth = g] ELSE timers
    /\ UNCHANGED <<owned, authed, stopped, checks, terminal, watch, heard, rebaselines>>

AuthenticationTimeout ==
    /\ timers.auth # 0
    /\ timers' = [timers EXCEPT !.auth = 0]
    /\ sockets' = IF ~authed /\ owned.socket = timers.auth
                  THEN Close(sockets, timers.auth) ELSE sockets
    /\ UNCHANGED <<owned, authed, stopped, checks, terminal, watch, heard, rebaselines>>

Authenticated ==
    /\ owned.socket # 0 /\ sockets[owned.socket] = "open" /\ ~authed
    /\ IF terminal = "waiting" THEN Halt
       ELSE /\ authed' = TRUE
            /\ timers' = [timers EXCEPT !.auth = 0]
            /\ watch' = Refreshed(watch)
            /\ UNCHANGED <<sockets, owned, stopped, checks, terminal>>
    /\ UNCHANGED <<heard, rebaselines>>

\* INVALID_TOKEN, ROOM_FULL and such, or a message of another protocol.
FatalError ==
    /\ owned.socket # 0 /\ sockets[owned.socket] = "open" /\ ~stopped
    /\ Halt /\ UNCHANGED <<heard, rebaselines>>

\* retireSocketForRecovery
Retired ==
    /\ sockets' = Close(sockets, owned.socket)
    /\ owned' = [owned EXCEPT !.socket = 0]
    /\ authed' = FALSE /\ watch' = Unwatched
    /\ timers' = [timers EXCEPT !.auth = 0]

\* AUTH_REQUIRED: a Host asks whether the site wants a password first, anyone
\* else reconnects.
AuthRequired(host) ==
    /\ owned.socket # 0 /\ sockets[owned.socket] = "open" /\ ~stopped
    /\ IF host THEN Retired /\ checks' = checks \cup {owned.gen}
       ELSE /\ sockets' = Close(sockets, owned.socket)
            /\ owned' = [owned EXCEPT !.socket = 0]
            /\ authed' = FALSE /\ watch' = Unwatched
            /\ timers' = [reconnect |-> TRUE, auth |-> 0]
            /\ UNCHANGED checks
    /\ UNCHANGED <<stopped, terminal, heard, rebaselines>>

\* Mutant: the answer is used whatever was connected meanwhile.
AccessAnsweredLate(denied) ==
    \E g \in checks :
        /\ ~denied /\ ~stopped
        /\ checks' = checks \ {g} /\ timers' = [timers EXCEPT !.reconnect = TRUE]
        /\ UNCHANGED <<sockets, owned, authed, stopped, terminal, watch>>
        /\ UNCHANGED <<heard, rebaselines>>

\* The check ends: access is denied, granted, or could not be asked.
AccessAnswered(denied) ==
    \E g \in checks :
        /\ IF denied /\ ~stopped /\ g = owned.gen THEN Halt
           ELSE /\ checks' = checks \ {g}
                /\ timers' = IF ~stopped /\ g = owned.gen
                             THEN [timers EXCEPT !.reconnect = TRUE] ELSE timers
                /\ UNCHANGED <<sockets, owned, authed, stopped, terminal, watch>>
        /\ UNCHANGED <<heard, rebaselines>>

ReconnectTimer ==
    /\ timers.reconnect /\ ~stopped
    /\ Connected(sockets)
    /\ timers' = [timers EXCEPT !.reconnect = FALSE]
    /\ UNCHANGED <<authed, stopped, checks, terminal, watch, heard, rebaselines>>

\* Mutant: the loss of a socket clears its session but schedules nothing.
SocketClosesForGood(g, final) ==
    /\ sockets[g] \in {"connecting", "open", "closing"}
    /\ sockets' = [sockets EXCEPT ![g] = "closed"]
    /\ IF owned.socket # g \/ stopped
       THEN UNCHANGED <<owned, authed, stopped, timers, terminal, watch>>
       ELSE /\ owned' = [owned EXCEPT !.socket = 0]
            /\ authed' = FALSE /\ watch' = Unwatched /\ stopped' = final
            /\ timers' = NoTimers
            /\ terminal' = IF final THEN "none" ELSE terminal
    /\ UNCHANGED <<checks, heard, rebaselines>>

\* The close event: of an older socket it is ignored; a code of the server that
\* ends the session stops the client.
SocketCloses(g, final) ==
    /\ sockets[g] \in {"connecting", "open", "closing"}
    /\ IF owned.socket # g \/ stopped
       THEN /\ sockets' = [sockets EXCEPT ![g] = "closed"]
            /\ UNCHANGED <<owned, authed, stopped, timers, checks, terminal, watch>>
       ELSE /\ sockets' = [sockets EXCEPT ![g] = "closed"]
            /\ owned' = [owned EXCEPT !.socket = 0]
            /\ authed' = FALSE /\ watch' = Unwatched
            /\ stopped' = final
            /\ timers' = [reconnect |-> ~final, auth |-> 0]
            /\ UNCHANGED checks
            /\ terminal' = IF final THEN "none" ELSE terminal
    /\ UNCHANGED <<heard, rebaselines>>

-----------------------------------------------------------------------------

Ticking == watch.timer # 0 /\ watch.timer = owned.gen /\ Eligible

Tick ==
    /\ Ticking /\ ~watch.pending.confirm
    /\ SendChallenge(watch.pending # None)
    /\ UNCHANGED <<sockets, owned, authed, stopped, timers, checks, terminal, rebaselines>>

\* Two challenges in a row stayed unanswered: another socket takes over.
ReplaceUnresponsive ==
    /\ Ticking /\ watch.pending.confirm
    /\ Connected(Close(sockets, owned.socket))
    /\ authed' = FALSE /\ watch' = Unwatched
    /\ timers' = [timers EXCEPT !.auth = 0]
    /\ UNCHANGED <<stopped, checks, terminal, heard, rebaselines>>

\* A timer that ran late, or a page that was hidden, starts over.
Rebaseline ==
    /\ rebaselines > 0 /\ ~stopped
    /\ watch' = IF Eligible THEN Refreshed(Unwatched) ELSE Unwatched
    /\ rebaselines' = rebaselines - 1
    /\ UNCHANGED <<sockets, owned, authed, stopped, timers, checks, terminal, heard>>

\* Mutant: only the newest challenge is recognised.
AnswersNewest(r) == watch.pending # None /\ watch.pending.gen = r.gen /\ watch.pending.seq = r.seq

Answers(r) ==
    \E c \in {watch.pending, watch.previous} \ {None} : c.gen = r.gen /\ c.seq = r.seq

\* A response arrives on the owned socket; one of another socket is not read.
ChallengeResponse ==
    \E r \in heard.flight :
        /\ owned.socket = r.gen /\ sockets[r.gen] = "open"
        /\ \A e \in heard.flight : e.gen = r.gen => r.seq <= e.seq
        /\ heard' = [heard EXCEPT !.flight = @ \ {r}, !.got = @ \cup {r.seq}]
        /\ watch' = IF Answers(r) /\ r.gen = owned.gen
                    THEN IF Eligible THEN Refreshed(Unwatched) ELSE Unwatched
                    ELSE watch
        /\ UNCHANGED <<sockets, owned, authed, stopped, timers, checks, terminal, rebaselines>>

-----------------------------------------------------------------------------

Init ==
    /\ sockets = [g \in Generations |-> "none"]
    /\ owned = [gen |-> 0, socket |-> 0]
    /\ authed = FALSE /\ stopped = FALSE
    /\ timers = NoTimers /\ checks = {} /\ terminal = "none"
    /\ watch = Unwatched
    /\ heard = [sent |-> 0, flight |-> {}, got |-> {}]
    /\ rebaselines = MaxRebaselines

Next ==
    \/ Start \/ Stop \/ SendThenStop \/ TerminalTimeout
    \/ \E g \in Generations : SocketOpens(g) \/ \E final \in BOOLEAN : SocketCloses(g, final)
    \/ AuthenticationTimeout \/ Authenticated \/ FatalError \/ ReconnectTimer
    \/ \E host \in BOOLEAN : AuthRequired(host)
    \/ \E denied \in BOOLEAN : AccessAnswered(denied)
    \/ Tick \/ ReplaceUnresponsive \/ Rebaseline \/ ChallengeResponse

\* Timers fire, a closing socket reports that it closed, and a request for the
\* site's access ends within its own timeout.
Spec ==
    /\ Init /\ [][Next]_vars
    /\ WF_vars(ReconnectTimer) /\ WF_vars(TerminalTimeout) /\ WF_vars(AuthenticationTimeout)
    /\ WF_vars(\E denied \in BOOLEAN : AccessAnswered(denied))
    /\ \A g \in Generations :
          WF_vars(sockets[g] = "closing" /\ \E final \in BOOLEAN : SocketCloses(g, final))

-----------------------------------------------------------------------------

TypeOK ==
    /\ sockets \in [Generations -> {"none", "connecting", "open", "closing", "closed"}]
    /\ owned \in [gen : 0..MaxSockets, socket : 0..MaxSockets]
    /\ timers \in [reconnect : BOOLEAN, auth : 0..MaxSockets]
    /\ terminal \in {"none", "waiting"} /\ watch.timer \in 0..MaxSockets

\* No socket is left open behind the client: every one that is not closing is
\* the owned one, a stopped client owns none, and nothing is armed that would
\* open a second beside it.
OneSocket ==
    /\ \A g \in Generations : sockets[g] \in {"connecting", "open"} => g = owned.socket
    /\ stopped => owned.socket = 0 /\ timers = NoTimers /\ watch = Unwatched
    /\ owned.socket # 0 => ~timers.reconnect

LinkSafety == TypeOK /\ OneSocket

\* A socket that answered one of the last two challenges is not replaced.
HealthyStep == ReplaceUnresponsive => {heard.sent, heard.sent - 1} \cap heard.got = {}
HealthySocketKept == [][HealthyStep]_vars

\* A client that is not stopped is not left without a session: a socket that is
\* lost, refused, or never authenticated is followed by another one.
LinkRecovers ==
    \A g \in 1..(MaxSockets - 1) :
        /\ owned.gen = g /\ ~authed /\ ~stopped
        /\ owned.socket # 0 => sockets[g] # "connecting"
        ~> stopped \/ authed \/ owned.gen # g
=============================================================================
