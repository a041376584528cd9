------------------------------ MODULE HostShare ------------------------------
(***************************************************************************)
(* The share of a Host's room: the intent its page keeps in SignalingClient *)
(* (which share it wants, whether it is paused) against the share record   *)
(* of the signaling server, across sockets.  A socket carries messages in  *)
(* order both ways; when one is lost the page connects another, and what   *)
(* the old one still holds for the server may be read before, between or   *)
(* after the messages of the new one.                                      *)
(*                                                                         *)
(* One page with a persistent room session.  Shares are numbered in the    *)
(* order the page starts them, and 0 is none.                              *)
(***************************************************************************)
EXTENDS Integers, Sequences

CONSTANTS
    MaxShares,      \* bound: shares the page starts
    MaxConnections,     \* bound: sockets it opens
    MaxPauses,      \* bound: pauses and resumptions by the user
    MaxRefusals     \* bound: route admissions the server fails

ASSUME HostShareAssumption ==
    MaxShares \in Nat /\ MaxConnections \in Nat /\ MaxPauses \in Nat /\ MaxRefusals \in Nat

VARIABLES
    page,       \* HostPage: its share, what it believes the server has, pause
    signal,     \* SignalingClient: identity, pending start, current socket
    up,         \* messages of each socket on their way to the server
    server,     \* sessions, the room's share record, what each socket is sent
    budget

shareVars == <<page, signal, up, server, budget>>

Sockets == 1..MaxConnections
Shares == 0..MaxShares
NoAuth == -1

Msg(t, share, paused) == [t |-> t, share |-> share, paused |-> paused]
Auth(share, only, paused) ==
    [t |-> "auth", share |-> share, only |-> only, paused |-> paused]
CloseMsg == Msg("close", 0, FALSE)
Replaced == Msg("replaced", 0, FALSE)

-----------------------------------------------------------------------------
(***************************************************************************)
(* The page's side: SignalingClient.                                       *)
(***************************************************************************)

Linked == signal.sock # 0 /\ signal.authed

\* A socket whose server end is gone swallows what is sent.
Sending(msgs) ==
    up' = IF signal.sock # 0 THEN [up EXCEPT ![signal.sock] = @ \o msgs] ELSE up

Say(msgs) == IF Linked THEN Sending(msgs) ELSE UNCHANGED up

\* A share starts: the page claims a fresh generation and the client keeps the
\* intent until the server answers for it.
StartSharing ==
    /\ page.gen = 0 /\ page.last < MaxShares /\ ~signal.stopped
    /\ page' = [page EXCEPT !.gen = page.last + 1, !.last = @ + 1, !.paused = FALSE]
    /\ signal' = [signal EXCEPT !.only = FALSE, !.share = page.last + 1,
                                !.paused = FALSE, !.pending = page.last + 1]
    /\ Say(<<Msg("start", page.last + 1, FALSE)>>)
    /\ UNCHANGED <<server, budget>>

Forgotten(s) == [s EXCEPT !.share = 0, !.paused = FALSE, !.only = TRUE]

StopSharing ==
    /\ page.gen # 0 /\ ~signal.stopped
    /\ page' = [page EXCEPT !.gen = 0, !.server = 0, !.paused = FALSE, !.live = FALSE]
    /\ IF signal.share = page.gen
       THEN /\ Say(<<Msg("stop", page.gen, FALSE)>>)
            /\ signal' = [Forgotten(signal) EXCEPT !.pending = 0]
       ELSE UNCHANGED <<signal, up>>
    /\ UNCHANGED <<server, budget>>

\* A pause is local at once and stays the intent when it cannot be sent; a
\* resumption that cannot be sent is taken back.
TogglePause ==
    /\ page.live /\ budget.pauses > 0
    /\ budget' = [budget EXCEPT !.pauses = @ - 1]
    /\ Say(<<Msg("pause", signal.share, ~page.paused)>>)
    /\ signal' = [signal EXCEPT !.paused = ~page.paused \/ ~Linked]
    /\ page' = [page EXCEPT !.paused = ~@ \/ ~Linked]
    /\ UNCHANGED server

\* Mutant: a stop that crossed the authentication is not repeated.
ReconciledWithoutStop(share) ==
    IF signal.only THEN <<>>
    ELSE IF signal.share = 0 \/ share = signal.share \/ signal.pending # signal.share
    THEN <<>>
    ELSE (IF share # 0 THEN <<Msg("stop", share, FALSE)>> ELSE <<>>)
         \o <<Msg("start", signal.share, signal.paused)>>

\* Mutant: a start that crossed a room-only authentication is not sent.
ReconciledWithoutStart(share) ==
    IF signal.only
    THEN IF share # 0 THEN <<Msg("stop", share, FALSE)>> ELSE <<>>
    ELSE IF signal.share = 0 \/ share \in {0, signal.share} \/ signal.pending # signal.share
    THEN <<>>
    ELSE <<Msg("stop", share, FALSE), Msg("start", signal.share, signal.paused)>>

\* reconcileHostShareState: what the client answers to the share the server
\* says this session has.
Reconciled(share) ==
    IF signal.only
    THEN IF share # 0 THEN <<Msg("stop", share, FALSE)>> ELSE <<>>
    ELSE IF signal.share = 0 \/ share = signal.share \/ signal.pending # signal.share
    THEN <<>>
    ELSE (IF share # 0 THEN <<Msg("stop", share, FALSE)>> ELSE <<>>)
         \o <<Msg("start", signal.share, signal.paused)>>

StillPending(share) ==
    IF ~signal.only /\ signal.share # 0 /\ share # signal.share
    THEN IF share = 0 \/ signal.pending = signal.share THEN signal.pending ELSE 0
    ELSE 0

HearAuthenticated(m) ==
    /\ signal' = [signal EXCEPT !.authed = TRUE, !.pending = StillPending(m.share)]
    /\ Sending(Reconciled(m.share))
    /\ page' = [page EXCEPT !.server = m.share,
                            !.live = @ \/ (page.gen # 0 /\ m.share = page.gen)]

Started(m) ==
    /\ signal' = [signal EXCEPT !.pending = IF @ = m.share THEN 0 ELSE @]
    /\ page' = IF page.gen # m.share THEN page
               ELSE [page EXCEPT !.server = m.share, !.paused = m.paused, !.live = TRUE]
    /\ UNCHANGED up

\* The server refused the share: the page ends it and keeps the room.
StartFailed(m) ==
    /\ signal' = IF signal.share = m.share
                 THEN [Forgotten(signal) EXCEPT !.pending = IF @ = m.share THEN 0 ELSE @]
                 ELSE signal
    /\ page' = IF page.gen = m.share
               THEN [page EXCEPT !.gen = 0, !.server = 0, !.paused = FALSE, !.live = FALSE]
               ELSE page
    /\ UNCHANGED up

\* The server kept the pause of a share this page believed resumed.
PauseSource(m) ==
    /\ IF page.gen = m.share /\ page.server = page.gen
       THEN page' = [page EXCEPT !.paused = TRUE] /\ signal' = [signal EXCEPT !.paused = TRUE]
       ELSE UNCHANGED <<page, signal>>
    /\ UNCHANGED up

Unlinked(s) == [s EXCEPT !.sock = 0, !.authed = FALSE]

\* The server ended the session: another one replaced it, or it only closed.
Closed(m) ==
    /\ signal' = [Unlinked(signal) EXCEPT !.stopped = (m.t = "replaced")]
    /\ UNCHANGED <<page, up>>

Receive ==
    /\ signal.sock # 0 /\ server.down[signal.sock] # <<>>
    /\ LET m == Head(server.down[signal.sock])
       IN  \/ m.t = "authed" /\ HearAuthenticated(m)
           \/ m.t = "started" /\ Started(m)
           \/ m.t = "failed" /\ StartFailed(m)
           \/ m.t = "pause-source" /\ PauseSource(m)
           \/ m.t \in {"close", "replaced"} /\ Closed(m)
    /\ server' = [server EXCEPT !.down[signal.sock] = Tail(@)]
    /\ UNCHANGED budget

\* A reconnect timer, or the start of a share, opens the next socket, and its
\* opening sends what the client then wants.
Connect ==
    /\ signal.sock = 0 /\ ~signal.stopped /\ signal.last < MaxConnections
    /\ signal' = [signal EXCEPT !.sock = signal.last + 1, !.last = @ + 1, !.opened = FALSE]
    /\ UNCHANGED <<page, up, server, budget>>

Open ==
    /\ signal.sock # 0 /\ ~signal.opened
    /\ signal' = [signal EXCEPT !.opened = TRUE]
    /\ Sending(<<Auth(signal.share, signal.only, signal.paused)>>)
    /\ UNCHANGED <<page, server, budget>>

\* The client gives up an authentication after eight seconds.  The server gave
\* its own end five, so it has closed that session by then.
TimeOut ==
    /\ signal.opened /\ signal.sock # 0 /\ ~signal.authed
    /\ ~server.open[signal.sock] /\ signal.last < MaxConnections
    /\ signal' = Unlinked(signal)
    /\ Sending(<<CloseMsg>>)
    /\ UNCHANGED <<page, server, budget>>

\* The watchdog retires an unresponsive socket: its messages are still read.
Retire ==
    /\ Linked /\ signal.last < MaxConnections
    /\ signal' = Unlinked(signal)
    /\ Sending(<<CloseMsg>>)
    /\ UNCHANGED <<page, server, budget>>

\* The network loses a socket with what it carries; both ends notice in time.
Break ==
    /\ signal.sock # 0 /\ signal.last < MaxConnections
    /\ signal' = Unlinked(signal)
    /\ up' = [up EXCEPT ![signal.sock] = <<CloseMsg>>]
    /\ UNCHANGED <<page, server, budget>>

-----------------------------------------------------------------------------
(***************************************************************************)
(* The server.  A share record keeps its generation as a fence after the   *)
(* share stops; the route policy is what tells a running share.            *)
(***************************************************************************)

ActiveShare ==
    IF server.host # 0 /\ server.auth[server.host] > 0
       /\ server.gen = server.auth[server.host]
    THEN server.gen ELSE 0

Tell(s, k, msgs) ==
    IF s.open[k] THEN [s EXCEPT !.down[k] = @ \o msgs] ELSE s

CloseSession(s, k, m) == [Tell(s, k, <<m>>) EXCEPT !.open[k] = FALSE]

\* stopSharing of the room: the connected Host's session loses the share too.
Stopped(s) ==
    [s EXCEPT !.auth = IF s.host # 0 /\ s.auth[s.host] = s.gen
                       THEN [@ EXCEPT ![s.host] = 0] ELSE @,
              !.policy = FALSE, !.paused = FALSE,
              !.told = [online |-> FALSE, paused |-> FALSE]]

\* settleHostShare: the record after this connection took over its share.
Settled(s, m) ==
    IF m.only THEN IF s.gen # 0 THEN Stopped(s) ELSE s
    ELSE IF m.share # 0 /\ m.share = s.gen /\ ~s.policy THEN s
    ELSE [(IF s.gen # 0 /\ s.gen # m.share THEN Stopped(s) ELSE s)
            EXCEPT !.gen = m.share, !.policy = TRUE,
                   !.paused = m.paused \/ (s.gen = m.share /\ s.paused)]

\* Mutant: a late authentication takes up the share that was stopped.
OwnShareUnfenced(s, m) == IF m.only THEN 0 ELSE m.share

OwnShare(s, m) ==
    IF m.only \/ (m.share = s.gen /\ ~s.policy) THEN 0 ELSE m.share

\* A Host with a share that the route controller does not admit is refused.
Refused(s, k) == CloseSession(s, k, CloseMsg)

\* The answer names the share the session owns; a paused one is repeated.
Admitted(s, k, share) ==
    Tell([s EXCEPT !.told = IF share # 0 THEN [online |-> TRUE, paused |-> s.paused] ELSE @],
         k, <<Msg("authed", share, FALSE)>> \o
            IF share # 0 /\ s.paused THEN <<Msg("pause-source", share, TRUE)>> ELSE <<>>)

Displace(s, k) ==
    IF server.host # 0 /\ server.host # k THEN CloseSession(s, server.host, Replaced) ELSE s

Authenticate(k, m, ok) ==
    LET own == OwnShare(server, m)
        set == [Settled([server EXCEPT !.host = k], m) EXCEPT !.auth[k] = own]
    IN  server' = IF ok THEN Displace(Admitted(set, k, own), k) ELSE Refused(set, k)

\* handleMessage drops what a closing session or one that was replaced sends.
Current(k) == server.open[k] /\ server.host = k /\ server.auth[k] # NoAuth

MayStart(k, m) == server.auth[k] = 0 /\ m.share # server.gen

StartShare(k, m, ok) ==
    IF ~MayStart(k, m)
    THEN server' = Tell(server, k, <<Msg("failed", m.share, FALSE)>>)
    ELSE LET set == [server EXCEPT !.gen = m.share, !.policy = TRUE,
                                   !.paused = m.paused, !.auth[k] = m.share]
         IN  server' = IF ok
                       THEN Tell([set EXCEPT !.told = [online |-> TRUE, paused |-> m.paused]],
                                 k, <<Msg("started", m.share, m.paused)>>)
                       ELSE Tell(Stopped(set), k, <<Msg("failed", m.share, FALSE)>>)

Owns(k, m) == server.gen = server.auth[k] /\ m.share = server.auth[k]

StopShare(k, m) ==
    server' = IF server.auth[k] = 0 THEN server
              ELSE IF Owns(k, m) THEN Stopped(server)
              ELSE CloseSession(server, k, Replaced)

SetPaused(k, m) ==
    server' = IF server.auth[k] # 0 /\ Owns(k, m)
              THEN [server EXCEPT !.paused = m.paused,
                                  !.told = [online |-> TRUE, paused |-> m.paused]]
              ELSE CloseSession(server, k, Replaced)

Gone(k) ==
    server' = [server EXCEPT !.open[k] = FALSE, !.auth[k] = NoAuth,
                             !.host = IF @ = k THEN 0 ELSE @,
                             !.told = IF server.host = k
                                      THEN [online |-> FALSE, paused |-> FALSE] ELSE @]

\* Admission of a share's Host may fail, within the bound.
Admission(m) ==
    {TRUE} \cup IF budget.refusals > 0 /\ m.t \in {"auth", "start"} /\ m.share # 0
                THEN {FALSE} ELSE {}

Handle(k, m, ok) ==
    IF m.t = "close" THEN Gone(k)
    ELSE IF ~server.open[k] THEN UNCHANGED server
    ELSE IF m.t = "auth" THEN Authenticate(k, m, ok)
    ELSE IF ~Current(k) THEN server' = CloseSession(server, k, Replaced)
    ELSE IF m.t = "start" THEN StartShare(k, m, ok)
    ELSE IF m.t = "stop" THEN StopShare(k, m)
    ELSE SetPaused(k, m)

Read ==
    \E k \in Sockets :
        /\ up[k] # <<>>
        /\ \E ok \in Admission(Head(up[k])) :
              /\ Handle(k, Head(up[k]), ok)
              /\ budget' = IF ok THEN budget ELSE [budget EXCEPT !.refusals = @ - 1]
        /\ up' = [up EXCEPT ![k] = Tail(@)]
        /\ UNCHANGED <<page, signal>>

\* The authentication timer of a session: what arrives later is not read.
Expire ==
    \E k \in Sockets :
        /\ k <= signal.last /\ server.open[k] /\ server.auth[k] = NoAuth
        /\ signal.last < MaxConnections
        /\ server' = CloseSession(server, k, CloseMsg)
        /\ UNCHANGED <<page, signal, up, budget>>

\* The reader of a session the server closed ends by itself.
Disconnect ==
    \E k \in Sockets :
        /\ server.auth[k] # NoAuth /\ ~server.open[k]
        /\ Gone(k)
        /\ UNCHANGED <<page, signal, up, budget>>

-----------------------------------------------------------------------------

ShareInit ==
    /\ page = [gen |-> 0, last |-> 0, server |-> 0, paused |-> FALSE, live |-> FALSE]
    /\ signal = [share |-> 0, only |-> TRUE, paused |-> FALSE, pending |-> 0,
                 authed |-> FALSE, sock |-> 0, last |-> 0, opened |-> FALSE,
                 stopped |-> FALSE]
    /\ up = [k \in Sockets |-> <<>>]
    /\ server = [host |-> 0, auth |-> [k \in Sockets |-> NoAuth],
                 open |-> [k \in Sockets |-> TRUE],
                 down |-> [k \in Sockets |-> <<>>], gen |-> 0, policy |-> FALSE,
                 paused |-> FALSE, told |-> [online |-> FALSE, paused |-> FALSE]]
    /\ budget = [pauses |-> MaxPauses, refusals |-> MaxRefusals]

User == StartSharing \/ StopSharing \/ TogglePause
Network == Connect \/ Open \/ Receive \/ Read \/ Disconnect
Faults == TimeOut \/ Retire \/ Break \/ Expire

ShareNext == User \/ Network \/ Faults

\* Timers, sockets and readers run; nothing obliges the user or the network
\* to do anything.
ShareSpec == ShareInit /\ [][ShareNext]_shareVars /\ WF_shareVars(Connect) /\ WF_shareVars(Open)
             /\ WF_shareVars(Receive) /\ WF_shareVars(Read) /\ WF_shareVars(Disconnect)

-----------------------------------------------------------------------------

ShareTypeOK ==
    /\ page \in [gen : Shares, last : Shares, server : Shares,
                 paused : BOOLEAN, live : BOOLEAN]
    /\ signal \in [share : Shares, only : BOOLEAN, paused : BOOLEAN, pending : Shares,
                   authed : BOOLEAN, sock : 0..MaxConnections, last : 0..MaxConnections,
                   opened : BOOLEAN, stopped : BOOLEAN]
    /\ server.host \in 0..MaxConnections /\ server.gen \in Shares
    /\ server.auth \in [Sockets -> Shares \cup {NoAuth}]

\* A page that is alone with its room is never told that another session
\* replaced it: no order of stops, starts, pauses and reconnections makes the
\* server take it for a stale one.
NeverReplaced == ~signal.stopped

\* What the viewers were last told is what the server holds: online exactly
\* while the connected Host publishes, paused exactly while its share is.
ViewersToldTruth ==
    server.host # 0 /\ server.open[server.host] =>
        server.told = [online |-> ActiveShare # 0,
                       paused |-> ActiveShare # 0 /\ server.paused]

Quiet ==
    /\ Linked /\ \A k \in Sockets : up[k] = <<>>
    /\ server.down[signal.sock] = <<>> /\ server.host = signal.sock

\* Once everything is delivered the server publishes the share the page wants,
\* and the page knows it.
SharesAgree ==
    Quiet => ActiveShare = page.gen /\ (page.live => page.server = page.gen)

\* The page, the server and the viewers have the same idea of the share, and the
\* page is never taken for a stale one (reconcileShare, settleHostShare,
\* broadcastHostStatus, the replacement in handleAuthenticate).
ShareTruth == ShareTypeOK /\ NeverReplaced /\ ViewersToldTruth /\ SharesAgree

\* locales/en.ts, 831: when a pause could not be sent, "sharing stays paused".
PausesAgree == Quiet /\ page.live /\ page.paused => server.paused

\* The generation kept after a stop is a fence: no late authentication, start
\* or resumption publishes that share again.
NoResurrection ==
    [][ server.gen # 0 /\ ~server.policy => ActiveShare' # server.gen ]_shareVars

\* While sockets are left, a page that wants a share gets it published or is
\* told that it failed.
ShareSettles ==
    \A g \in Shares \ {0} :
        page.gen = g ~> \/ page.gen # g
                        \/ page.live /\ ActiveShare = g
                        \/ signal.last = MaxConnections
=============================================================================
