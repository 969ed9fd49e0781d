------------------------------ MODULE CommLink ------------------------------
(***************************************************************************)
(* The communication thread's network side (comm_thread): one server       *)
(* socket, one client at a time, and a receive buffer out of which lines   *)
(* are cut.  What a handled line does to the shared state is Commands.     *)
(*                                                                         *)
(* Data travel in units of a byte: a line of length n is n units, the last *)
(* of them its end of line, so that a line of length 1 is blank.           *)
(***************************************************************************)
EXTENDS Integers, Sequences, SequencesExt, FiniteSets

CONSTANTS
    Connections,    \* connections the operator's programs may open
    NoConnection,   \* client_fd = -1
    Lengths,        \* lengths of the lines they send, end of line included
    BufSize,        \* sizeof(recv_buf)
    ChunkSize,      \* sizeof(buf), what one recv returns at most
    MaxLines        \* bound: lines sent in a behaviour

ASSUME CommAssumption ==
    /\ NoConnection \notin Connections
    /\ Lengths \subseteq Nat \ {0}
    /\ ChunkSize \in Nat \ {0} /\ BufSize \in Nat /\ ChunkSize <= BufSize
    /\ MaxLines \in Nat

VARIABLES
    pc,          \* where the thread is: its loop, or "ended", or "dead" (killed)
    readable,    \* the sockets select reported
    client,      \* client_fd
    buf,         \* recv_buf up to recv_len
    listening,   \* server_fd is open
    open,        \* connections accepted and not closed yet
    waiting,     \* connections in the backlog
    stream,      \* of each connection, the units sent and not yet received
    hungUp,      \* connections closed by the peer
    up,          \* the shutdown flag
    sent, got,   \* history: lengths sent, lines cut out of the buffer
    torn,        \* history: the buffer holds or has dropped a part of a line
    handled,     \* history: connection and number of the last line cut out
    verdict      \* history: what became of it

server == <<pc, readable, client, buf, listening, open>>
network == <<waiting, stream, hungUp, up, sent>>
history == <<got, torn, handled, verdict>>
commVars == <<server, network, history>>

SafeLength == BufSize - ChunkSize + 1

Units(c, n, len) == [i \in 1..len |-> [from |-> c, line |-> n, part |-> i, eol |-> i = len]]

\* Every unit of the line that the client's next one is.
IsWhole(line) == line = Units(client, got[client] + 1, Len(line))

CommInit ==
    /\ pc = "setup" /\ readable = {} /\ client = NoConnection
    /\ buf = <<>> /\ listening = FALSE /\ open = {}
    /\ waiting = {} /\ hungUp = {} /\ up = TRUE
    /\ stream = [c \in Connections |-> <<>>]
    /\ sent = [c \in Connections |-> <<>>]
    /\ got = [c \in Connections |-> 0]
    /\ torn = FALSE /\ handled = <<NoConnection, 0>> /\ verdict = "none"
-----------------------------------------------------------------------------
(* The operator's side.  A program connects, sends lines and hangs up,     *)
(* with what it sent still to be read or lost.                             *)
Talking(c) == (c \in waiting \/ c \in open) /\ c \notin hungUp

Untouched(c) == sent[c] = <<>> /\ c \notin waiting \cup open \cup hungUp

LinesSent == FoldFunction(LAMBDA s, n : Len(s) + n, 0, sent)

Connect(c) ==
    /\ listening /\ Untouched(c)
    /\ waiting' = waiting \cup {c}
    /\ UNCHANGED <<server, stream, hungUp, up, sent, history>>

SendLine(c) ==
    /\ Talking(c) /\ LinesSent < MaxLines
    /\ \E n \in Lengths :
        /\ sent' = [sent EXCEPT ![c] = Append(@, n)]
        /\ stream' = [stream EXCEPT ![c] = @ \o Units(c, Len(sent[c]) + 1, n)]
    /\ UNCHANGED <<server, waiting, hungUp, up, history>>

HangUp(c) ==
    /\ Talking(c)
    /\ hungUp' = hungUp \cup {c}
    /\ stream' \in {stream, [stream EXCEPT ![c] = <<>>]}
    /\ UNCHANGED <<server, waiting, up, sent, history>>

Lower ==
    /\ up' = FALSE
    /\ UNCHANGED <<server, waiting, stream, hungUp, sent, history>>

Operator == Lower \/ \E c \in Connections : Connect(c) \/ SendLine(c) \/ HangUp(c)
-----------------------------------------------------------------------------
(* The thread.                                                             *)
Clients == IF client = NoConnection THEN {} ELSE {client}

\* comm_setup_server_socket: any of its calls may fail, and ends the thread.
Setup ==
    /\ pc = "setup"
    /\ \/ pc' = "loop" /\ listening' = TRUE
       \/ pc' = "ended" /\ listening' = FALSE
    /\ UNCHANGED <<readable, client, buf, open, network, history>>

SelectForever ==
    /\ pc = "select"
    /\ waiting # {} \/ \E c \in Clients : stream[c] # <<>> \/ c \in hungUp
    /\ readable' = {c \in Clients : stream[c] # <<>> \/ c \in hungUp}
    /\ pc' = IF waiting # {} THEN "accept" ELSE "recv"
    /\ UNCHANGED <<client, buf, listening, open, network, history>>

\* select ends when a socket is ready, and after 100 ms in any case.
Select ==
    /\ pc = "select"
    /\ readable' = {c \in Clients : stream[c] # <<>> \/ c \in hungUp}
    /\ pc' = IF waiting # {} THEN "accept" ELSE "recv"
    /\ UNCHANGED <<client, buf, listening, open, network, history>>

Interrupted ==
    /\ pc = "select" /\ pc' = "loop"
    /\ UNCHANGED <<readable, client, buf, listening, open, network, history>>

CloseNothing == open
Close == open \ Clients

\* The client closed for a new one leaves its half line in the buffer.
Accept ==
    /\ pc = "accept" /\ pc' = "recv"
    /\ \/ \E c \in waiting :
            /\ waiting' = waiting \ {c}
            /\ client' = c /\ open' = Close \cup {c}
            /\ torn' = (torn \/ buf # <<>>)
       \/ UNCHANGED <<waiting, client, open, torn>>
    /\ UNCHANGED <<readable, buf, listening, stream, hungUp, up, sent, got, handled, verdict>>

\* Only a client that select reported is read: never one accepted just now.
Skip ==
    /\ pc = "recv" /\ client \notin readable
    /\ pc' = "status"
    /\ UNCHANGED <<readable, client, buf, listening, open, network, history>>

\* recv reports the end of the stream or an error.
Disconnect ==
    /\ pc = "recv" /\ client \in readable
    /\ client \in hungUp /\ stream[client] = <<>>
    /\ client' = NoConnection /\ open' = Close
    /\ buf' = <<>> /\ torn' = FALSE
    /\ pc' = "status"
    /\ UNCHANGED <<readable, listening, network, got, handled, verdict>>

FitsAlways(n) == TRUE
FitsStrictly(n) == Len(buf) + n < BufSize
Fits(n) == Len(buf) + n <= BufSize

Receive ==
    /\ pc = "recv" /\ client \in readable
    /\ \E n \in 1..ChunkSize :
        /\ n <= Len(stream[client])
        /\ stream' = [stream EXCEPT ![client] = SubSeq(@, n + 1, Len(@))]
        /\ buf' = (IF Fits(n) THEN buf ELSE <<>>) \o SubSeq(stream[client], 1, n)
    /\ pc' = "parse"
    /\ UNCHANGED <<readable, client, listening, open, waiting, hungUp, up, sent, history>>

\* The first end of line in the buffer; blank lines are skipped.
Ends == {i \in DOMAIN buf : buf[i].eol}
FirstEnd == CHOOSE i \in Ends : \A j \in Ends : i <= j

CutLine ==
    LET line == SubSeq(buf, 1, FirstEnd) IN
    /\ verdict' = CASE Len(line) = 1 -> "blank"
                    [] IsWhole(line) -> "whole"
                    [] OTHER -> "broken"
    /\ handled' = <<buf[FirstEnd].from, buf[FirstEnd].line>>
    /\ got' = [got EXCEPT ![client] = @ + 1]
    /\ torn' = FALSE
    /\ buf' = SubSeq(buf, FirstEnd + 1, Len(buf))

ParseOne ==
    /\ pc = "parse" /\ pc' = "status"
    /\ \/ Ends # {} /\ CutLine
       \/ Ends = {} /\ UNCHANGED <<buf, history>>
    /\ UNCHANGED <<readable, client, listening, open, network>>

Parse ==
    /\ pc = "parse"
    /\ \/ Ends # {} /\ CutLine /\ pc' = pc
       \/ Ends = {} /\ pc' = "status" /\ UNCHANGED <<buf, history>>
    /\ UNCHANGED <<readable, client, listening, open, network>>

\* No client, or no status line due.
Quiet ==
    /\ pc = "status" /\ pc' = "loop"
    /\ UNCHANGED <<readable, client, buf, listening, open, network, history>>

\* The status line is sent: here a peer that has gone kills the process
\* (SIGPIPE), and a failed send closes the client but keeps the half line.
Report ==
    /\ pc = "status" /\ client # NoConnection
    /\ \/ pc' = "loop" /\ UNCHANGED <<client, listening, open, torn>>
       \/ /\ pc' = "loop" /\ client' = NoConnection /\ open' = Close
          /\ torn' = (torn \/ buf # <<>>) /\ UNCHANGED listening
       \/ /\ client \in hungUp
          /\ pc' = "dead" /\ client' = NoConnection /\ open' = {}
          /\ listening' = FALSE /\ UNCHANGED torn
    /\ UNCHANGED <<readable, buf, network, got, handled, verdict>>

Ending ==
    /\ pc' = "ended" /\ client' = NoConnection
    /\ open' = Close /\ listening' = FALSE
    /\ UNCHANGED <<readable, buf, network, history>>

Loop ==
    /\ pc = "loop"
    /\ \/ ~up /\ Ending
       \/ /\ up /\ pc' = "select"
          /\ UNCHANGED <<readable, client, buf, listening, open, network, history>>

SelectFails == pc = "select" /\ Ending

Comm ==
    \/ Setup \/ Loop \/ Select \/ Accept \/ Skip \/ Disconnect
    \/ Receive \/ Parse \/ Quiet \/ Report

CommNext == Operator \/ Comm \/ Interrupted \/ SelectFails

CommSpec == CommInit /\ [][CommNext]_commVars

\* The thread goes on, its sends included: the peers read what they are sent.
\* Interruptions do not keep select from ever returning.
FairComm == CommSpec /\ WF_commVars(Comm) /\ SF_commVars(Select)
-----------------------------------------------------------------------------
CommTypeOK ==
    /\ pc \in {"setup", "loop", "select", "accept", "recv", "parse", "status", "ended", "dead"}
    /\ readable \subseteq Connections /\ open \subseteq Connections
    /\ client \in Connections \cup {NoConnection}
    /\ waiting \subseteq Connections /\ hungUp \subseteq Connections
    /\ Len(buf) <= BufSize
    /\ listening \in BOOLEAN /\ up \in BOOLEAN /\ torn \in BOOLEAN
    /\ got \in [Connections -> Nat]

\* At most the one client is open, and a thread that has ended holds nothing:
\* a program of the operator replaced by another is closed, not forgotten
\* (comm.c closes the old client before it takes the new one).
NoLeak ==
    /\ open = Clients
    /\ pc \in {"ended", "dead"} => open = {} /\ ~listening

\* The lines of a connection are handled once each and in the order sent, and
\* nobody else's under its name; whole whatever pieces recv returns them in,
\* but for those longer than the buffer lets pass and for the one line at
\* which a connection was replaced or failed under a half line.
Link == INSTANCE LineLink WITH served <- client
ImplementsLineLink == Link!Spec

\* A line sent by the client being served is handled, unless the client goes:
\* no line waits in the buffer for a later one to arrive.
LinesArrive ==
    \A c \in Connections, k \in 1..MaxLines :
        (client = c /\ k <= Len(sent[c])) ~> (client # c \/ k <= got[c])

\* When the flag is lowered the thread ends, so that main's join returns,
\* with no client or a silent one too.
LinkEnds == ~up ~> pc \in {"ended", "dead"}
=============================================================================
