------------------------------ MODULE LineLink ------------------------------
(***************************************************************************)
(* What an operator may expect of the command link: of the lines sent on   *)
(* the connection being served, the next one is handled next, exactly once *)
(* and whole.  Two exceptions: a line longer than SafeLength, and the one  *)
(* line after a connection was lost or replaced in mid-line (torn).        *)
(***************************************************************************)
EXTENDS Integers, Sequences

CONSTANTS Connections, NoConnection, Lengths, SafeLength

VARIABLES
    served,   \* the connection whose lines are handled
    sent,     \* of each connection, the lengths of the lines sent so far
    got,      \* of each connection, the number of lines handled
    torn,     \* the next line may have lost its beginning or carry another's
    handled,  \* the line last handled: its connection and its number there
    verdict   \* what became of it

linkVars == <<served, sent, got, torn, handled, verdict>>

Init ==
    /\ served = NoConnection
    /\ sent = [c \in Connections |-> <<>>]
    /\ got = [c \in Connections |-> 0]
    /\ torn = FALSE /\ handled = <<NoConnection, 0>> /\ verdict = "none"

Send(c) ==
    /\ \E n \in Lengths : sent' = [sent EXCEPT ![c] = Append(@, n)]
    /\ UNCHANGED <<served, got, torn, handled, verdict>>

\* A newcomer is served at once; the connection served before it is dropped.
Serve(c) ==
    /\ served' = c /\ c # served
    /\ torn' \in {torn, TRUE}
    /\ served = NoConnection => torn' = torn
    /\ UNCHANGED <<sent, got, handled, verdict>>

\* A connection that closes takes its unfinished line with it; one that
\* fails while a status line is sent to it leaves the line behind.
Lose ==
    /\ served # NoConnection /\ served' = NoConnection
    /\ torn' \in BOOLEAN
    /\ UNCHANGED <<sent, got, handled, verdict>>

Handle(c) ==
    /\ served = c /\ got[c] < Len(sent[c])
    /\ handled' = <<c, got[c] + 1>>
    /\ got' = [got EXCEPT ![c] = @ + 1]
    /\ verdict' \in {"whole", "blank", "broken"}
    /\ verdict' = "broken" => torn \/ sent[c][got[c] + 1] > SafeLength
    /\ verdict' = "blank" =>
           torn \/ sent[c][got[c] + 1] \notin 2..SafeLength
    /\ torn' = FALSE
    /\ UNCHANGED <<served, sent>>

Next == Lose \/ \E c \in Connections : Send(c) \/ Serve(c) \/ Handle(c)

Spec == Init /\ [][Next]_linkVars
=============================================================================
