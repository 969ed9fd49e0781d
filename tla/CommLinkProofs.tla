--------------------------- MODULE CommLinkProofs ---------------------------
(***************************************************************************)
(* The communication thread for every number of connections, every buffer  *)
(* and chunk size and every number and length of lines: the buffer is      *)
(* never overrun, no connection is ever left open behind the thread's      *)
(* back, and lines are handled as LineLink promises.                       *)
(***************************************************************************)
EXTENDS CommLink, SequenceTheorems, WellFoundedInduction, TLAPS

\* What may be on its way or in the buffer.
Data == [from : Connections, line : Nat, part : Nat, eol : BOOLEAN]

NetworkTypeOK ==
    /\ stream \in [Connections -> Seq(Data)]
    /\ sent \in [Connections -> Seq(Lengths)]
    /\ waiting \subseteq Connections /\ hungUp \subseteq Connections
    /\ up \in BOOLEAN

ThreadTypeOK ==
    /\ pc \in {"setup", "loop", "select", "accept", "recv", "parse", "status", "ended", "dead"}
    /\ readable \subseteq Connections
    /\ client \in Connections \cup {NoConnection}
    /\ listening \in BOOLEAN /\ torn \in BOOLEAN
    /\ got \in [Connections -> Nat]

BufferOK == buf \in Seq(Data) /\ Len(buf) <= BufSize

SocketsOK ==
    /\ open = Clients
    /\ pc \in {"ended", "dead"} => client = NoConnection /\ ~listening
    /\ pc = "setup" => client = NoConnection

CommInv == NetworkTypeOK /\ ThreadTypeOK /\ BufferOK /\ SocketsOK

LEMMA CommInvImplies == CommInv => CommTypeOK /\ NoLeak
<1> SUFFICES ASSUME CommInv PROVE CommTypeOK /\ NoLeak
  OBVIOUS
<1>1. NetworkTypeOK /\ ThreadTypeOK /\ BufferOK /\ SocketsOK
  BY Zenon DEF CommInv
<1>2. open \subseteq Connections
  BY <1>1 DEF SocketsOK, Clients, ThreadTypeOK
<1>3. CommTypeOK
  BY <1>1, <1>2, Zenon DEF CommTypeOK, NetworkTypeOK, ThreadTypeOK, BufferOK
<1>4. NoLeak
  BY <1>1, Zenon DEF NoLeak, SocketsOK, Clients
<1>q. QED
  BY <1>3, <1>4

(***************************************************************************)
(* Facts about numbers and lines.                                          *)
(***************************************************************************)
LEMMA LeastNatural ==
    ASSUME NEW T \in SUBSET Nat, T # {}
    PROVE  \E m \in T : \A n \in T : m <= n
<1> DEFINE less == {p \in Nat \X Nat : p[1] < p[2]}
<1>1. IsWellFoundedOn(less, Nat)
  BY NatLessThanWellFounded DEF OpToRel
<1>2. \A x, y \in Nat : x < y => <<x, y>> \in less
  OBVIOUS
<1> HIDE DEF less
<1>3. PICK m \in T : \A n \in T : ~(<<n, m>> \in less)
  BY <1>1, WFMin
<1>4. ASSUME NEW n \in T PROVE m <= n
  <2>1. m \in Nat /\ n \in Nat /\ ~(n < m)
    BY <1>2, <1>3
  <2>q. QED
    BY <2>1
<1>q. QED
  BY <1>4

LEMMA FirstEndInBuffer ==
    ASSUME BufferOK, Ends # {}
    PROVE  FirstEnd \in 1..Len(buf) /\ FirstEnd \in Ends
<1>1. Len(buf) \in Nat /\ DOMAIN buf = 1..Len(buf)
  BY LenProperties DEF BufferOK
<1>2. Ends \subseteq 1..Len(buf)
  BY <1>1 DEF Ends
<1>3. Ends \in SUBSET Nat
  BY <1>1, <1>2
<1>4. \E i \in Ends : \A j \in Ends : i <= j
  BY <1>3, LeastNatural
<1>5. FirstEnd \in Ends
  BY <1>4, Zenon DEF FirstEnd
<1>q. QED
  BY <1>2, <1>5

LEMMA UnitsAreData ==
    ASSUME NEW c \in Connections, NEW n \in Nat, NEW len \in Nat
    PROVE  Units(c, n, len) \in Seq(Data)
<1>1. ASSUME NEW i \in 1..len
      PROVE  [from |-> c, line |-> n, part |-> i, eol |-> i = len] \in Data
  <2>1. (i = len) \in BOOLEAN
    BY Zenon
  <2>q. QED
    BY <2>1 DEF Data
<1>2. Units(c, n, len) \in [1..len -> Data]
  BY <1>1, Zenon DEF Units
<1>q. QED
  BY <1>2, SeqDef

LEMMA PieceOfSeq ==
    ASSUME NEW s \in Seq(Data), NEW m \in Nat \ {0}, NEW n \in Nat, n <= Len(s)
    PROVE  /\ SubSeq(s, m, n) \in Seq(Data)
           /\ Len(SubSeq(s, m, n)) = IF m <= n THEN n - m + 1 ELSE 0
<1>1. \A i \in m..n : i \in 1..Len(s)
  BY LenProperties
<1>2. \A i \in m..n : s[i] \in Data
  BY <1>1, ElementOfSeq
<1>q. QED
  BY <1>2, SubSeqProperties
-----------------------------------------------------------------------------
LEMMA CommInitKeeps == CommInit => CommInv
<1> SUFFICES ASSUME CommInit PROVE CommInv
  OBVIOUS
<1>1. /\ <<>> \in Seq(Data) /\ Len(<<>>) = 0 /\ <<>> \in Seq(Lengths)
  BY EmptySeq
<1>2. BufSize \in Nat
  BY CommAssumption DEF CommAssumption
<1>3. NetworkTypeOK
  <2>1. up \in BOOLEAN
    BY Zenon DEF CommInit
  <2>q. QED
    BY <1>1, <2>1 DEF CommInit, NetworkTypeOK
<1>4. ThreadTypeOK
  <2>1. listening \in BOOLEAN /\ torn \in BOOLEAN
    BY Zenon DEF CommInit
  <2>q. QED
    BY <2>1 DEF CommInit, ThreadTypeOK
<1>5. BufferOK
  <2>1. buf = <<>>
    BY DEF CommInit
  <2>q. QED
    BY <1>1, <1>2, <2>1 DEF BufferOK
<1>6. SocketsOK
  BY Zenon DEF CommInit, SocketsOK, Clients
<1>q. QED
  BY <1>3, <1>4, <1>5, <1>6 DEF CommInv

(***************************************************************************)
(* The operator's side changes no socket and no buffer.                    *)
(***************************************************************************)
LEMMA ServerFrame ==
    ASSUME CommInv, UNCHANGED <<server, history>>
    PROVE  ThreadTypeOK' /\ BufferOK' /\ SocketsOK'
<1>1. UNCHANGED <<pc, readable, client, buf, listening, open, got, torn, handled, verdict>>
  BY DEF server, history
<1>q. QED
  BY <1>1 DEF CommInv, ThreadTypeOK, BufferOK, SocketsOK, Clients

LEMMA SendKeeps == ASSUME CommInv, NEW c \in Connections, SendLine(c) PROVE CommInv'
<1>1. PICK n \in Lengths :
          /\ sent' = [sent EXCEPT ![c] = Append(@, n)]
          /\ stream' = [stream EXCEPT ![c] = @ \o Units(c, Len(sent[c]) + 1, n)]
  BY DEF SendLine
<1>2. UNCHANGED <<server, history>> /\ UNCHANGED <<waiting, hungUp, up>>
  BY DEF SendLine
<1>3. n \in Nat /\ sent[c] \in Seq(Lengths) /\ stream[c] \in Seq(Data)
  BY CommAssumption DEF CommAssumption, CommInv, NetworkTypeOK
<1>4. Append(sent[c], n) \in Seq(Lengths) /\ Len(sent[c]) + 1 \in Nat
  BY <1>3, AppendProperties, LenProperties
<1> DEFINE line == Units(c, Len(sent[c]) + 1, n)
<1>5. line \in Seq(Data)
  BY <1>3, <1>4, UnitsAreData
<1> HIDE DEF line
<1>6. stream[c] \o line \in Seq(Data)
  BY <1>3, <1>5, ConcatProperties, Zenon
<1> DEFINE longer == stream[c] \o line
<1>7. stream' = [stream EXCEPT ![c] = longer]
  BY <1>1, Zenon DEF line
<1>8. longer \in Seq(Data)
  BY <1>6, Zenon
<1> HIDE DEF longer
<1>9. stream' \in [Connections -> Seq(Data)]
  BY <1>7, <1>8, Zenon DEF CommInv, NetworkTypeOK
<1>10. sent' \in [Connections -> Seq(Lengths)]
  BY <1>1, <1>4, Zenon DEF CommInv, NetworkTypeOK
<1>11. NetworkTypeOK'
  BY <1>2, <1>9, <1>10, Zenon DEF CommInv, NetworkTypeOK
<1>q. QED
  BY <1>2, <1>11, ServerFrame DEF CommInv

LEMMA OperatorKeeps == ASSUME CommInv, Operator PROVE CommInv'
<1>1. CASE Lower
  <2>1. UNCHANGED <<server, history>> /\ UNCHANGED <<waiting, stream, hungUp, sent>>
        /\ up' = FALSE
    BY <1>1 DEF Lower
  <2>2. NetworkTypeOK'
    BY <2>1, Zenon DEF CommInv, NetworkTypeOK
  <2>q. QED
    BY <2>1, <2>2, ServerFrame DEF CommInv
<1>2. ASSUME NEW c \in Connections, Connect(c) PROVE CommInv'
  <2>1. UNCHANGED <<server, history>> /\ UNCHANGED <<stream, hungUp, up, sent>>
        /\ waiting' = waiting \cup {c}
    BY <1>2 DEF Connect
  <2>2. NetworkTypeOK'
    BY <2>1 DEF CommInv, NetworkTypeOK
  <2>q. QED
    BY <2>1, <2>2, ServerFrame DEF CommInv
<1>3. ASSUME NEW c \in Connections, HangUp(c) PROVE CommInv'
  <2>1. /\ UNCHANGED <<server, history>> /\ UNCHANGED <<waiting, up, sent>>
        /\ hungUp' = hungUp \cup {c}
        /\ stream' = stream \/ stream' = [stream EXCEPT ![c] = <<>>]
    BY <1>3 DEF HangUp
  <2>2. <<>> \in Seq(Data)
    BY EmptySeq
  <2>3. stream' \in [Connections -> Seq(Data)]
    BY <2>1, <2>2, Zenon DEF CommInv, NetworkTypeOK
  <2>4. NetworkTypeOK'
    BY <2>1, <2>3 DEF CommInv, NetworkTypeOK
  <2>q. QED
    BY <2>1, <2>4, ServerFrame DEF CommInv
<1>q. QED
  BY <1>1, <1>2, <1>3, SendKeeps DEF Operator

(***************************************************************************)
(* The thread's steps, by what they change.                                *)
(***************************************************************************)
LEMMA NetworkFrame == CommInv /\ UNCHANGED network => NetworkTypeOK'
BY DEF CommInv, NetworkTypeOK, network

LEMMA BufferFrame == CommInv /\ UNCHANGED buf => BufferOK'
BY DEF CommInv, BufferOK

LEMMA SetupKeeps == ASSUME CommInv, Setup PROVE CommInv'
<1>1. /\ pc = "setup" /\ UNCHANGED <<readable, client, buf, open>>
      /\ UNCHANGED network /\ UNCHANGED <<got, torn, handled, verdict>>
      /\ pc' = "loop" \/ (pc' = "ended" /\ ~listening')
  BY DEF Setup, history
<1>2. ThreadTypeOK'
  <2>1. listening' \in BOOLEAN
    BY Zenon DEF Setup
  <2>q. QED
    BY <1>1, <2>1 DEF CommInv, ThreadTypeOK
<1>3. SocketsOK'
  BY <1>1 DEF CommInv, SocketsOK, Clients
<1>q. QED
  BY <1>1, <1>2, <1>3, NetworkFrame, BufferFrame DEF CommInv

LEMMA MoveKeeps ==
    ASSUME CommInv, Select \/ Interrupted \/ Skip \/ Quiet PROVE CommInv'
<1>1. /\ pc' \in {"accept", "recv", "loop", "status"}
      /\ readable' = readable \/ readable' \subseteq Clients
      /\ UNCHANGED <<client, buf, listening, open, got, torn, handled, verdict>>
      /\ UNCHANGED network
  BY DEF Select, Interrupted, Skip, Quiet, history
<1>2. Clients \subseteq Connections
  BY DEF CommInv, ThreadTypeOK, Clients
<1>3. ThreadTypeOK' /\ SocketsOK'
  BY <1>1, <1>2 DEF CommInv, ThreadTypeOK, SocketsOK, Clients
<1>q. QED
  BY <1>1, <1>3, NetworkFrame, BufferFrame DEF CommInv

LEMMA AcceptKeeps == ASSUME CommInv, Accept PROVE CommInv'
<1>1. /\ pc' = "recv" /\ UNCHANGED <<readable, buf, listening, got, handled, verdict>>
      /\ UNCHANGED <<stream, hungUp, up, sent>>
  BY DEF Accept
<1>2. CASE UNCHANGED <<waiting, client, open, torn>>
  BY <1>1, <1>2, BufferFrame
     DEF CommInv, NetworkTypeOK, ThreadTypeOK, SocketsOK, Clients
<1>3. ASSUME NEW c \in waiting,
             waiting' = waiting \ {c}, client' = c, open' = Close \cup {c},
             torn' = (torn \/ buf # <<>>)
      PROVE  CommInv'
  <2>1. c \in Connections /\ c # NoConnection
    BY <1>3, CommAssumption DEF CommAssumption, CommInv, NetworkTypeOK
  <2>2. torn' \in BOOLEAN
    BY <1>3, Zenon
  <2>3. open' = Clients'
    BY <1>3, <2>1 DEF CommInv, SocketsOK, Close, Clients
  <2>4. NetworkTypeOK' /\ ThreadTypeOK'
    BY <1>1, <1>3, <2>1, <2>2 DEF CommInv, NetworkTypeOK, ThreadTypeOK
  <2>5. SocketsOK'
    BY <1>1, <2>3 DEF SocketsOK
  <2>q. QED
    BY <1>1, <2>4, <2>5, BufferFrame DEF CommInv
<1>q. QED
  BY <1>2, <1>3 DEF Accept

LEMMA DisconnectKeeps == ASSUME CommInv, Disconnect PROVE CommInv'
<1>1. /\ pc' = "status" /\ client' = NoConnection /\ open' = Close
      /\ buf' = <<>> /\ torn' = FALSE
      /\ UNCHANGED <<readable, listening, got, handled, verdict>> /\ UNCHANGED network
  BY DEF Disconnect
<1>2. BufferOK'
  <2>1. <<>> \in Seq(Data) /\ Len(<<>>) = 0 /\ BufSize \in Nat
    BY EmptySeq, CommAssumption DEF CommAssumption
  <2>q. QED
    BY <1>1, <2>1 DEF BufferOK
<1>3. torn' \in BOOLEAN
  BY <1>1, Zenon
<1>4. ThreadTypeOK' /\ SocketsOK'
  BY <1>1, <1>3 DEF CommInv, ThreadTypeOK, SocketsOK, Close, Clients
<1>q. QED
  BY <1>1, <1>2, <1>4, NetworkFrame DEF CommInv

(***************************************************************************)
(* recv appends to what is in the buffer if that still fits, and the       *)
(* buffer is at least as long as a chunk.                                  *)
(***************************************************************************)
LEMMA ReceiveKeeps == ASSUME CommInv, Receive PROVE CommInv'
<1>1. /\ pc' = "parse"
      /\ UNCHANGED <<readable, client, listening, open, waiting, hungUp, up, sent>>
      /\ UNCHANGED <<got, torn, handled, verdict>>
      /\ client \in Connections
  BY DEF Receive, history, CommInv, ThreadTypeOK
<1>2. PICK n \in 1..ChunkSize :
          /\ n <= Len(stream[client])
          /\ stream' = [stream EXCEPT ![client] = SubSeq(@, n + 1, Len(@))]
          /\ buf' = (IF Fits(n) THEN buf ELSE <<>>) \o SubSeq(stream[client], 1, n)
  BY DEF Receive
<1>3. /\ stream[client] \in Seq(Data) /\ Len(stream[client]) \in Nat
      /\ n \in Nat \ {0} /\ n <= ChunkSize /\ ChunkSize \in Nat
      /\ ChunkSize <= BufSize /\ BufSize \in Nat
  BY <1>1, CommAssumption, LenProperties DEF CommAssumption, CommInv, NetworkTypeOK
<1> DEFINE rest == SubSeq(stream[client], n + 1, Len(stream[client]))
           piece == SubSeq(stream[client], 1, n)
           kept == IF Fits(n) THEN buf ELSE <<>>
<1>4. rest \in Seq(Data)
  BY <1>3, PieceOfSeq
<1>5. piece \in Seq(Data) /\ Len(piece) = n
  BY <1>2, <1>3, PieceOfSeq
<1>6. kept \in Seq(Data) /\ Len(kept) + n <= BufSize
  <2>1. <<>> \in Seq(Data) /\ Len(<<>>) = 0
    BY EmptySeq
  <2>2. buf \in Seq(Data)
    BY DEF CommInv, BufferOK
  <2>3. CASE Fits(n)
    <3>1. kept = buf
      BY <2>3, Zenon
    <3>2. Len(buf) + n <= BufSize
      BY <2>3, Zenon DEF Fits
    <3> HIDE DEF kept
    <3>q. QED
      BY <2>2, <3>1, <3>2
  <2>4. CASE ~Fits(n)
    <3>1. kept = <<>>
      BY <2>4, Zenon
    <3> HIDE DEF kept
    <3>2. kept \in Seq(Data) /\ Len(kept) = 0
      BY <2>1, <3>1, Zenon
    <3>q. QED
      BY <1>3, <3>2
  <2>q. QED
    BY <2>3, <2>4
<1>7. stream' = [stream EXCEPT ![client] = rest] /\ buf' = kept \o piece
  BY <1>2, Zenon
<1> HIDE DEF rest, piece, kept
<1>8. BufferOK'
  <2>1. kept \o piece \in Seq(Data) /\ Len(kept \o piece) = Len(kept) + Len(piece)
    BY <1>5, <1>6, ConcatProperties, Zenon
  <2> DEFINE full == kept \o piece
  <2>2. full \in Seq(Data) /\ Len(full) <= BufSize
    <3>1. Len(full) = Len(kept) + Len(piece) /\ full \in Seq(Data)
      BY <2>1, Zenon
    <3> HIDE DEF full
    <3>q. QED
      BY <1>5, <1>6, <3>1
  <2>3. buf' = full
    BY <1>7, Zenon
  <2> HIDE DEF full
  <2>q. QED
    BY <2>2, <2>3 DEF BufferOK
<1>9. stream' \in [Connections -> Seq(Data)]
  BY <1>4, <1>7, Zenon DEF CommInv, NetworkTypeOK
<1>10. NetworkTypeOK'
  BY <1>1, <1>9 DEF CommInv, NetworkTypeOK
<1>11. ThreadTypeOK' /\ SocketsOK'
  BY <1>1 DEF CommInv, ThreadTypeOK, SocketsOK, Clients
<1>q. QED
  BY <1>8, <1>10, <1>11 DEF CommInv

LEMMA ParseKeeps == ASSUME CommInv, Parse PROVE CommInv'
<1>1. /\ pc' \in {"parse", "status"}
      /\ UNCHANGED <<readable, client, listening, open>> /\ UNCHANGED network
  BY DEF Parse
<1>2. SocketsOK'
  BY <1>1 DEF CommInv, SocketsOK, Clients
<1>3. CASE Ends = {} /\ UNCHANGED <<buf, history>>
  <2>1. UNCHANGED <<buf, got, torn, handled, verdict>>
    BY <1>3 DEF history
  <2>2. ThreadTypeOK'
    BY <1>1, <2>1 DEF CommInv, ThreadTypeOK
  <2>q. QED
    BY <1>1, <1>2, <2>1, <2>2, NetworkFrame, BufferFrame DEF CommInv
<1>4. CASE Ends # {} /\ CutLine
  <2>1. /\ got' = [got EXCEPT ![client] = @ + 1] /\ torn' = FALSE
        /\ buf' = SubSeq(buf, FirstEnd + 1, Len(buf))
    BY <1>4, Zenon DEF CutLine
  <2>2. torn' \in BOOLEAN
    BY <2>1, Zenon
  <2>3. got' \in [Connections -> Nat]
    <3>1. got \in [Connections -> Nat]
      BY Zenon DEF CommInv, ThreadTypeOK
    <3>2. ASSUME NEW c \in Connections PROVE got'[c] \in Nat
      <4>1. got'[c] = IF c = client THEN got[c] + 1 ELSE got[c]
        BY <2>1, <3>1
      <4>q. QED
        BY <3>1, <4>1
    <3>3. got' = [c \in Connections |-> got'[c]]
      BY <2>1, <3>1
    <3>q. QED
      BY <3>2, <3>3, Zenon
  <2>4. ThreadTypeOK'
    BY <1>1, <2>2, <2>3 DEF CommInv, ThreadTypeOK
  <2>5. buf \in Seq(Data) /\ Len(buf) \in Nat /\ Len(buf) <= BufSize
        /\ FirstEnd \in 1..Len(buf)
    BY <1>4, FirstEndInBuffer, LenProperties DEF CommInv, BufferOK
  <2> DEFINE rest == SubSeq(buf, FirstEnd + 1, Len(buf))
  <2>6. rest \in Seq(Data)
        /\ Len(rest) = IF FirstEnd + 1 <= Len(buf) THEN Len(buf) - (FirstEnd + 1) + 1 ELSE 0
    BY <2>5, PieceOfSeq
  <2>7. buf' = rest
    BY <2>1, Zenon
  <2> HIDE DEF rest
  <2>8. BufSize \in Nat
    BY CommAssumption DEF CommAssumption
  <2>9. BufferOK'
    BY <2>5, <2>6, <2>7, <2>8 DEF BufferOK
  <2>q. QED
    BY <1>1, <1>2, <2>4, <2>9, NetworkFrame DEF CommInv
<1>q. QED
  BY <1>3, <1>4 DEF Parse

\* A failed send leaves the half line; a killed process leaves nothing.
LEMMA ReportKeeps == ASSUME CommInv, Report PROVE CommInv'
<1>1. /\ UNCHANGED <<readable, buf, got, handled, verdict>> /\ UNCHANGED network
      /\ pc' \in {"loop", "dead"}
  BY DEF Report
<1>2. torn' \in BOOLEAN
  BY Zenon DEF Report, CommInv, ThreadTypeOK
<1>3. CASE pc' = "loop" /\ UNCHANGED <<client, listening, open>>
  BY <1>1, <1>2, <1>3, NetworkFrame, BufferFrame
     DEF CommInv, ThreadTypeOK, SocketsOK, Clients
<1>4. CASE pc' = "loop" /\ client' = NoConnection /\ open' = Close /\ UNCHANGED listening
  BY <1>1, <1>2, <1>4, NetworkFrame, BufferFrame
     DEF CommInv, ThreadTypeOK, SocketsOK, Close, Clients
<1>5. CASE pc' = "dead" /\ client' = NoConnection /\ open' = {} /\ listening' = FALSE
  <2>1. listening' \in BOOLEAN /\ ~listening'
    BY <1>5, Zenon
  <2>2. ThreadTypeOK' /\ SocketsOK'
    BY <1>1, <1>2, <1>5, <2>1 DEF CommInv, ThreadTypeOK, SocketsOK, Clients
  <2>q. QED
    BY <1>1, <2>2, NetworkFrame, BufferFrame DEF CommInv
<1>q. QED
  BY <1>3, <1>4, <1>5, Zenon DEF Report

LEMMA EndingKeeps == ASSUME CommInv, Ending PROVE CommInv'
<1>1. /\ pc' = "ended" /\ client' = NoConnection /\ open' = Close
      /\ UNCHANGED <<readable, buf, got, torn, handled, verdict>> /\ UNCHANGED network
  BY DEF Ending, history
<1>2. listening' \in BOOLEAN /\ ~listening'
  BY Zenon DEF Ending
<1>3. ThreadTypeOK' /\ SocketsOK'
  BY <1>1, <1>2 DEF CommInv, ThreadTypeOK, SocketsOK, Close, Clients
<1>q. QED
  BY <1>1, <1>3, NetworkFrame, BufferFrame DEF CommInv

LEMMA LoopKeeps == ASSUME CommInv, Loop PROVE CommInv'
<1>1. CASE Ending
  BY <1>1, EndingKeeps
<1>2. CASE pc' = "select" /\ UNCHANGED <<readable, client, buf, listening, open, network, history>>
  <2>1. UNCHANGED <<readable, client, buf, listening, open, got, torn, handled, verdict>>
        /\ UNCHANGED network
    BY <1>2 DEF history
  <2>2. ThreadTypeOK' /\ SocketsOK'
    BY <1>2, <2>1 DEF CommInv, ThreadTypeOK, SocketsOK, Clients
  <2>q. QED
    BY <2>1, <2>2, NetworkFrame, BufferFrame DEF CommInv
<1>q. QED
  BY <1>1, <1>2 DEF Loop

LEMMA CommStep == CommInv /\ [CommNext]_commVars => CommInv'
<1> SUFFICES ASSUME CommInv, [CommNext]_commVars PROVE CommInv'
  OBVIOUS
<1>1. CASE UNCHANGED commVars
  <2>1. UNCHANGED <<server, history>> /\ UNCHANGED network
    BY <1>1 DEF commVars
  <2>q. QED
    BY <2>1, ServerFrame, NetworkFrame DEF CommInv
<1>q. QED
  BY <1>1, OperatorKeeps, SetupKeeps, MoveKeeps, AcceptKeeps, DisconnectKeeps,
     ReceiveKeeps, ParseKeeps, ReportKeeps, EndingKeeps, LoopKeeps
     DEF CommNext, Comm, SelectFails

LEMMA CommInvariant == CommSpec => []CommInv
BY CommInitKeeps, CommStep, PTL DEF CommSpec
-----------------------------------------------------------------------------
(***************************************************************************)
(* The receive buffer is never written beyond its end, whatever pieces the *)
(* lines arrive in, and every other variable keeps its type.               *)
(***************************************************************************)
THEOREM CommTypeCorrect == CommSpec => []CommTypeOK
<1>1. CommInv => CommTypeOK
  BY CommInvImplies
<1>q. QED
  BY <1>1, CommInvariant, PTL

(***************************************************************************)
(* At most one client is open at any time, and a thread that has ended, in *)
(* whatever way, leaves no socket behind.                                  *)
(***************************************************************************)
THEOREM NothingLeaks == CommSpec => []NoLeak
<1>1. CommInv => NoLeak
  BY CommInvImplies
<1>q. QED
  BY <1>1, CommInvariant, PTL
-----------------------------------------------------------------------------
\* A unit is one of a line of its connection, as that line was sent.
OfLine(c, lines, u) ==
    /\ u.from = c /\ u.line \in 1..Len(lines)
    /\ u.part \in 1..lines[u.line]
    /\ u.eol <=> u.part = lines[u.line]

Follows(u, v) ==
    IF u.eol THEN v.line = u.line + 1 /\ v.part = 1
             ELSE v.line = u.line /\ v.part = u.part + 1

\* From the unit after the j-th on, w is what is left of the connection's
\* lines after the k-th, up to the last one sent unless the peer hung up.
Rest(c, lines, k, hung, w, j) ==
    /\ \A i \in (j + 1)..Len(w) : OfLine(c, lines, w[i])
    /\ \A i \in (j + 1)..(Len(w) - 1) : Follows(w[i], w[i + 1])
    /\ Len(w) > j => w[j + 1].line = k + 1
    /\ \/ c \in hung
       \/ Len(w) > j /\ w[Len(w)].eol /\ w[Len(w)].line = Len(lines)
       \/ Len(w) = j /\ Len(lines) = k

\* The first b units of w are in the buffer; before the rest there may be the
\* part of a line left by another connection, and the rest may begin in the
\* middle of a line when its beginning was dropped.
Served(c, lines, k, hung, broken, w, b) ==
    \E j \in 0..b :
        /\ Rest(c, lines, k, hung, w, j)
        /\ \A i \in 1..j : ~w[i].eol
        /\ j > 0 => broken
        /\ Len(w) > j /\ w[j + 1].part # 1
               => b > j /\ (broken \/ lines[k + 1] > SafeLength)

\* w2 is w without its first d units.
LacksFirst(w2, w, d) ==
    /\ Len(w) = Len(w2) + d
    /\ \A i \in 1..Len(w2) : w2[i] = w[i + d]

\* The two steps of arithmetic that number the parts of a line.
LEMMA PartsBegin == \A p \in Nat, j \in Int : p = p + ((j + 1) - j - 1)
OBVIOUS

LEMMA PartsAdd == \A p \in Nat, i, j \in Int : (p + (i - j - 1)) + 1 = p + ((i + 1) - j - 1)
OBVIOUS

(***************************************************************************)
(* Up to its end of line, the rest is one line, part by part.              *)
(***************************************************************************)
LEMMA RunOfLine ==
    ASSUME NEW c \in Connections, NEW lines \in Seq(Lengths), NEW k \in Nat,
           NEW hung, NEW w \in Seq(Data), NEW j \in Nat, NEW m \in Nat,
           j < m, m <= Len(w), Rest(c, lines, k, hung, w, j),
           \A i \in (j + 1)..(m - 1) : ~w[i].eol
    PROVE  \A i \in (j + 1)..m :
               w[i].line = k + 1 /\ w[i].part = w[j + 1].part + (i - j - 1)
<1> DEFINE P(i) == w[i].line = k + 1 /\ w[i].part = w[j + 1].part + (i - j - 1)
           T == {i \in (j + 1)..m : ~P(i)}
<1>1. Len(w) \in Nat
  BY LenProperties
<1>2. \A i \in 1..Len(w) : w[i].part \in Nat /\ w[i].line \in Nat
  <2>1. \A i \in 1..Len(w) : w[i] \in Data
    BY ElementOfSeq
  <2>q. QED
    BY <2>1 DEF Data
<1>3. P(j + 1)
  <2>1. j + 1 \in 1..Len(w) /\ Len(w) > j
    BY <1>1
  <2>2. w[j + 1].line = k + 1 /\ w[j + 1].part \in Nat
    BY <1>2, <2>1 DEF Rest
  <2>3. j \in Int
    OBVIOUS
  <2>q. QED
    BY <2>2, <2>3, PartsBegin, Zenon
<1>4. ASSUME NEW i \in (j + 1)..(m - 1), P(i) PROVE P(i + 1)
  <2>1. i \in (j + 1)..(Len(w) - 1) /\ i \in 1..Len(w) /\ j + 1 \in 1..Len(w)
    BY <1>1
  <2>2. Follows(w[i], w[i + 1]) /\ ~w[i].eol
    <3>1. Follows(w[i], w[i + 1])
      BY <2>1, Zenon DEF Rest
    <3>q. QED
      BY <3>1, <1>4
  <2>3. w[i + 1].line = w[i].line /\ w[i + 1].part = w[i].part + 1
    BY <2>2 DEF Follows
  <2>4. w[j + 1].part \in Nat /\ w[i].line = k + 1 /\ w[i].part = w[j + 1].part + (i - j - 1)
    BY <1>2, <1>4, <2>1
  <2>5. i \in Int /\ j \in Int
    BY <1>1, <2>1
  <2>6. w[i + 1].part = w[j + 1].part + ((i + 1) - j - 1)
    BY <2>3, <2>4, <2>5, PartsAdd, Zenon
  <2>q. QED
    BY <2>3, <2>4, <2>6
<1> HIDE DEF P
<1>5. CASE T # {}
  <2>1. T \in SUBSET Nat
    BY <1>1
  <2>2. PICK i \in T : \A n \in T : i <= n
    BY <1>5, <2>1, LeastNatural
  <2>3. i \in (j + 1)..m /\ ~P(i) /\ i # j + 1
    BY <1>3, <2>2
  <2>4. i - 1 \in (j + 1)..(m - 1) /\ (i - 1) + 1 = i
    BY <2>3
  <2>5. P(i - 1)
    <3>1. i - 1 \notin T
      BY <2>2, <2>4
    <3>2. i - 1 \in (j + 1)..m
      BY <2>4
    <3>q. QED
      BY <3>1, <3>2
  <2>q. QED
    BY <1>4, <2>3, <2>4, <2>5
<1>6. CASE T = {}
  BY <1>6 DEF P
<1>q. QED
  BY <1>5, <1>6

(***************************************************************************)
(* What a unit is made of, and what a line's n-th unit is.                 *)
(***************************************************************************)
LEMMA UnitFields ==
    ASSUME NEW u, NEW c, NEW n, NEW i, NEW e \in BOOLEAN,
           u = [from |-> c, line |-> n, part |-> i, eol |-> e]
    PROVE  u.from = c /\ u.line = n /\ u.part = i /\ u.eol = e
<1>1. u.from = c /\ u.line = n /\ u.part = i
  OBVIOUS
<1>2. u.eol = e
  OBVIOUS
<1>q. QED
  BY <1>1, <1>2, Zenon

LEMMA UnitTypes ==
    ASSUME NEW w \in Seq(Data), NEW i \in 1..Len(w)
    PROVE  w[i].part \in Nat /\ w[i].line \in Nat /\ w[i].eol \in BOOLEAN
<1>1. w[i] \in Data
  BY ElementOfSeq
<1>q. QED
  BY <1>1 DEF Data

\* The lengths of lines sent are naturals.
LEMMA LineLengths ==
    ASSUME NEW lines \in Seq(Lengths)
    PROVE  Len(lines) \in Nat /\ \A i \in 1..Len(lines) : lines[i] \in Nat \ {0}
<1>1. \A i \in 1..Len(lines) : lines[i] \in Lengths
  BY ElementOfSeq
<1>q. QED
  BY <1>1, LenProperties, CommAssumption DEF CommAssumption

\* The places of the units that a sent line adds after the N that were there.
LEMMA PlacesAdded ==
    ASSUME NEW N \in Nat, NEW n \in Nat, NEW i \in Nat, i > N, i <= N + n
    PROVE  /\ i - N \in 1..n /\ N + (i - N) = i
           /\ \A d \in 1..n : N + d = i /\ i < N + n
                  => d + 1 \in 1..n /\ d # n /\ N + (d + 1) = i + 1
  OBVIOUS

(***************************************************************************)
(* A line sent, a peer that hangs up, bytes moved into the buffer.         *)
(***************************************************************************)
LEMMA ServedExtends ==
    ASSUME NEW c \in Connections, NEW lines \in Seq(Lengths), NEW k \in Nat,
           NEW broken \in BOOLEAN, NEW w \in Seq(Data), NEW b \in 0..Len(w),
           NEW n \in Lengths, NEW w2 \in Seq(Data), NEW hung,
           c \notin hung, Served(c, lines, k, hung, broken, w, b),
           Len(w2) = Len(w) + n,
           \A i \in 1..Len(w) : w2[i] = w[i],
           \A i \in 1..n : w2[Len(w) + i] = Units(c, Len(lines) + 1, n)[i]
    PROVE  Served(c, Append(lines, n), k, hung, broken, w2, b)
<1> DEFINE more == Append(lines, n)
           N == Len(w)
<1>1. /\ N \in Nat /\ Len(lines) \in Nat /\ n \in Nat \ {0}
      /\ \A i \in 1..Len(lines) : lines[i] \in Nat \ {0}
  BY LenProperties, LineLengths, CommAssumption DEF CommAssumption
<1>2. /\ Len(more) = Len(lines) + 1
      /\ \A i \in 1..Len(lines) : more[i] = lines[i]
      /\ more[Len(lines) + 1] = n
  BY AppendProperties
<1> HIDE DEF more
<1>3. PICK j \in 0..b :
          /\ Rest(c, lines, k, hung, w, j)
          /\ \A i \in 1..j : ~w[i].eol
          /\ j > 0 => broken
          /\ Len(w) > j /\ w[j + 1].part # 1
                 => b > j /\ (broken \/ lines[k + 1] > SafeLength)
  BY DEF Served
<1>4. j \in 0..N /\ b \in Nat
  BY <1>1
<1>5. ASSUME NEW i \in 1..n
      PROVE  /\ w2[N + i].from = c /\ w2[N + i].line = Len(lines) + 1
             /\ w2[N + i].part = i /\ (w2[N + i].eol <=> i = n)
  <2>1. w2[Len(w) + i] = [from |-> c, line |-> Len(lines) + 1, part |-> i, eol |-> i = n]
    BY Zenon DEF Units
  <2>2. w2[N + i] = [from |-> c, line |-> Len(lines) + 1, part |-> i, eol |-> i = n]
    BY <2>1, Zenon
  <2> DEFINE e == (i = n)
             u == w2[N + i]
  <2>3. e \in BOOLEAN
    BY Zenon
  <2>4. u = [from |-> c, line |-> Len(lines) + 1, part |-> i, eol |-> e]
    BY <2>2, Zenon
  <2> HIDE DEF e, u
  <2>5. u.from = c /\ u.line = Len(lines) + 1 /\ u.part = i /\ u.eol = e
    BY <2>3, <2>4, UnitFields, Zenon
  <2>q. QED
    BY <2>5, Zenon DEF e, u
<1>b. /\ \A i \in 1..N : w2[i] = w[i]
      /\ Len(w2) = N + n
      /\ \A i \in (j + 1)..N : OfLine(c, lines, w[i])
      /\ \A i \in (j + 1)..(N - 1) : Follows(w[i], w[i + 1])
      /\ N > j => w[j + 1].line = k + 1 /\ w[N].eol /\ w[N].line = Len(lines)
      /\ N = j => Len(lines) = k
      /\ N > j /\ w[j + 1].part # 1 => b > j /\ (broken \/ lines[k + 1] > SafeLength)
  <2>1. N > j => Len(lines) = Len(lines) /\ N # j
    BY <1>1, <1>4
  <2>2. N = j => ~(N > j)
    BY <1>1, <1>4
  <2>q. QED
    BY <1>3, <2>1, <2>2, Zenon DEF Rest
<1> HIDE DEF N
<1>m. N \in Nat /\ n \in Nat /\ j \in Nat /\ Len(w2) = N + n
  <2>1. Len(w2) = N + n
    BY <1>b, Zenon
  <2>2. N \in Nat /\ n \in Nat /\ j \in Nat
    BY <1>1, <1>4
  <2>q. QED
    BY <2>1, <2>2, Zenon
<1>6. ASSUME NEW i \in (j + 1)..Len(w2) PROVE OfLine(c, more, w2[i])
  <2>1. CASE i <= N
    <3>a. i \in 1..N /\ i \in (j + 1)..N
      BY <1>m, <2>1
    <3>1. w2[i] = w[i] /\ OfLine(c, lines, w[i])
      BY <1>b, <3>a, Zenon
    <3>2. w[i].line \in 1..Len(lines)
      BY <3>1 DEF OfLine
    <3>3. w[i].line \in 1..Len(more) /\ more[w[i].line] = lines[w[i].line]
      BY <1>1, <1>2, <3>2
    <3>q. QED
      BY <3>1, <3>3, Zenon DEF OfLine
  <2>2. CASE i > N
    <3>a. i - N \in 1..n /\ N + (i - N) = i
      BY <1>m, <2>2, PlacesAdded
    <3>1. PICK d \in 1..n : N + d = i
      BY <3>a
    <3>2. /\ w2[i].from = c /\ w2[i].line = Len(lines) + 1
          /\ w2[i].part = d /\ (w2[i].eol <=> d = n)
      BY <1>5, <3>1, Zenon
    <3>3. w2[i].line \in 1..Len(more) /\ more[w2[i].line] = n
      BY <1>1, <1>2, <3>2
    <3>4. w2[i].part \in 1..more[w2[i].line]
      BY <3>1, <3>2, <3>3, Zenon
    <3>q. QED
      BY <3>2, <3>3, <3>4, Zenon DEF OfLine
  <2>q. QED
    BY <1>m, <2>1, <2>2
<1>7. ASSUME NEW i \in (j + 1)..(Len(w2) - 1) PROVE Follows(w2[i], w2[i + 1])
  <2>1. CASE i < N
    <3>1. i \in (j + 1)..(N - 1) /\ i \in 1..N /\ i + 1 \in 1..N
      BY <1>m, <2>1
    <3>2. Follows(w[i], w[i + 1])
      BY <1>b, <3>1, Zenon
    <3>q. QED
      BY <1>b, <3>1, <3>2, Zenon
  <2>2. CASE i = N
    <3>1. N \in 1..N /\ N > j /\ 1 \in 1..n /\ i + 1 = N + 1
      BY <1>1, <1>4, <2>2
    <3>2. w[N].eol /\ w[N].line = Len(lines) /\ w2[N] = w[N]
      BY <1>b, <3>1, Zenon
    <3>3. w2[N + 1].line = Len(lines) + 1 /\ w2[N + 1].part = 1
      BY <1>5, <3>1, Zenon
    <3>q. QED
      BY <2>2, <3>2, <3>3, Zenon DEF Follows
  <2>3. CASE i > N
    <3>a. i \in Nat /\ i > N /\ i <= N + n /\ i < N + n
      BY <1>m, <2>3
    <3>c. i - N \in 1..n /\ N + (i - N) = i
      BY <1>m, <3>a, PlacesAdded
    <3>b. PICK d \in 1..n : N + d = i
      BY <3>c
    <3>1. d + 1 \in 1..n /\ d # n /\ N + d = i /\ N + (d + 1) = i + 1
      BY <1>m, <3>a, <3>b, PlacesAdded
    <3>2. w2[i].line = Len(lines) + 1 /\ w2[i].part = d /\ ~w2[i].eol
      <4>1. /\ w2[N + d].line = Len(lines) + 1 /\ w2[N + d].part = d
            /\ (w2[N + d].eol <=> d = n)
        BY <1>5, Zenon
      <4>q. QED
        BY <3>1, <4>1, Zenon
    <3>3. w2[i + 1].line = Len(lines) + 1 /\ w2[i + 1].part = d + 1
      <4>1. w2[N + (d + 1)].line = Len(lines) + 1 /\ w2[N + (d + 1)].part = d + 1
        BY <1>5, <3>1, Zenon
      <4>q. QED
        BY <3>1, <4>1, Zenon
    <3>q. QED
      BY <3>2, <3>3, Zenon DEF Follows
  <2>q. QED
    BY <1>m, <2>1, <2>2, <2>3
<1>8. ASSUME N > j
      PROVE  /\ w2[j + 1].line = k + 1
             /\ w2[j + 1].part # 1 => b > j /\ (broken \/ more[k + 1] > SafeLength)
  <2>1. j + 1 \in 1..N /\ j + 1 \in (j + 1)..N
    BY <1>m, <1>8
  <2>2. w2[j + 1] = w[j + 1] /\ w[j + 1].line = k + 1 /\ OfLine(c, lines, w[j + 1])
    BY <1>b, <1>8, <2>1, Zenon
  <2>3. k + 1 \in 1..Len(lines) /\ more[k + 1] = lines[k + 1]
    <3>1. k + 1 \in 1..Len(lines)
      BY <2>2, Zenon DEF OfLine
    <3>q. QED
      BY <1>2, <3>1
  <2>4. w2[j + 1].part # 1 => b > j /\ (broken \/ more[k + 1] > SafeLength)
    BY <1>b, <1>8, <2>2, <2>3
  <2>q. QED
    BY <2>2, <2>4, Zenon
<1>9. ASSUME N = j PROVE w2[j + 1].line = k + 1 /\ w2[j + 1].part = 1
  <2>1. 1 \in 1..n /\ Len(lines) = k /\ N + 1 = j + 1
    BY <1>1, <1>4, <1>9, <1>b
  <2>q. QED
    BY <1>5, <1>9, <2>1, Zenon
<1>a. N > j \/ N = j
  BY <1>1, <1>4
<1>10. Len(w2) > j /\ w2[Len(w2)].eol /\ w2[Len(w2)].line = Len(more)
  <2>a. N \in Nat /\ n \in Nat \ {0} /\ j \in Nat /\ j <= N
    BY <1>1, <1>4
  <2>1. n \in 1..n /\ N + n > j
    BY <2>a
  <2>2. Len(w2) = N + n
    BY <1>b
  <2>3. w2[N + n].eol /\ w2[N + n].line = Len(lines) + 1
    BY <1>5, <2>1, Zenon
  <2>q. QED
    BY <1>2, <2>1, <2>2, <2>3, Zenon
<1>11. \A i \in 1..j : ~w2[i].eol
  <2>1. \A i \in 1..j : i \in 1..N
    BY <1>1, <1>4
  <2>q. QED
    BY <1>3, <2>1, Zenon DEF N
<1>12. Rest(c, more, k, hung, w2, j)
  BY <1>a, <1>6, <1>7, <1>8, <1>9, <1>10, Zenon DEF Rest
<1>q. QED
  BY <1>3, <1>a, <1>8, <1>9, <1>11, <1>12, Zenon DEF Served, more

\* The peer hangs up, with or without the loss of what is not received yet.
LEMMA ServedHangsUp ==
    ASSUME NEW c, NEW lines, NEW k, NEW hung, NEW hung2, NEW broken \in BOOLEAN,
           NEW w \in Seq(Data), NEW b \in Nat, NEW w2 \in Seq(Data),
           Served(c, lines, k, hung, broken, w, b),
           c \in hung2, b <= Len(w2), Len(w2) <= Len(w), \A i \in 1..Len(w2) : w2[i] = w[i]
    PROVE  Served(c, lines, k, hung2, broken, w2, b)
<1>1. Len(w) \in Nat /\ Len(w2) \in Nat
  BY LenProperties
<1>2. PICK j \in 0..b :
          /\ Rest(c, lines, k, hung, w, j)
          /\ \A i \in 1..j : ~w[i].eol
          /\ j > 0 => broken
          /\ Len(w) > j /\ w[j + 1].part # 1
                 => b > j /\ (broken \/ lines[k + 1] > SafeLength)
  BY DEF Served
<1>3. /\ \A i \in (j + 1)..Len(w2) : i \in 1..Len(w2) /\ i \in (j + 1)..Len(w)
      /\ \A i \in (j + 1)..(Len(w2) - 1) :
             i \in 1..Len(w2) /\ i + 1 \in 1..Len(w2) /\ i \in (j + 1)..(Len(w) - 1)
      /\ \A i \in 1..j : i \in 1..Len(w2)
      /\ Len(w2) > j => j + 1 \in 1..Len(w2) /\ Len(w) > j
  BY <1>1
<1>4. Rest(c, lines, k, hung2, w2, j)
  <2>1. \A i \in (j + 1)..Len(w2) : OfLine(c, lines, w2[i])
    BY <1>2, <1>3, Zenon DEF Rest
  <2>2. \A i \in (j + 1)..(Len(w2) - 1) : Follows(w2[i], w2[i + 1])
    BY <1>2, <1>3, Zenon DEF Rest
  <2>3. Len(w2) > j => w2[j + 1].line = k + 1
    BY <1>2, <1>3, Zenon DEF Rest
  <2>q. QED
    BY <2>1, <2>2, <2>3, Zenon DEF Rest
<1>5. \A i \in 1..j : ~w2[i].eol
  BY <1>2, <1>3, Zenon
<1>6. Len(w2) > j /\ w2[j + 1].part # 1 => b > j /\ (broken \/ lines[k + 1] > SafeLength)
  BY <1>2, <1>3, Zenon
<1>q. QED
  BY <1>2, <1>4, <1>5, <1>6, Zenon DEF Served

\* More of it is received and kept.
LEMMA ServedReceives ==
    ASSUME NEW c, NEW lines, NEW k, NEW hung, NEW broken \in BOOLEAN,
           NEW w \in Seq(Data), NEW b \in Nat, NEW b2 \in Nat, b <= b2, b2 <= Len(w),
           Served(c, lines, k, hung, broken, w, b)
    PROVE  Served(c, lines, k, hung, broken, w, b2)
<1>2. PICK j \in 0..b :
          /\ Rest(c, lines, k, hung, w, j)
          /\ \A i \in 1..j : ~w[i].eol
          /\ j > 0 => broken
          /\ Len(w) > j /\ w[j + 1].part # 1
                 => b > j /\ (broken \/ lines[k + 1] > SafeLength)
  BY DEF Served
<1>3. j \in 0..b2 /\ (b > j => b2 > j)
  OBVIOUS
<1>q. QED
  BY <1>2, <1>3, Zenon DEF Served

(***************************************************************************)
(* A buffer into which a piece does not fit is dropped, and the line in it *)
(* was then longer than SafeLength.                                        *)
(***************************************************************************)
LEMMA ServedOverflows ==
    ASSUME NEW c \in Connections, NEW lines \in Seq(Lengths), NEW k \in Nat,
           NEW hung, NEW broken \in BOOLEAN, NEW w \in Seq(Data),
           NEW b \in 0..Len(w), NEW w2 \in Seq(Data), NEW n \in 1..ChunkSize,
           Served(c, lines, k, hung, broken, w, b),
           \A i \in 1..b : ~w[i].eol,
           LacksFirst(w2, w, b), n <= Len(w2), b + n > BufSize
    PROVE  Served(c, lines, k, hung, broken, w2, n)
<1> DEFINE N == Len(w2)
<1>1. /\ N \in Nat /\ Len(w) = N + b /\ b \in Nat /\ n \in Nat \ {0} /\ N >= n
      /\ ChunkSize \in Nat /\ BufSize \in Nat
  BY LenProperties, CommAssumption DEF CommAssumption, LacksFirst
<1>2. PICK j \in 0..b :
          /\ Rest(c, lines, k, hung, w, j)
          /\ \A i \in 1..j : ~w[i].eol
          /\ j > 0 => broken
          /\ Len(w) > j /\ w[j + 1].part # 1
                 => b > j /\ (broken \/ lines[k + 1] > SafeLength)
  BY DEF Served
<1>3. \A i \in 1..N : w2[i] = w[i + b]
  BY Zenon DEF LacksFirst
<1>4. /\ \A i \in (j + 1)..(N + b) : OfLine(c, lines, w[i])
      /\ \A i \in (j + 1)..((N + b) - 1) : Follows(w[i], w[i + 1])
      /\ N + b > j => w[j + 1].line = k + 1
      /\ N + b > j /\ w[j + 1].part # 1 => b > j /\ (broken \/ lines[k + 1] > SafeLength)
  BY <1>1, <1>2, Zenon DEF Rest
<1>5. \/ c \in hung
      \/ w[N + b].eol /\ w[N + b].line = Len(lines)
  <2>1. N + b > j /\ N + b # j
    BY <1>1
  <2>q. QED
    BY <1>1, <1>2, <2>1, Zenon DEF Rest
<1> HIDE DEF N
<1>6. \A i \in 1..N : OfLine(c, lines, w2[i])
  <2>1. \A i \in 1..N : i + b \in (j + 1)..(N + b)
    BY <1>1
  <2>q. QED
    BY <1>3, <1>4, <2>1, Zenon
<1>7. \A i \in 1..(N - 1) : Follows(w2[i], w2[i + 1])
  <2>1. \A i \in 1..(N - 1) :
            i + b \in (j + 1)..((N + b) - 1) /\ (i + b) + 1 = (i + 1) + b
            /\ i \in 1..N /\ i + 1 \in 1..N
    BY <1>1
  <2>2. ASSUME NEW i \in 1..(N - 1) PROVE Follows(w2[i], w2[i + 1])
    <3>1. Follows(w[i + b], w[(i + b) + 1])
      BY <1>4, <2>1, Zenon
    <3>2. w2[i] = w[i + b] /\ w2[i + 1] = w[(i + 1) + b] /\ (i + b) + 1 = (i + 1) + b
      BY <1>3, <2>1, Zenon
    <3>q. QED
      BY <3>1, <3>2, Zenon
  <2>q. QED
    BY <2>2, Zenon
<1>8. w2[1] = w[b + 1] /\ 1 + b = b + 1 /\ N > 0
  <2>1. 1 \in 1..N /\ 1 + b = b + 1 /\ N > 0
    BY <1>1
  <2>q. QED
    BY <1>3, <2>1, Zenon
<1>9. w2[N] = w[N + b]
  <2>1. N \in 1..N
    BY <1>1
  <2>q. QED
    BY <1>3, <2>1, Zenon
<1>10. ASSUME b = j PROVE w2[1].line = k + 1 /\ w2[1].part = 1
  <2>1. N + b > j /\ ~(b > j)
    BY <1>1, <1>10
  <2>q. QED
    BY <1>4, <1>8, <1>10, <2>1, Zenon
<1>11. ASSUME b > j
       PROVE  w2[1].line = k + 1 /\ (broken \/ lines[k + 1] > SafeLength)
  <2>1. \A i \in (j + 1)..b : w[i].line = k + 1 /\ w[i].part = w[j + 1].part + (i - j - 1)
    <3>1. /\ j \in Nat /\ j < b /\ b <= Len(w) /\ b \in Nat
          /\ \A i \in (j + 1)..(b - 1) : i \in 1..b
      BY <1>1, <1>11
    <3>2. \A i \in (j + 1)..(b - 1) : ~w[i].eol
      BY <3>1, Zenon
    <3>q. QED
      <4>1. Rest(c, lines, k, hung, w, j)
        BY <1>2, Zenon
      <4>q. QED
        BY <3>1, <3>2, <4>1, RunOfLine
  <2>2. /\ b \in (j + 1)..b /\ b \in 1..b /\ b \in (j + 1)..(N + b)
        /\ b \in (j + 1)..((N + b) - 1) /\ N + b > j /\ b \in 1..Len(w)
        /\ j + 1 \in 1..Len(w)
    BY <1>1, <1>11
  <2>3. /\ w[b].line = k + 1 /\ w[b].part = w[j + 1].part + (b - j - 1)
        /\ ~w[b].eol /\ Follows(w[b], w[b + 1]) /\ OfLine(c, lines, w[b])
    BY <1>4, <2>1, <2>2, Zenon
  <2>4. w2[1].line = k + 1
    BY <1>8, <2>3, Zenon DEF Follows
  <2>5. ASSUME w[j + 1].part = 1, j = 0 PROVE lines[k + 1] > SafeLength
    <3>1. w[b].part = b
      BY <1>1, <2>3, <2>5
    <3>2. k + 1 \in 1..Len(lines) /\ b \in 1..lines[k + 1] /\ b # lines[k + 1]
      BY <2>3, <3>1, Zenon DEF OfLine
    <3>3. lines[k + 1] \in Nat
      BY <3>2, LineLengths
    <3>4. b >= SafeLength
      BY <1>1 DEF SafeLength
    <3>5. SafeLength \in Int
      BY <1>1 DEF SafeLength
    <3>6. b \in Nat /\ b < lines[k + 1]
      BY <1>1, <3>2, <3>3
    <3>q. QED
      BY <3>3, <3>4, <3>5, <3>6, SMTT(30)
  <2>6. j = 0 \/ j > 0
    OBVIOUS
  <2>q. QED
    BY <1>2, <1>4, <2>2, <2>4, <2>5, <2>6, Zenon
<1>12. b = j \/ b > j
  BY <1>1
<1>13. Rest(c, lines, k, hung, w2, 0)
  <2>1. 0 + 1 = 1
    OBVIOUS
  <2>2. w2[1].line = k + 1
    BY <1>10, <1>11, <1>12, Zenon
  <2>q. QED
    BY <1>5, <1>6, <1>7, <1>8, <1>9, <2>1, <2>2, Zenon DEF Rest, N
<1>14. w2[0 + 1].part # 1 => broken \/ lines[k + 1] > SafeLength
  <2>1. 0 + 1 = 1
    OBVIOUS
  <2>q. QED
    BY <1>10, <1>11, <1>12, <2>1, Zenon
<1>15. 0 \in 0..n /\ n > 0 /\ ~(0 > 0) /\ \A i \in 1..0 : FALSE
  BY <1>1
<1>q. QED
  BY <1>13, <1>14, <1>15, Zenon DEF Served

LEMMA UnitIs ==
    ASSUME NEW u \in Data, NEW c, NEW n, NEW i, NEW e \in BOOLEAN,
           u.from = c, u.line = n, u.part = i, u.eol = e
    PROVE  u = [from |-> c, line |-> n, part |-> i, eol |-> e]
<1>1. u = [from |-> u.from, line |-> u.line, part |-> u.part, eol |-> u.eol]
  BY DEF Data
<1>q. QED
  BY <1>1, Zenon

\* The first line's end among the first b units.
EndsFirst(w, b, e) == e \in 1..b /\ w[e].eol /\ \A i \in 1..(e - 1) : ~w[i].eol

\* The e-th unit ends the next line sent, and the units up to it are that line
\* unless a part of it was lost.
NextLine(c, lines, k, broken, w, e) ==
    /\ w[e].from = c /\ w[e].line = k + 1
    /\ \/ broken \/ lines[k + 1] > SafeLength
       \/ lines[k + 1] = e /\ \A i \in 1..e : w[i] = Units(c, k + 1, e)[i]

(***************************************************************************)
(* A line cut out of the buffer is the next one sent; it is that line from *)
(* its beginning unless something was lost or it is too long.              *)
(***************************************************************************)
LEMMA ServedParses ==
    ASSUME NEW c \in Connections, NEW lines \in Seq(Lengths), NEW k \in Nat,
           NEW hung, NEW broken \in BOOLEAN, NEW w \in Seq(Data),
           NEW b \in 0..Len(w), NEW e, NEW w2 \in Seq(Data),
           Served(c, lines, k, hung, broken, w, b),
           EndsFirst(w, b, e), LacksFirst(w2, w, e)
    PROVE  /\ Served(c, lines, k + 1, hung, FALSE, w2, b - e)
           /\ k + 1 \in 1..Len(lines)
           /\ NextLine(c, lines, k, broken, w, e)
<1> DEFINE N == Len(w2)
<1>0. e \in 1..b /\ w[e].eol /\ \A i \in 1..(e - 1) : ~w[i].eol
  BY Zenon DEF EndsFirst
<1>1. /\ N \in Nat /\ Len(w) = N + e /\ b \in Nat /\ b <= N + e
      /\ e \in Nat \ {0} /\ e <= b
  BY <1>0, LenProperties DEF LacksFirst
<1>2. PICK j \in 0..b :
          /\ Rest(c, lines, k, hung, w, j)
          /\ \A i \in 1..j : ~w[i].eol
          /\ j > 0 => broken
          /\ Len(w) > j /\ w[j + 1].part # 1
                 => b > j /\ (broken \/ lines[k + 1] > SafeLength)
  BY DEF Served
<1>3. \A i \in 1..N : w2[i] = w[i + e]
  BY Zenon DEF LacksFirst
<1>4. j \in Nat /\ j < e
  <2>1. ~(e \in 1..j)
    BY <1>0, <1>2, Zenon
  <2>q. QED
    BY <1>1, <2>1
<1>5. /\ \A i \in (j + 1)..(N + e) : OfLine(c, lines, w[i])
      /\ \A i \in (j + 1)..((N + e) - 1) : Follows(w[i], w[i + 1])
      /\ N + e > j /\ w[j + 1].part # 1 => b > j /\ (broken \/ lines[k + 1] > SafeLength)
  BY <1>1, <1>2, Zenon DEF Rest
<1>6. c \in hung \/ (w[N + e].eol /\ w[N + e].line = Len(lines))
  <2>1. N + e > j /\ N + e # j
    BY <1>1, <1>4
  <2>q. QED
    BY <1>1, <1>2, <2>1, Zenon DEF Rest
<1> HIDE DEF N
<1>7. \A i \in (j + 1)..e : w[i].line = k + 1 /\ w[i].part = w[j + 1].part + (i - j - 1)
  <2>1. /\ e \in Nat /\ e <= Len(w)
        /\ \A i \in (j + 1)..(e - 1) : i \in 1..(e - 1)
    BY <1>1, <1>4
  <2>2. \A i \in (j + 1)..(e - 1) : ~w[i].eol
    BY <1>0, <2>1, Zenon
  <2>3. Rest(c, lines, k, hung, w, j)
    BY <1>2, Zenon
  <2>q. QED
    BY <1>4, <2>1, <2>2, <2>3, RunOfLine, SMTT(30)
<1>8. /\ e \in (j + 1)..e /\ e \in (j + 1)..(N + e) /\ e \in 1..Len(w)
      /\ j + 1 \in 1..Len(w) /\ N + e > j
  BY <1>1, <1>4
<1>9. w[e].line = k + 1 /\ OfLine(c, lines, w[e])
  BY <1>5, <1>7, <1>8, Zenon
<1>10. k + 1 \in 1..Len(lines) /\ w[e].part = lines[k + 1] /\ w[e].from = c
  BY <1>0, <1>9, Zenon DEF OfLine
<1>11. \A i \in 1..N : OfLine(c, lines, w2[i])
  <2>1. \A i \in 1..N : i + e \in (j + 1)..(N + e)
    BY <1>1, <1>4
  <2>q. QED
    BY <1>3, <1>5, <2>1, Zenon
<1>12. \A i \in 1..(N - 1) : Follows(w2[i], w2[i + 1])
  <2>1. \A i \in 1..(N - 1) :
            i + e \in (j + 1)..((N + e) - 1) /\ (i + e) + 1 = (i + 1) + e
            /\ i \in 1..N /\ i + 1 \in 1..N
    BY <1>1, <1>4
  <2>2. ASSUME NEW i \in 1..(N - 1) PROVE Follows(w2[i], w2[i + 1])
    <3>1. Follows(w[i + e], w[(i + e) + 1])
      BY <1>5, <2>1, Zenon
    <3>2. w2[i] = w[i + e] /\ w2[i + 1] = w[(i + 1) + e] /\ (i + e) + 1 = (i + 1) + e
      BY <1>3, <2>1, Zenon
    <3>q. QED
      BY <3>1, <3>2, Zenon
  <2>q. QED
    BY <2>2, Zenon
<1>13. ASSUME N > 0 PROVE w2[1].line = (k + 1) + 1 /\ w2[1].part = 1
  <2>1. 1 \in 1..N /\ 1 + e = e + 1 /\ e \in (j + 1)..((N + e) - 1)
    BY <1>1, <1>4, <1>13
  <2>2. Follows(w[e], w[e + 1]) /\ w2[1] = w[e + 1]
    BY <1>3, <1>5, <2>1, Zenon
  <2>q. QED
    BY <1>0, <1>9, <2>2, Zenon DEF Follows
<1>14. \/ c \in hung
       \/ N > 0 /\ w2[N].eol /\ w2[N].line = Len(lines)
       \/ N = 0 /\ Len(lines) = k + 1
  <2>1. CASE N = 0
    <3>1. N + e = e
      BY <1>1, <2>1
    <3>q. QED
      BY <1>0, <1>6, <1>9, <2>1, <3>1, Zenon
  <2>2. CASE N > 0
    <3>1. N \in 1..N
      BY <1>1, <2>2
    <3>2. w2[N] = w[N + e]
      BY <1>3, <3>1, Zenon
    <3>q. QED
      BY <1>6, <2>2, <3>2, Zenon
  <2>q. QED
    BY <1>1, <2>1, <2>2
<1>15. Served(c, lines, k + 1, hung, FALSE, w2, b - e)
  <2>1. 0 + 1 = 1 /\ 0 \in 0..(b - e) /\ ~(0 > 0) /\ \A i \in 1..0 : FALSE
    BY <1>1
  <2>2. Rest(c, lines, k + 1, hung, w2, 0)
    BY <1>11, <1>12, <1>13, <1>14, <2>1, Zenon DEF Rest, N
  <2>q. QED
    BY <1>13, <2>1, <2>2, Zenon DEF Served, N
<1>16. ASSUME ~broken, ~(lines[k + 1] > SafeLength)
       PROVE  /\ lines[k + 1] = e
              /\ \A i \in 1..e : w[i] = Units(c, k + 1, e)[i]
  <2>1. w[j + 1].part = 1
    BY <1>5, <1>8, <1>16, Zenon
  <2>2. j = 0
    BY <1>2, <1>4, <1>16
  <2>3. \A i \in 1..e : i \in (j + 1)..e /\ i \in (j + 1)..(N + e) /\ i \in 1..Len(w)
    BY <1>1, <2>2
  <2>4. ASSUME NEW i \in 1..e PROVE w[i].line = k + 1 /\ w[i].part = i
    <3>1. w[i].line = k + 1 /\ w[i].part = w[j + 1].part + (i - j - 1)
      BY <1>7, <2>3, Zenon
    <3>q. QED
      BY <1>1, <2>1, <2>2, <3>1
  <2>5. lines[k + 1] = e
    <3>1. e \in 1..e
      BY <1>1
    <3>q. QED
      BY <1>10, <2>4, <3>1, Zenon
  <2>6. ASSUME NEW i \in 1..e
        PROVE  w[i] = [from |-> c, line |-> k + 1, part |-> i, eol |-> i = e]
    <3>1. OfLine(c, lines, w[i]) /\ w[i] \in Data
      BY <1>5, <2>3, ElementOfSeq, Zenon
    <3>2. w[i].from = c /\ (w[i].eol <=> i = e)
      BY <2>4, <2>5, <3>1, Zenon DEF OfLine
    <3>3. w[i].eol \in BOOLEAN
      BY <2>3, UnitTypes
    <3> DEFINE u == w[i]
               last == (i = e)
    <3>4. u \in Data /\ u.from = c /\ u.line = k + 1 /\ u.part = i
      BY <2>4, <3>1, <3>2, Zenon
    <3>5. last \in BOOLEAN /\ u.eol = last
      BY <3>2, <3>3, Zenon
    <3> HIDE DEF u, last
    <3>6. u = [from |-> c, line |-> k + 1, part |-> i, eol |-> last]
      BY <3>4, <3>5, UnitIs
    <3>q. QED
      BY <3>6, Zenon DEF u, last
  <2>7. \A i \in 1..e : Units(c, k + 1, e)[i] =
            [from |-> c, line |-> k + 1, part |-> i, eol |-> i = e]
    BY Zenon DEF Units
  <2>8. \A i \in 1..e : w[i] = Units(c, k + 1, e)[i]
    BY <2>6, <2>7
  <2>q. QED
    BY <2>5, <2>8, Zenon
<1>q. QED
  BY <1>9, <1>10, <1>15, <1>16, Zenon DEF NextLine

\* A connection is accepted; what is in the buffer is another's.
LEMMA ServedAccepts ==
    ASSUME NEW c, NEW lines, NEW hung, NEW broken \in BOOLEAN,
           NEW s \in Seq(Data), NEW v \in Seq(Data), NEW w2 \in Seq(Data),
           Served(c, lines, 0, hung, FALSE, s, 0),
           Len(w2) = Len(v) + Len(s),
           \A i \in 1..Len(v) : w2[i] = v[i] /\ ~v[i].eol,
           \A i \in 1..Len(s) : w2[Len(v) + i] = s[i],
           Len(v) > 0 => broken
    PROVE  Served(c, lines, 0, hung, broken, w2, Len(v))
<1> DEFINE N == Len(s)
           b == Len(v)
<1>1. N \in Nat /\ b \in Nat /\ Len(w2) = b + N
  BY LenProperties
<1>2. /\ Rest(c, lines, 0, hung, s, 0)
      /\ ~(Len(s) > 0 /\ s[1].part # 1)
  <2>1. PICK j \in 0..0 :
            /\ Rest(c, lines, 0, hung, s, j)
            /\ Len(s) > j /\ s[j + 1].part # 1 => 0 > j
    BY Zenon DEF Served
  <2>2. j = 0 /\ j + 1 = 1 /\ ~(0 > j)
    OBVIOUS
  <2>q. QED
    BY <2>1, <2>2, Zenon
<1>3. /\ \A i \in 1..N : OfLine(c, lines, s[i])
      /\ \A i \in 1..(N - 1) : Follows(s[i], s[i + 1])
      /\ N > 0 => s[1].line = 0 + 1 /\ s[1].part = 1
      /\ c \in hung \/ (N > 0 /\ s[N].eol /\ s[N].line = Len(lines)) \/ (N = 0 /\ Len(lines) = 0)
  <2>1. 0 + 1 = 1
    OBVIOUS
  <2>q. QED
    BY <1>2, <2>1, Zenon DEF Rest
<1>4. \A i \in 1..N : w2[b + i] = s[i]
  BY Zenon
<1>5. \A i \in 1..b : ~w2[i].eol
  BY Zenon
<1> HIDE DEF N, b
<1>6. \A i \in (b + 1)..(b + N) : OfLine(c, lines, w2[i])
  <2>1. ASSUME NEW i \in (b + 1)..(b + N) PROVE OfLine(c, lines, w2[i])
    <3>1. i - b \in 1..N /\ b + (i - b) = i
      BY <1>1
    <3>q. QED
      BY <1>3, <1>4, <3>1
  <2>q. QED
    BY <2>1, Zenon
<1>7. \A i \in (b + 1)..((b + N) - 1) : Follows(w2[i], w2[i + 1])
  <2>1. ASSUME NEW i \in (b + 1)..((b + N) - 1) PROVE Follows(w2[i], w2[i + 1])
    <3>1. i - b \in 1..(N - 1)
      BY <1>1
    <3>2. PICK d \in 1..(N - 1) : i = b + d
      BY <1>1, <3>1
    <3>3. d \in 1..N /\ d + 1 \in 1..N /\ i + 1 = b + (d + 1)
      BY <1>1, <3>2
    <3>4. w2[b + d] = s[d] /\ w2[b + (d + 1)] = s[d + 1] /\ Follows(s[d], s[d + 1])
      BY <1>3, <1>4, <3>3, Zenon
    <3>q. QED
      BY <3>2, <3>3, <3>4, Zenon
  <2>q. QED
    BY <2>1, Zenon
<1>8. b + N > b => w2[b + 1].line = 0 + 1 /\ w2[b + 1].part = 1
  <2>1. b + N > b => N > 0 /\ 1 \in 1..N
    BY <1>1
  <2>q. QED
    BY <1>3, <1>4, <2>1, Zenon
<1>9. \/ c \in hung
      \/ b + N > b /\ w2[b + N].eol /\ w2[b + N].line = Len(lines)
      \/ b + N = b /\ Len(lines) = 0
  <2>1. (N > 0 => N \in 1..N /\ b + N > b) /\ (N = 0 => b + N = b)
    BY <1>1
  <2>q. QED
    BY <1>3, <1>4, <2>1, Zenon
<1>10. Rest(c, lines, 0, hung, w2, b)
  BY <1>1, <1>6, <1>7, <1>8, <1>9, Zenon DEF Rest
<1>11. b \in 0..b /\ (b > 0 => broken)
  <2>1. b \in 0..b
    BY <1>1
  <2>q. QED
    BY <2>1, Zenon DEF b
<1>q. QED
  BY <1>1, <1>5, <1>8, <1>10, <1>11, Zenon DEF Served, b

(***************************************************************************)
(* The invariant of the refinement: what the client has sent and is not    *)
(* handled yet is in the buffer and on its way, in this order.             *)
(***************************************************************************)
Pending == buf \o stream[client]

NoEndKept == pc # "parse" => \A i \in 1..Len(buf) : ~buf[i].eol

HalfLineKept ==
    /\ client = NoConnection /\ pc \notin {"ended", "dead"} => buf = <<>> \/ torn
    /\ pc = "parse" => client # NoConnection

HistoryOK ==
    \A c \in Connections :
        got[c] <= Len(sent[c]) /\ (sent[c] = <<>> => stream[c] = <<>>)

ServedOK ==
    client # NoConnection =>
        Served(client, sent[client], got[client], hungUp, torn, Pending, Len(buf))

WaitingOK ==
    \A c \in waiting :
        /\ c # client /\ got[c] = 0
        /\ Served(c, sent[c], 0, hungUp, FALSE, stream[c], 0)

LinkInv == NoEndKept /\ HalfLineKept /\ HistoryOK /\ ServedOK /\ WaitingOK

\* What a concatenation consists of, unit by unit.
LEMMA ConcatUnits ==
    ASSUME NEW v \in Seq(Data), NEW s \in Seq(Data)
    PROVE  /\ v \o s \in Seq(Data) /\ Len(v \o s) = Len(v) + Len(s)
           /\ Len(v) \in Nat /\ Len(s) \in Nat
           /\ \A i \in 1..Len(v) : (v \o s)[i] = v[i]
           /\ \A i \in 1..Len(s) : (v \o s)[Len(v) + i] = s[i]
<1> DEFINE w == v \o s
<1>1. Len(v) \in Nat /\ Len(s) \in Nat
  BY LenProperties
<1>2. /\ w \in Seq(Data) /\ Len(w) = Len(v) + Len(s)
      /\ \A i \in 1..(Len(v) + Len(s)) :
             w[i] = IF i <= Len(v) THEN v[i] ELSE s[i - Len(v)]
  BY ConcatProperties
<1> HIDE DEF w
<1>3. ASSUME NEW i \in 1..Len(v) PROVE w[i] = v[i]
  <2>1. i \in 1..(Len(v) + Len(s)) /\ i <= Len(v)
    BY <1>1
  <2>q. QED
    BY <1>2, <2>1
<1>4. ASSUME NEW i \in 1..Len(s) PROVE w[Len(v) + i] = s[i]
  <2>1. /\ Len(v) + i \in 1..(Len(v) + Len(s)) /\ ~(Len(v) + i <= Len(v))
        /\ (Len(v) + i) - Len(v) = i
    BY <1>1
  <2>q. QED
    BY <1>2, <2>1
<1>q. QED
  BY <1>1, <1>2, <1>3, <1>4, Zenon DEF w

\* What is left of a sequence without its first n units.
LEMMA TailUnits ==
    ASSUME NEW s \in Seq(Data), NEW n \in 0..Len(s)
    PROVE  /\ SubSeq(s, n + 1, Len(s)) \in Seq(Data)
           /\ LacksFirst(SubSeq(s, n + 1, Len(s)), s, n)
<1> DEFINE t == SubSeq(s, n + 1, Len(s))
           N == Len(s)
<1>1. N \in Nat /\ n \in Nat
  BY LenProperties
<1>2. \A i \in (n + 1)..N : s[i] \in Data
  <2>1. \A i \in (n + 1)..N : i \in 1..N
    BY <1>1
  <2>q. QED
    BY <2>1, ElementOfSeq, Zenon
<1>3. /\ t \in Seq(Data) /\ Len(t) = (IF n + 1 <= N THEN N - (n + 1) + 1 ELSE 0)
      /\ \A i \in 1..(N - (n + 1) + 1) : t[i] = s[(n + 1) + i - 1]
  BY <1>1, <1>2, SubSeqProperties
<1> HIDE DEF t, N
<1>4. N = Len(t) + n
  BY <1>1, <1>3 DEF N
<1>5. \A i \in 1..Len(t) : t[i] = s[i + n]
  <2>1. ASSUME NEW i \in 1..Len(t) PROVE t[i] = s[i + n]
    <3>1. i \in 1..(N - (n + 1) + 1) /\ (n + 1) + i - 1 = i + n
      BY <1>1, <1>3, <1>4
    <3>q. QED
      BY <1>3, <3>1
  <2>q. QED
    BY <2>1, Zenon
<1>q. QED
  BY <1>3, <1>4, <1>5, Zenon DEF t, N, LacksFirst

\* The first n units.
LEMMA HeadUnits ==
    ASSUME NEW s \in Seq(Data), NEW n \in 0..Len(s)
    PROVE  /\ SubSeq(s, 1, n) \in Seq(Data) /\ Len(SubSeq(s, 1, n)) = n
           /\ \A i \in 1..n : SubSeq(s, 1, n)[i] = s[i]
<1> DEFINE t == SubSeq(s, 1, n)
<1>1. Len(s) \in Nat /\ n \in Nat /\ 1 \in Int
  BY LenProperties
<1>2. \A i \in 1..n : s[i] \in Data
  <2>1. \A i \in 1..n : i \in 1..Len(s)
    BY <1>1
  <2>q. QED
    BY <2>1, ElementOfSeq, Zenon
<1>3. /\ t \in Seq(Data) /\ Len(t) = (IF 1 <= n THEN n - 1 + 1 ELSE 0)
      /\ \A i \in 1..(n - 1 + 1) : t[i] = s[1 + i - 1]
  BY <1>1, <1>2, SubSeqProperties
<1> HIDE DEF t
<1>4. Len(t) = n
  BY <1>1, <1>3
<1>5. ASSUME NEW i \in 1..n PROVE t[i] = s[i]
  <2>1. i \in 1..(n - 1 + 1) /\ 1 + i - 1 = i
    BY <1>1
  <2>q. QED
    BY <1>3, <2>1
<1>q. QED
  BY <1>3, <1>4, <1>5, Zenon DEF t

\* Moving the first units of s to the end of v changes nothing in all.
LEMMA MoveUnits ==
    ASSUME NEW v \in Seq(Data), NEW s \in Seq(Data), NEW n \in 0..Len(s)
    PROVE  (v \o SubSeq(s, 1, n)) \o SubSeq(s, n + 1, Len(s)) = v \o s
<1> DEFINE h == SubSeq(s, 1, n)
           t == SubSeq(s, n + 1, Len(s))
<1>1. h \in Seq(Data) /\ t \in Seq(Data)
  BY HeadUnits, TailUnits
<1>2. h \o t = s
  <2>1. Len(s) \in Nat /\ n \in Nat
    BY LenProperties
  <2>2. /\ Len(h) = n /\ \A i \in 1..n : h[i] = s[i]
        /\ Len(s) = Len(t) + n /\ \A i \in 1..Len(t) : t[i] = s[i + n]
    BY HeadUnits, TailUnits, Zenon DEF LacksFirst
  <2> HIDE DEF h, t
  <2>3. /\ h \o t \in Seq(Data) /\ Len(h \o t) = n + Len(t) /\ Len(t) \in Nat
        /\ \A i \in 1..n : (h \o t)[i] = h[i]
        /\ \A i \in 1..Len(t) : (h \o t)[n + i] = t[i]
    BY <1>1, <2>2, ConcatUnits, Zenon
  <2>4. ASSUME NEW i \in 1..Len(s) PROVE (h \o t)[i] = s[i]
    <3>1. CASE i <= n
      <4>1. i \in 1..n
        BY <2>1, <3>1
      <4>q. QED
        BY <2>2, <2>3, <4>1, Zenon
    <3>2. CASE i > n
      <4>1. i - n \in 1..Len(t) /\ n + (i - n) = i /\ (i - n) + n = i
        BY <2>1, <2>2, <2>3, <3>2
      <4>q. QED
        BY <2>2, <2>3, <4>1
    <3>3. i <= n \/ i > n
      BY <2>1
    <3>q. QED
      BY <3>1, <3>2, <3>3, Zenon
  <2>5. Len(h \o t) = Len(s)
    BY <2>1, <2>2, <2>3
  <2> DEFINE w == h \o t
  <2>6. w \in Seq(Data) /\ Len(w) = Len(s) /\ \A i \in 1..Len(w) : w[i] = s[i]
    BY <2>3, <2>4, <2>5, Zenon
  <2> HIDE DEF w
  <2>7. w = s
    BY <2>6, SeqEqual
  <2>q. QED
    BY <2>7, Zenon DEF w
<1> HIDE DEF h, t
<1>3. (v \o h) \o t = v \o (h \o t)
  BY <1>1, ConcatAssociative
<1>q. QED
  BY <1>2, <1>3, Zenon DEF h, t
-----------------------------------------------------------------------------
\* A peer hung up is all that Served says of hungUp.
LEMMA ServedSame ==
    ASSUME NEW c, NEW lines, NEW k, NEW hung, NEW hung2, NEW broken, NEW w, NEW b,
           c \in hung => c \in hung2, Served(c, lines, k, hung, broken, w, b)
    PROVE  Served(c, lines, k, hung2, broken, w, b)
BY Zenon DEF Served, Rest

LEMMA NothingSent ==
    ASSUME NEW c, NEW hung
    PROVE  Served(c, <<>>, 0, hung, FALSE, <<>>, 0)
<1>1. /\ Len(<<>>) = 0 /\ 0 \in 0..0 /\ ~(0 > 0)
      /\ \A i \in 1..0 : FALSE
      /\ \A i \in (0 + 1)..0 : FALSE
      /\ \A i \in (0 + 1)..(0 - 1) : FALSE
  <2>1. Len(<<>>) = 0
    BY EmptySeq
  <2>q. QED
    BY <2>1
<1>2. Rest(c, <<>>, 0, hung, <<>>, 0)
  BY <1>1, Zenon DEF Rest
<1>q. QED
  BY <1>1, <1>2, Zenon DEF Served

(***************************************************************************)
(* A line is sent on a connection, or its peer hangs up.                   *)
(***************************************************************************)
LEMMA SendServes ==
    ASSUME NEW c \in Connections, NEW lines \in Seq(Lengths), NEW k \in Nat,
           NEW hung, c \notin hung, NEW broken \in BOOLEAN, NEW w \in Seq(Data),
           NEW b \in 0..Len(w), NEW n \in Lengths,
           Served(c, lines, k, hung, broken, w, b)
    PROVE  Served(c, Append(lines, n), k, hung, broken,
                  w \o Units(c, Len(lines) + 1, n), b)
<1> DEFINE line == Units(c, Len(lines) + 1, n)
           w2 == w \o line
<1>1. n \in Nat /\ Len(lines) + 1 \in Nat
  BY CommAssumption, LenProperties DEF CommAssumption
<1>2. line \in Seq(Data)
  BY <1>1, UnitsAreData
<1>3. Len(line) = n
  BY <1>1, <1>2, LenProperties DEF Units
<1> HIDE DEF line
<1>5. /\ w2 \in Seq(Data) /\ Len(w2) = Len(w) + n
      /\ \A i \in 1..Len(w) : w2[i] = w[i]
      /\ \A i \in 1..n : w2[Len(w) + i] = line[i]
  BY <1>2, <1>3, ConcatUnits, Zenon
<1>6. \A i \in 1..n : w2[Len(w) + i] = Units(c, Len(lines) + 1, n)[i]
  BY <1>5, Zenon DEF line
<1> HIDE DEF w2
<1>7. Served(c, Append(lines, n), k, hung, broken, w2, b)
  BY <1>5, <1>6, ServedExtends, Zenon
<1>q. QED
  BY <1>7, Zenon DEF w2, line

LEMMA HangUpServes ==
    ASSUME NEW c, NEW lines, NEW k, NEW hung, NEW hung2, NEW broken \in BOOLEAN,
           NEW v \in Seq(Data), NEW s \in Seq(Data),
           c \in hung2, Served(c, lines, k, hung, broken, v \o s, Len(v))
    PROVE  Served(c, lines, k, hung2, broken, v \o <<>>, Len(v))
<1>1. <<>> \in Seq(Data) /\ Len(<<>>) = 0
  BY EmptySeq
<1> DEFINE w == v \o s
           w2 == v \o <<>>
<1>2. w \in Seq(Data) /\ Len(w) = Len(v) + Len(s) /\ Len(s) \in Nat /\ Len(v) \in Nat
      /\ \A i \in 1..Len(v) : w[i] = v[i]
  BY ConcatUnits, Zenon
<1>3. w2 = v
  BY ConcatEmptySeq
<1> HIDE DEF w, w2
<1>4. w2 \in Seq(Data) /\ Len(w2) = Len(v) /\ \A i \in 1..Len(w2) : w2[i] = w[i]
  BY <1>2, <1>3, Zenon
<1>5. Len(v) <= Len(w2) /\ Len(w2) <= Len(w)
  BY <1>2, <1>4
<1>6. Served(c, lines, k, hung, broken, w, Len(v))
  BY Zenon DEF w
<1>7. Served(c, lines, k, hung2, broken, w2, Len(v))
  BY <1>2, <1>4, <1>5, <1>6, ServedHangsUp, Zenon
<1>q. QED
  BY <1>7, Zenon DEF w2

(***************************************************************************)
(* What a step leaves of the invariant when it touches neither the buffer  *)
(* nor the connections.                                                    *)
(***************************************************************************)
LEMMA LinkFrame ==
    ASSUME LinkInv, UNCHANGED <<client, buf, waiting, stream, hungUp, sent, got, torn>>,
           pc' # "parse" => \A i \in 1..Len(buf) : ~buf[i].eol,
           pc \in {"ended", "dead"} => pc' \in {"ended", "dead"},
           pc' = "parse" => pc = "parse"
    PROVE  LinkInv'
<1>0. NoEndKept /\ HalfLineKept /\ HistoryOK /\ ServedOK /\ WaitingOK
  BY Zenon DEF LinkInv
<1>1. NoEndKept'
  BY DEF NoEndKept
<1>2. HalfLineKept'
  BY <1>0 DEF HalfLineKept
<1>3. HistoryOK'
  BY <1>0 DEF HistoryOK
<1>4. ServedOK'
  BY <1>0 DEF ServedOK, Pending
<1>5. WaitingOK'
  BY <1>0 DEF WaitingOK
<1>q. QED
  BY <1>1, <1>2, <1>3, <1>4, <1>5, Zenon DEF LinkInv

\* The connections in the backlog that a step leaves alone.
LEMMA WaitingKept ==
    ASSUME WaitingOK, waiting' \subseteq waiting, UNCHANGED <<hungUp, sent>>,
           \A c \in waiting' : c # client' /\ got'[c] = got[c] /\ stream'[c] = stream[c]
    PROVE  WaitingOK'
<1>1. ASSUME NEW c \in waiting'
      PROVE  /\ c # client' /\ got'[c] = 0
             /\ Served(c, sent'[c], 0, hungUp', FALSE, stream'[c], 0)
  <2>1. c \in waiting
    OBVIOUS
  <2>2. got[c] = 0 /\ Served(c, sent[c], 0, hungUp, FALSE, stream[c], 0)
    BY <2>1, Zenon DEF WaitingOK
  <2>3. hungUp' = hungUp /\ sent' = sent
    OBVIOUS
  <2>q. QED
    BY <1>1, <2>2, <2>3, Zenon
<1>q. QED
  BY <1>1, Zenon DEF WaitingOK

LEMMA LinkInvParts ==
    LinkInv => NoEndKept /\ HalfLineKept /\ HistoryOK /\ ServedOK /\ WaitingOK
BY Zenon DEF LinkInv

\* The types of what the client has sent and has not received yet.
LEMMA LinkTypes ==
    ASSUME CommInv
    PROVE  /\ buf \in Seq(Data) /\ Len(buf) \in Nat /\ torn \in BOOLEAN
           /\ \A c \in Connections :
                  /\ sent[c] \in Seq(Lengths) /\ stream[c] \in Seq(Data)
                  /\ got[c] \in Nat /\ c # NoConnection
           /\ client \in Connections \cup {NoConnection}
           /\ waiting \subseteq Connections /\ open = Clients
<1>1. buf \in Seq(Data) /\ Len(buf) \in Nat
  BY LenProperties DEF CommInv, BufferOK
<1>2. \A c \in Connections :
          sent[c] \in Seq(Lengths) /\ stream[c] \in Seq(Data) /\ got[c] \in Nat
  BY DEF CommInv, NetworkTypeOK, ThreadTypeOK
<1>3. \A c \in Connections : c # NoConnection
  BY CommAssumption DEF CommAssumption
<1>4. torn \in BOOLEAN /\ client \in Connections \cup {NoConnection}
      /\ waiting \subseteq Connections /\ open = Clients
  BY Zenon DEF CommInv, NetworkTypeOK, ThreadTypeOK, SocketsOK
<1>q. QED
  BY <1>1, <1>2, <1>3, <1>4, Zenon

LEMMA JoinUnits ==
    ASSUME NEW v \in Seq(Data), NEW s \in Seq(Data), NEW t \in Seq(Data)
    PROVE  (v \o s) \o t = v \o (s \o t)
BY ConcatAssociative

LEMMA LinkInvInit == CommInit => LinkInv
<1> SUFFICES ASSUME CommInit PROVE LinkInv
  OBVIOUS
<1>1. Len(<<>>) = 0
  BY EmptySeq
<1>2. NoEndKept
  BY <1>1 DEF CommInit, NoEndKept
<1>3. HalfLineKept
  BY DEF CommInit, HalfLineKept
<1>4. HistoryOK
  BY <1>1 DEF CommInit, HistoryOK
<1>5. ServedOK /\ WaitingOK
  BY Zenon DEF CommInit, ServedOK, WaitingOK
<1>q. QED
  BY <1>2, <1>3, <1>4, <1>5, Zenon DEF LinkInv

(***************************************************************************)
(* The operator's side.                                                    *)
(***************************************************************************)
LEMMA LinkSend ==
    ASSUME CommInv, LinkInv, NEW c \in Connections, SendLine(c)
    PROVE  LinkInv'
<1>1. PICK n \in Lengths :
          /\ sent' = [sent EXCEPT ![c] = Append(@, n)]
          /\ stream' = [stream EXCEPT ![c] = @ \o Units(c, Len(sent[c]) + 1, n)]
  BY DEF SendLine
<1>2. /\ UNCHANGED <<pc, client, buf, waiting, hungUp, got, torn>>
      /\ c \in waiting \/ c \in open
      /\ c \notin hungUp
  BY DEF SendLine, Talking, server, history
<1>3. /\ sent' [c] = Append(sent[c], n)
      /\ stream'[c] = stream[c] \o Units(c, Len(sent[c]) + 1, n)
      /\ \A d \in Connections : d # c => sent'[d] = sent[d] /\ stream'[d] = stream[d]
  BY <1>1 DEF CommInv, NetworkTypeOK
<1>4. sent[c] \in Seq(Lengths) /\ stream[c] \in Seq(Data) /\ buf \in Seq(Data)
      /\ Len(buf) \in Nat
  BY LinkTypes
<1>5. Len(sent'[c]) = Len(sent[c]) + 1 /\ Len(sent[c]) \in Nat
      /\ sent'[c] # <<>>
  <2>1. Len(sent'[c]) = Len(sent[c]) + 1 /\ Len(sent[c]) \in Nat
    BY <1>3, <1>4, AppendProperties, LenProperties
  <2>2. Len(<<>>) = 0
    BY EmptySeq
  <2>q. QED
    BY <2>1, <2>2
<1>6. NoEndKept' /\ HalfLineKept'
  BY <1>2, LinkInvParts DEF NoEndKept, HalfLineKept
<1>7. HistoryOK'
  <2>1. ASSUME NEW d \in Connections
        PROVE  got'[d] <= Len(sent'[d]) /\ (sent'[d] = <<>> => stream'[d] = <<>>)
    <3>1. got'[d] = got[d] /\ got[d] <= Len(sent[d]) /\ (sent[d] = <<>> => stream[d] = <<>>)
          /\ got[d] \in Nat
      BY <1>2, LinkInvParts, LinkTypes DEF HistoryOK
    <3>q. QED
      BY <1>3, <1>5, <3>1
  <2>q. QED
    BY <2>1, Zenon DEF HistoryOK
<1>8. ServedOK'
  <2>1. CASE client = c
    <3> DEFINE line == Units(c, Len(sent[c]) + 1, n)
    <3>1. line \in Seq(Data)
      <4>1. n \in Nat /\ Len(sent[c]) + 1 \in Nat
        BY <1>5, CommAssumption DEF CommAssumption
      <4>q. QED
        BY <4>1, UnitsAreData, Zenon
    <3>2. Pending' = Pending \o line
      <4>1. Pending' = buf \o (stream[c] \o line)
        BY <1>2, <1>3, <2>1, Zenon DEF Pending
      <4> HIDE DEF line
      <4>2. (buf \o stream[c]) \o line = buf \o (stream[c] \o line)
        BY <1>4, <3>1, JoinUnits, Zenon
      <4>q. QED
        BY <2>1, <4>1, <4>2, Zenon DEF Pending
    <3>3. Served(c, sent[c], got[c], hungUp, torn, Pending, Len(buf))
      BY <2>1, LinkInvParts, LinkTypes, Zenon DEF ServedOK
    <3>4. Pending \in Seq(Data) /\ Len(buf) \in 0..Len(Pending)
      <4>1. Pending \in Seq(Data) /\ Len(Pending) = Len(buf) + Len(stream[c])
            /\ Len(stream[c]) \in Nat
        BY <1>4, <2>1, ConcatUnits, Zenon DEF Pending
      <4>q. QED
        BY <1>4, <4>1
    <3>5. got[c] \in Nat /\ torn \in BOOLEAN
      BY LinkTypes, Zenon
    <3> HIDE DEF line
    <3>6. Served(c, Append(sent[c], n), got[c], hungUp, torn, Pending \o line, Len(buf))
      BY <1>2, <1>4, <3>3, <3>4, <3>5, SendServes, Zenon DEF line
    <3>q. QED
      BY <1>2, <1>3, <2>1, <3>2, <3>6, Zenon DEF ServedOK
  <2>2. CASE client # c /\ client # NoConnection
    <3>1. client \in Connections
      BY <2>2, LinkTypes
    <3>2. sent'[client] = sent[client] /\ stream'[client] = stream[client]
      BY <1>3, <2>2, <3>1, Zenon
    <3>3. Served(client, sent[client], got[client], hungUp, torn, Pending, Len(buf))
      BY <2>2, LinkInvParts, Zenon DEF ServedOK
    <3>4. Pending' = Pending
      BY <1>2, <3>2, Zenon DEF Pending
    <3>q. QED
      BY <1>2, <3>2, <3>3, <3>4, Zenon DEF ServedOK
  <2>3. CASE client = NoConnection
    BY <1>2, <2>3, Zenon DEF ServedOK
  <2>q. QED
    BY <2>1, <2>2, <2>3
<1>9. WaitingOK'
  <2>1. ASSUME NEW d \in waiting
        PROVE  /\ d # client /\ got[d] = 0
               /\ Served(d, sent'[d], 0, hungUp, FALSE, stream'[d], 0)
    <3>1. d # client /\ got[d] = 0 /\ Served(d, sent[d], 0, hungUp, FALSE, stream[d], 0)
      BY LinkInvParts, Zenon DEF WaitingOK
    <3>2. CASE d = c
      <4>1. 0 \in Nat /\ 0 \in 0..Len(stream[c]) /\ FALSE \in BOOLEAN
        BY <1>4, LenProperties
      <4>2. Served(c, sent[c], 0, hungUp, FALSE, stream[c], 0)
        BY <3>1, <3>2, Zenon
      <4>3. Served(c, Append(sent[c], n), 0, hungUp, FALSE,
                   stream[c] \o Units(c, Len(sent[c]) + 1, n), 0)
        BY <1>2, <1>4, <4>1, <4>2, SendServes, Zenon
      <4>q. QED
        BY <1>3, <3>1, <3>2, <4>3, Zenon
    <3>3. CASE d # c
      <4>1. d \in Connections
        BY LinkTypes
      <4>q. QED
        BY <1>3, <3>1, <3>3, <4>1, Zenon
    <3>q. QED
      BY <3>2, <3>3
  <2>q. QED
    BY <1>2, <2>1, Zenon DEF WaitingOK
<1>q. QED
  BY <1>6, <1>7, <1>8, <1>9, Zenon DEF LinkInv

LEMMA LinkHangUp ==
    ASSUME CommInv, LinkInv, NEW c \in Connections, HangUp(c)
    PROVE  LinkInv'
<1>1. /\ UNCHANGED <<pc, client, buf, waiting, sent, got, torn>>
      /\ hungUp' = hungUp \cup {c}
      /\ stream' \in {stream, [stream EXCEPT ![c] = <<>>]}
  BY DEF HangUp, server, history
<1>2. /\ stream'[c] \in {stream[c], <<>>}
      /\ \A d \in Connections : d # c => stream'[d] = stream[d]
  BY <1>1 DEF CommInv, NetworkTypeOK
<1>3. /\ c \in hungUp' /\ \A d : d \in hungUp => d \in hungUp'
  BY <1>1
<1>4. NoEndKept' /\ HalfLineKept'
  BY <1>1, LinkInvParts DEF NoEndKept, HalfLineKept
<1>5. HistoryOK'
  <2>1. ASSUME NEW d \in Connections
        PROVE  got'[d] <= Len(sent'[d]) /\ (sent'[d] = <<>> => stream'[d] = <<>>)
    <3>1. got'[d] = got[d] /\ sent'[d] = sent[d] /\ got[d] <= Len(sent[d])
          /\ (sent[d] = <<>> => stream[d] = <<>>)
      BY <1>1, LinkInvParts, Zenon DEF HistoryOK
    <3>q. QED
      BY <1>2, <3>1
  <2>q. QED
    BY <2>1, Zenon DEF HistoryOK
<1>6. ServedOK'
  <2>1. CASE client = c
    <3>1. Served(c, sent[c], got[c], hungUp, torn, buf \o stream[c], Len(buf))
      BY <2>1, LinkInvParts, LinkTypes, Zenon DEF ServedOK, Pending
    <3>2. buf \in Seq(Data) /\ stream[c] \in Seq(Data) /\ torn \in BOOLEAN
      BY LinkTypes, Zenon
    <3>3. Served(c, sent[c], got[c], hungUp', torn, buf \o stream'[c], Len(buf))
      <4>1. CASE stream'[c] = stream[c]
        BY <1>3, <3>1, <4>1, ServedSame, Zenon
      <4>2. CASE stream'[c] = <<>>
        <5>1. Served(c, sent[c], got[c], hungUp', torn, buf \o <<>>, Len(buf))
          BY <1>3, <3>1, <3>2, HangUpServes
        <5>q. QED
          BY <4>2, <5>1, Zenon
      <4>q. QED
        BY <1>2, <4>1, <4>2
    <3>q. QED
      BY <1>1, <2>1, <3>3, Zenon DEF ServedOK, Pending
  <2>2. CASE client # c /\ client # NoConnection
    <3>1. client \in Connections
      BY <2>2, LinkTypes
    <3>2. stream'[client] = stream[client]
      BY <1>2, <2>2, <3>1, Zenon
    <3>3. Served(client, sent[client], got[client], hungUp, torn, Pending, Len(buf))
      BY <2>2, LinkInvParts, Zenon DEF ServedOK
    <3>4. Served(client, sent[client], got[client], hungUp', torn, Pending, Len(buf))
      BY <1>3, <3>3, ServedSame, Zenon
    <3>5. Pending' = Pending
      BY <1>1, <3>2, Zenon DEF Pending
    <3>q. QED
      BY <1>1, <3>4, <3>5, Zenon DEF ServedOK
  <2>3. CASE client = NoConnection
    BY <1>1, <2>3, Zenon DEF ServedOK
  <2>q. QED
    BY <2>1, <2>2, <2>3
<1>7. WaitingOK'
  <2>1. ASSUME NEW d \in waiting
        PROVE  /\ d # client /\ got[d] = 0
               /\ Served(d, sent[d], 0, hungUp', FALSE, stream'[d], 0)
    <3>1. d # client /\ got[d] = 0 /\ Served(d, sent[d], 0, hungUp, FALSE, stream[d], 0)
      BY LinkInvParts, Zenon DEF WaitingOK
    <3>2. Served(d, sent[d], 0, hungUp', FALSE, stream[d], 0)
      BY <1>3, <3>1, ServedSame, Zenon
    <3>3. CASE stream'[d] = stream[d]
      BY <3>1, <3>2, <3>3, Zenon
    <3>4. CASE d = c /\ stream'[d] = <<>>
      <4>1. <<>> \in Seq(Data) /\ Len(<<>>) = 0 /\ stream[c] \in Seq(Data)
            /\ Len(stream[c]) \in Nat
        BY LinkTypes, EmptySeq, LenProperties
      <4>2. 0 \in Nat /\ 0 <= Len(<<>>) /\ Len(<<>>) <= Len(stream[c])
            /\ \A i \in 1..Len(<<>>) : FALSE
        BY <4>1
      <4>3. Served(d, sent[d], 0, hungUp', FALSE, <<>>, 0)
        BY <1>3, <3>1, <3>4, <4>1, <4>2, ServedHangsUp
      <4>q. QED
        BY <3>1, <3>4, <4>3, Zenon
    <3>q. QED
      BY <1>2, <3>3, <3>4, LinkTypes
  <2>q. QED
    BY <1>1, <2>1, Zenon DEF WaitingOK
<1>q. QED
  BY <1>4, <1>5, <1>6, <1>7, Zenon DEF LinkInv

LEMMA LinkConnect ==
    ASSUME CommInv, LinkInv, NEW c \in Connections, Connect(c)
    PROVE  LinkInv'
<1>1. /\ UNCHANGED <<pc, client, buf, stream, hungUp, sent, got, torn>>
      /\ waiting' = waiting \cup {c}
      /\ sent[c] = <<>> /\ c \notin open
  BY DEF Connect, Untouched, server, history
<1>2. NoEndKept' /\ HalfLineKept' /\ HistoryOK' /\ ServedOK'
  BY <1>1, LinkInvParts DEF NoEndKept, HalfLineKept, HistoryOK, ServedOK, Pending
<1>3. c # client
  BY <1>1, LinkTypes DEF Clients
<1>4. stream[c] = <<>> /\ got[c] = 0
  <2>1. stream[c] = <<>> /\ got[c] <= Len(sent[c]) /\ Len(<<>>) = 0 /\ got[c] \in Nat
    BY <1>1, LinkInvParts, LinkTypes, EmptySeq DEF HistoryOK
  <2>q. QED
    BY <1>1, <2>1
<1>5. WaitingOK'
  <2>1. Served(c, sent[c], 0, hungUp, FALSE, stream[c], 0)
    BY <1>1, <1>4, NothingSent, Zenon
  <2>2. ASSUME NEW d \in waiting'
        PROVE  /\ d # client /\ got[d] = 0
               /\ Served(d, sent[d], 0, hungUp, FALSE, stream[d], 0)
    <3>1. d \in waiting \/ d = c
      BY <1>1
    <3>q. QED
      BY <1>3, <1>4, <2>1, <3>1, LinkInvParts, Zenon DEF WaitingOK
  <2>q. QED
    BY <1>1, <2>2, Zenon DEF WaitingOK
<1>q. QED
  BY <1>2, <1>5, Zenon DEF LinkInv

LEMMA LinkOperator == ASSUME CommInv, LinkInv, Operator PROVE LinkInv'
<1>1. CASE Lower
  <2>1. UNCHANGED <<pc, client, buf, waiting, stream, hungUp, sent, got, torn>>
    BY <1>1 DEF Lower, server, history
  <2>2. pc' # "parse" => \A i \in 1..Len(buf) : ~buf[i].eol
    BY <2>1, LinkInvParts DEF NoEndKept
  <2>q. QED
    BY <2>1, <2>2, LinkFrame
<1>q. QED
  BY <1>1, LinkConnect, LinkSend, LinkHangUp DEF Operator

(***************************************************************************)
(* The thread.  These steps touch neither the buffer nor the client.       *)
(***************************************************************************)
LEMMA LinkMoves ==
    ASSUME CommInv, LinkInv, Setup \/ Select \/ Interrupted \/ Skip \/ Quiet
    PROVE  LinkInv'
<1>1. UNCHANGED <<client, buf, waiting, stream, hungUp, sent, got, torn>>
  BY DEF Setup, Select, Interrupted, Skip, Quiet, network, history
<1>2. pc \in {"setup", "select", "recv", "status"} /\ pc' # "parse"
  BY DEF Setup, Select, Interrupted, Skip, Quiet
<1>3. \A i \in 1..Len(buf) : ~buf[i].eol
  BY <1>2, LinkInvParts DEF NoEndKept
<1>q. QED
  BY <1>1, <1>2, <1>3, LinkFrame

\* The backlog's first; its lines come after what the buffer still holds.
LEMMA LinkAccept == ASSUME CommInv, LinkInv, Accept PROVE LinkInv'
<1>1. /\ pc = "accept" /\ pc' = "recv"
      /\ UNCHANGED <<buf, stream, hungUp, sent, got>>
  BY DEF Accept
<1>2. \A i \in 1..Len(buf) : ~buf[i].eol
  BY <1>1, LinkInvParts DEF NoEndKept
<1>3. CASE UNCHANGED <<waiting, client, open, torn>>
  BY <1>1, <1>2, <1>3, LinkFrame
<1>4. ASSUME NEW c \in waiting,
             waiting' = waiting \ {c}, client' = c, torn' = (torn \/ buf # <<>>)
      PROVE  LinkInv'
  <2>1. c \in Connections /\ c # NoConnection
    BY LinkTypes
  <2>2. NoEndKept' /\ HalfLineKept'
    BY <1>1, <1>2, <1>4, <2>1 DEF NoEndKept, HalfLineKept
  <2>3. HistoryOK'
    BY <1>1, LinkInvParts DEF HistoryOK
  <2>4. ServedOK'
    <3>1. got[c] = 0 /\ Served(c, sent[c], 0, hungUp, FALSE, stream[c], 0)
      BY LinkInvParts, Zenon DEF WaitingOK
    <3>2. buf \in Seq(Data) /\ stream[c] \in Seq(Data) /\ torn' \in BOOLEAN
      BY <1>4, <2>1, LinkTypes, Zenon
    <3>3. Len(buf) > 0 => torn'
      <4>1. Len(<<>>) = 0 /\ ~(0 > 0)
        BY EmptySeq
      <4>q. QED
        BY <1>4, <4>1, Zenon
    <3> DEFINE w2 == buf \o stream[c]
    <3>4. /\ w2 \in Seq(Data) /\ Len(w2) = Len(buf) + Len(stream[c])
          /\ \A i \in 1..Len(buf) : w2[i] = buf[i] /\ ~buf[i].eol
          /\ \A i \in 1..Len(stream[c]) : w2[Len(buf) + i] = stream[c][i]
      BY <1>2, <3>2, ConcatUnits, Zenon
    <3> HIDE DEF w2
    <3>5. Served(c, sent[c], 0, hungUp, torn', w2, Len(buf))
      BY <3>1, <3>2, <3>3, <3>4, ServedAccepts
    <3>q. QED
      BY <1>1, <1>4, <3>1, <3>5, Zenon DEF ServedOK, Pending, w2
  <2>5. WaitingOK'
    <3>1. /\ waiting' \subseteq waiting /\ UNCHANGED <<hungUp, sent>>
          /\ \A d \in waiting' : d # client' /\ got'[d] = got[d] /\ stream'[d] = stream[d]
      BY <1>1, <1>4
    <3>q. QED
      BY <3>1, LinkInvParts, WaitingKept
  <2>q. QED
    BY <2>2, <2>3, <2>4, <2>5, Zenon DEF LinkInv
<1>q. QED
  BY <1>3, <1>4 DEF Accept

\* The client goes, with its bytes in the buffer or without.
LEMMA LinkLoses ==
    ASSUME CommInv, LinkInv, client' = NoConnection,
           UNCHANGED <<waiting, stream, hungUp, sent, got>>,
           \A i \in 1..Len(buf') : ~buf'[i].eol,
           pc' \in {"ended", "dead"} \/ buf' = <<>> \/ torn', pc' # "parse"
    PROVE  LinkInv'
<1>1. NoEndKept' /\ HalfLineKept' /\ ServedOK'
  BY DEF NoEndKept, HalfLineKept, ServedOK
<1>2. HistoryOK'
  BY LinkInvParts DEF HistoryOK
<1>3. WaitingOK'
  <2>1. /\ waiting' \subseteq waiting /\ UNCHANGED <<hungUp, sent>>
        /\ \A d \in waiting' : d # client' /\ got'[d] = got[d] /\ stream'[d] = stream[d]
    BY LinkTypes
  <2>q. QED
    BY <2>1, LinkInvParts, WaitingKept
<1>q. QED
  BY <1>1, <1>2, <1>3, Zenon DEF LinkInv

LEMMA LinkDisconnect == ASSUME CommInv, LinkInv, Disconnect PROVE LinkInv'
<1>1. /\ client' = NoConnection /\ buf' = <<>> /\ pc' # "parse"
      /\ UNCHANGED <<waiting, stream, hungUp, sent, got>>
  BY DEF Disconnect, network
<1>2. \A i \in 1..Len(buf') : ~buf'[i].eol
  <2>1. Len(<<>>) = 0
    BY EmptySeq
  <2>q. QED
    BY <1>1, <2>1
<1>q. QED
  BY <1>1, <1>2, LinkLoses

LEMMA LinkEnding ==
    ASSUME CommInv, LinkInv, pc \in {"loop", "select"}, Ending
    PROVE  LinkInv'
<1>1. /\ client' = NoConnection /\ buf' = buf /\ pc' = "ended"
      /\ UNCHANGED <<waiting, stream, hungUp, sent, got>>
  BY DEF Ending, network, history
<1>2. \A i \in 1..Len(buf') : ~buf'[i].eol
  BY <1>1, LinkInvParts DEF NoEndKept
<1>q. QED
  BY <1>1, <1>2, LinkLoses

LEMMA LinkLoop == ASSUME CommInv, LinkInv, Loop PROVE LinkInv'
<1>1. CASE Ending
  BY <1>1, LinkEnding DEF Loop
<1>2. CASE pc' = "select" /\ UNCHANGED <<readable, client, buf, listening, open, network, history>>
  <2>1. UNCHANGED <<client, buf, waiting, stream, hungUp, sent, got, torn>> /\ pc = "loop"
    BY <1>2 DEF Loop, network, history
  <2>2. \A i \in 1..Len(buf) : ~buf[i].eol
    BY <2>1, LinkInvParts DEF NoEndKept
  <2>q. QED
    BY <1>2, <2>1, <2>2, LinkFrame
<1>q. QED
  BY <1>1, <1>2 DEF Loop

LEMMA LinkReport == ASSUME CommInv, LinkInv, Report PROVE LinkInv'
<1>1. /\ pc = "status" /\ UNCHANGED <<buf, waiting, stream, hungUp, sent, got>>
      /\ pc' # "parse"
  BY DEF Report, network
<1>2. \A i \in 1..Len(buf) : ~buf[i].eol
  BY <1>1, LinkInvParts DEF NoEndKept
<1>3. CASE pc' = "loop" /\ UNCHANGED <<client, listening, open, torn>>
  BY <1>1, <1>2, <1>3, LinkFrame
<1>4. CASE /\ client' = NoConnection
           /\ pc' \in {"ended", "dead"} \/ buf' = <<>> \/ torn'
  BY <1>1, <1>2, <1>4, LinkLoses
<1>5. \/ pc' = "loop" /\ UNCHANGED <<client, listening, open, torn>>
      \/ client' = NoConnection /\ torn' = (torn \/ buf # <<>>)
      \/ client' = NoConnection /\ pc' = "dead"
  BY Zenon DEF Report
<1>6. (torn' = (torn \/ buf # <<>>)) => buf' = <<>> \/ torn'
  BY <1>1, Zenon
<1>q. QED
  BY <1>3, <1>4, <1>5, <1>6, Zenon

(***************************************************************************)
(* A piece is received: nothing is lost of a line that still fits.         *)
(***************************************************************************)
LEMMA LinkReceive == ASSUME CommInv, LinkInv, Receive PROVE LinkInv'
<1>1. PICK n \in 1..ChunkSize :
          /\ n <= Len(stream[client])
          /\ stream' = [stream EXCEPT ![client] = SubSeq(@, n + 1, Len(@))]
          /\ buf' = (IF Fits(n) THEN buf ELSE <<>>) \o SubSeq(stream[client], 1, n)
  BY DEF Receive
<1>2. /\ pc = "recv" /\ pc' = "parse" /\ client \in Connections
      /\ UNCHANGED <<client, waiting, hungUp, sent, got, torn>>
  BY DEF Receive, history, CommInv, ThreadTypeOK
<1>3. /\ buf \in Seq(Data) /\ stream[client] \in Seq(Data) /\ Len(buf) \in Nat
      /\ Len(stream[client]) \in Nat /\ n \in Nat \ {0} /\ n \in 0..Len(stream[client])
      /\ got[client] \in Nat /\ torn \in BOOLEAN /\ client # NoConnection
      /\ sent[client] \in Seq(Lengths) /\ BufSize \in Nat
  <2>1. buf \in Seq(Data) /\ stream[client] \in Seq(Data) /\ Len(buf) \in Nat
        /\ got[client] \in Nat /\ torn \in BOOLEAN /\ client # NoConnection
        /\ sent[client] \in Seq(Lengths)
    BY <1>2, LinkTypes, Zenon
  <2>2. Len(stream[client]) \in Nat /\ n \in Nat \ {0} /\ BufSize \in Nat
    BY <2>1, LenProperties, CommAssumption DEF CommAssumption
  <2>q. QED
    BY <1>1, <2>1, <2>2
<1> DEFINE s == stream[client]
           head == SubSeq(s, 1, n)
           tail == SubSeq(s, n + 1, Len(s))
<1>4. /\ stream'[client] = tail
      /\ \A d \in Connections : d # client => stream'[d] = stream[d]
  BY <1>1, <1>2 DEF CommInv, NetworkTypeOK
<1>5. /\ head \in Seq(Data) /\ Len(head) = n
      /\ tail \in Seq(Data) /\ Len(s) = Len(tail) + n
      /\ \A i \in 1..Len(tail) : tail[i] = s[i + n]
  BY <1>3, HeadUnits, TailUnits, Zenon DEF LacksFirst
<1>6. (buf \o head) \o tail = buf \o s
  BY <1>3, MoveUnits, Zenon
<1>7. buf' = (IF Fits(n) THEN buf ELSE <<>>) \o head
  BY <1>1, Zenon
<1> HIDE DEF head, tail
<1>8. /\ Pending \in Seq(Data) /\ Len(Pending) = Len(buf) + Len(s)
      /\ \A i \in 1..Len(buf) : Pending[i] = buf[i]
      /\ \A i \in 1..Len(s) : Pending[Len(buf) + i] = s[i]
  BY <1>3, ConcatUnits, Zenon DEF Pending
<1>9. Served(client, sent[client], got[client], hungUp, torn, Pending, Len(buf))
  BY <1>3, LinkInvParts, Zenon DEF ServedOK
<1>10. \A i \in 1..Len(buf) : ~buf[i].eol
  BY <1>2, LinkInvParts DEF NoEndKept
<1>11. Served(client, sent[client], got[client], hungUp, torn, Pending', Len(buf'))
  <2>1. CASE Fits(n)
    <3>1. buf' = buf \o head
      BY <1>7, <2>1, Zenon
    <3>2. Pending' = Pending
      BY <1>2, <1>4, <1>6, <3>1, Zenon DEF Pending
    <3>3. Len(buf') = Len(buf) + n
      BY <1>3, <1>5, <3>1, ConcatUnits, Zenon
    <3>4. Len(buf') \in Nat /\ Len(buf) <= Len(buf') /\ Len(buf') <= Len(Pending)
      BY <1>3, <1>8, <3>3
    <3>5. Served(client, sent[client], got[client], hungUp, torn, Pending, Len(buf'))
      BY <1>3, <1>8, <1>9, <3>4, ServedReceives
    <3>q. QED
      BY <3>2, <3>5, Zenon
  <2>2. CASE ~Fits(n)
    <3>1. buf' = head
      <4>1. buf' = <<>> \o head
        BY <1>7, <2>2, Zenon
      <4>2. <<>> \o head = head
        BY <1>5, ConcatEmptySeq
      <4>q. QED
        BY <4>1, <4>2, Zenon
    <3>2. Pending' = s
      <4>1. <<>> \in Seq(Data)
        BY EmptySeq
      <4>2. (<<>> \o head) \o tail = <<>> \o s
        BY <1>3, <4>1, MoveUnits, Zenon DEF head, tail
      <4>3. <<>> \o head = head /\ <<>> \o s = s
        BY <1>3, <1>5, ConcatEmptySeq
      <4>4. head \o tail = s
        BY <4>2, <4>3, Zenon
      <4>q. QED
        BY <1>2, <1>4, <3>1, <4>4, Zenon DEF Pending
    <3>3. Len(buf) + n > BufSize
      BY <1>3, <2>2 DEF Fits
    <3>4. LacksFirst(s, Pending, Len(buf))
      <4>1. Len(Pending) = Len(s) + Len(buf)
        BY <1>3, <1>8
      <4>2. ASSUME NEW i \in 1..Len(s) PROVE s[i] = Pending[i + Len(buf)]
        <5>1. Len(buf) + i = i + Len(buf)
          BY <1>3
        <5>q. QED
          BY <1>8, <5>1, Zenon
      <4>q. QED
        BY <4>1, <4>2, Zenon DEF LacksFirst
    <3>5. Len(buf) \in 0..Len(Pending)
      BY <1>3, <1>8
    <3>6. \A i \in 1..Len(buf) : ~Pending[i].eol
      BY <1>8, <1>10, Zenon
    <3>7. n <= Len(s) /\ s \in Seq(Data)
      BY <1>1, <1>3
    <3> HIDE DEF s
    <3>8. Served(client, sent[client], got[client], hungUp, torn, s, n)
      BY <1>2, <1>3, <1>8, <1>9, <3>3, <3>4, <3>5, <3>6, <3>7, ServedOverflows, ZenonT(60)
    <3>q. QED
      BY <1>5, <3>1, <3>2, <3>8, Zenon
  <2>q. QED
    BY <2>1, <2>2
<1>12. ServedOK'
  BY <1>2, <1>11, Zenon DEF ServedOK
<1>13. NoEndKept' /\ HalfLineKept'
  BY <1>2, <1>3 DEF NoEndKept, HalfLineKept
<1>14. HistoryOK'
  <2>1. ASSUME NEW d \in Connections
        PROVE  got'[d] <= Len(sent'[d]) /\ (sent'[d] = <<>> => stream'[d] = <<>>)
    <3>1. got'[d] = got[d] /\ sent'[d] = sent[d] /\ got[d] <= Len(sent[d])
          /\ (sent[d] = <<>> => stream[d] = <<>>)
      BY <1>2, LinkInvParts, Zenon DEF HistoryOK
    <3>2. s # <<>>
      <4>1. Len(<<>>) = 0
        BY EmptySeq
      <4>q. QED
        BY <1>1, <1>3, <4>1
    <3>q. QED
      BY <1>4, <3>1, <3>2, Zenon
  <2>q. QED
    BY <2>1, Zenon DEF HistoryOK
<1>15. WaitingOK'
  <2>1. /\ waiting' \subseteq waiting /\ UNCHANGED <<hungUp, sent>>
        /\ \A d \in waiting' : d # client' /\ got'[d] = got[d] /\ stream'[d] = stream[d]
    <3>1. ASSUME NEW d \in waiting
          PROVE  d # client /\ stream'[d] = stream[d]
      <4>1. d # client /\ d \in Connections
        BY LinkTypes, LinkInvParts DEF WaitingOK
      <4>q. QED
        BY <1>4, <4>1, Zenon
    <3>q. QED
      BY <1>2, <3>1
  <2>q. QED
    BY <2>1, LinkInvParts, WaitingKept
<1>q. QED
  BY <1>12, <1>13, <1>14, <1>15, Zenon DEF LinkInv

(***************************************************************************)
(* A line is cut out of the buffer: it is the next one sent.               *)
(***************************************************************************)
LEMMA CutServes ==
    ASSUME CommInv, LinkInv, client # NoConnection, Ends # {}, CutLine
    PROVE  /\ got[client] + 1 \in 1..Len(sent[client])
           /\ \/ torn \/ sent[client][got[client] + 1] > SafeLength
              \/ /\ sent[client][got[client] + 1] = FirstEnd
                 /\ SubSeq(buf, 1, FirstEnd) = Units(client, got[client] + 1, FirstEnd)
           /\ buf[FirstEnd].from = client /\ buf[FirstEnd].line = got[client] + 1
           /\ Served(client, sent[client], got[client] + 1, hungUp, FALSE,
                     buf' \o stream[client], Len(buf'))
           /\ FirstEnd \in 1..Len(buf)
<1> DEFINE e == FirstEnd
           s == stream[client]
           tail == SubSeq(buf, e + 1, Len(buf))
<1>1. /\ client \in Connections /\ buf \in Seq(Data) /\ s \in Seq(Data)
      /\ Len(buf) \in Nat /\ got[client] \in Nat /\ sent[client] \in Seq(Lengths)
      /\ torn \in BOOLEAN /\ Len(s) \in Nat
  <2>1. client \in Connections
    BY LinkTypes
  <2>2. buf \in Seq(Data) /\ s \in Seq(Data) /\ Len(buf) \in Nat /\ got[client] \in Nat
        /\ sent[client] \in Seq(Lengths) /\ torn \in BOOLEAN
    BY <2>1, LinkTypes, Zenon
  <2>q. QED
    BY <2>1, <2>2, LenProperties
<1>2. /\ e \in 1..Len(buf) /\ buf[e].eol /\ \A i \in 1..(e - 1) : ~buf[i].eol
  <2>1. e \in 1..Len(buf) /\ e \in Ends
    BY FirstEndInBuffer DEF CommInv
  <2>2. DOMAIN buf = 1..Len(buf)
    BY <1>1, LenProperties
  <2>3. Ends \in SUBSET Nat
    BY <1>1, <2>2 DEF Ends
  <2>4. \A j \in Ends : e <= j
    <3>1. \E i \in Ends : \A j \in Ends : i <= j
      BY <2>3, LeastNatural
    <3>q. QED
      BY <3>1, Zenon DEF FirstEnd
  <2>5. ASSUME NEW i \in 1..(e - 1) PROVE ~buf[i].eol
    <3>1. i \in 1..Len(buf) /\ ~(e <= i)
      BY <1>1, <2>1
    <3>q. QED
      BY <2>2, <2>4, <3>1, Zenon DEF Ends
  <2>6. buf[e].eol
    BY <2>1, Zenon DEF Ends
  <2>q. QED
    BY <2>1, <2>5, <2>6, Zenon
<1>3. buf' = tail
  BY Zenon DEF CutLine
<1>4. /\ tail \in Seq(Data) /\ Len(buf) = Len(tail) + e
      /\ \A i \in 1..Len(tail) : tail[i] = buf[i + e]
  <2>1. e \in 0..Len(buf)
    BY <1>1, <1>2
  <2>q. QED
    BY <1>1, <2>1, TailUnits, Zenon DEF LacksFirst
<1> HIDE DEF tail, e
<1>5. /\ Pending \in Seq(Data) /\ Len(Pending) = Len(buf) + Len(s)
      /\ \A i \in 1..Len(buf) : Pending[i] = buf[i]
      /\ \A i \in 1..Len(s) : Pending[Len(buf) + i] = s[i]
  BY <1>1, ConcatUnits, Zenon DEF Pending
<1> DEFINE w2 == tail \o s
<1>6. /\ w2 \in Seq(Data) /\ Len(w2) = Len(tail) + Len(s) /\ Len(tail) \in Nat
      /\ \A i \in 1..Len(tail) : w2[i] = tail[i]
      /\ \A i \in 1..Len(s) : w2[Len(tail) + i] = s[i]
  BY <1>1, <1>4, ConcatUnits, Zenon
<1> HIDE DEF w2, s
<1>7. LacksFirst(w2, Pending, e)
  <2>1. Len(Pending) = Len(w2) + e
    BY <1>1, <1>2, <1>4, <1>5, <1>6
  <2>2. ASSUME NEW i \in 1..Len(w2) PROVE w2[i] = Pending[i + e]
    <3>1. CASE i <= Len(tail)
      <4>1. i \in 1..Len(tail) /\ i + e \in 1..Len(buf)
        BY <1>1, <1>2, <1>4, <1>6, <3>1
      <4>q. QED
        BY <1>4, <1>5, <1>6, <4>1, Zenon
    <3>2. CASE i > Len(tail)
      <4>1. i - Len(tail) \in 1..Len(s)
            /\ Len(tail) + (i - Len(tail)) = i /\ Len(buf) + (i - Len(tail)) = i + e
        BY <1>1, <1>2, <1>4, <1>6, <3>2
      <4>2. PICK d \in 1..Len(s) : Len(tail) + d = i /\ Len(buf) + d = i + e
        BY <4>1
      <4>3. w2[Len(tail) + d] = s[d] /\ Pending[Len(buf) + d] = s[d]
        BY <1>5, <1>6, Zenon
      <4>q. QED
        BY <4>2, <4>3, Zenon
    <3>3. i <= Len(tail) \/ i > Len(tail)
      BY <1>6
    <3>q. QED
      BY <3>1, <3>2, <3>3, Zenon
  <2>q. QED
    BY <2>1, <2>2, Zenon DEF LacksFirst
<1>8. /\ Pending[e].eol /\ \A i \in 1..(e - 1) : ~Pending[i].eol
  <2>1. \A i \in 1..(e - 1) : i \in 1..Len(buf)
    BY <1>1, <1>2
  <2>q. QED
    BY <1>2, <1>5, <2>1, Zenon
<1>9. Served(client, sent[client], got[client], hungUp, torn, Pending, Len(buf))
  BY LinkInvParts, Zenon DEF ServedOK
<1> DEFINE c == client
           lines == sent[client]
           k == got[client]
           b == Len(buf)
           w == Pending
           broken == torn
<1>10. /\ Served(c, lines, k + 1, hungUp, FALSE, w2, b - e)
       /\ k + 1 \in 1..Len(lines)
       /\ NextLine(c, lines, k, broken, w, e)
  <2>1. /\ c \in Connections /\ lines \in Seq(Lengths) /\ k \in Nat
        /\ broken \in BOOLEAN /\ w \in Seq(Data) /\ b \in 0..Len(w)
        /\ w2 \in Seq(Data) /\ Served(c, lines, k, hungUp, broken, w, b)
        /\ EndsFirst(w, b, e) /\ LacksFirst(w2, w, e)
    <3>1. b \in 0..Len(w)
      BY <1>1, <1>5 DEF s
    <3>q. QED
      BY <1>1, <1>2, <1>5, <1>6, <1>7, <1>8, <1>9, <3>1, Zenon DEF EndsFirst
  <2> HIDE DEF c, lines, k, b, w, broken
  <2>q. QED
    BY <2>1, ServedParses
<1>13. buf[e].from = c /\ buf[e].line = k + 1
  <2>1. w[e].from = c /\ w[e].line = k + 1
    BY <1>10, Zenon DEF NextLine
  <2>2. w[e] = buf[e]
    BY <1>2, <1>5, Zenon
  <2>q. QED
    BY <2>1, <2>2, Zenon
<1>11. b - e = Len(tail)
  BY <1>1, <1>2, <1>4
<1>12. ASSUME \A i \in 1..e : w[i] = Units(c, k + 1, e)[i]
       PROVE  SubSeq(buf, 1, e) = Units(c, k + 1, e)
  <2> DEFINE line == SubSeq(buf, 1, e)
             units == Units(c, k + 1, e)
  <2>1. e \in 0..Len(buf) /\ e \in Nat /\ k + 1 \in Nat
    BY <1>1, <1>2
  <2>2. line \in Seq(Data) /\ Len(line) = e /\ \A i \in 1..e : line[i] = buf[i]
    BY <1>1, <2>1, HeadUnits, Zenon
  <2>3. units \in Seq(Data)
    BY <1>1, <2>1, UnitsAreData, Zenon
  <2>4. Len(units) = e
    BY <2>1, <2>3, LenProperties DEF Units
  <2>6. \A i \in 1..e : i \in 1..Len(buf)
    BY <2>1
  <2>7. \A i \in 1..e : line[i] = units[i]
    BY <1>5, <1>12, <2>2, <2>6, Zenon
  <2> HIDE DEF line, units
  <2>8. line = units
    BY <2>2, <2>3, <2>4, <2>7, SeqEqual
  <2>q. QED
    BY <2>8, Zenon DEF line, units
<1>q. QED
  BY <1>2, <1>3, <1>10, <1>11, <1>12, <1>13, Zenon DEF e, s, w2, NextLine

LEMMA LinkParse == ASSUME CommInv, LinkInv, Parse PROVE LinkInv'
<1>1. pc = "parse" /\ UNCHANGED client /\ UNCHANGED <<waiting, stream, hungUp, sent>>
  BY DEF Parse, network
<1>2. client \in Connections /\ client # NoConnection /\ buf \in Seq(Data)
  BY <1>1, LinkInvParts, LinkTypes DEF HalfLineKept
<1>3. CASE Ends = {} /\ pc' = "status" /\ UNCHANGED <<buf, history>>
  <2>1. \A i \in 1..Len(buf) : ~buf[i].eol
    <3>1. DOMAIN buf = 1..Len(buf)
      BY <1>2, LenProperties
    <3>q. QED
      BY <1>3, <3>1 DEF Ends
  <2>2. UNCHANGED <<client, buf, waiting, stream, hungUp, sent, got, torn>>
    BY <1>1, <1>3 DEF history
  <2>q. QED
    BY <1>1, <1>3, <2>1, <2>2, LinkFrame
<1>4. CASE Ends # {} /\ CutLine /\ pc' = pc
  <2>1. /\ got[client] + 1 \in 1..Len(sent[client])
        /\ Served(client, sent[client], got[client] + 1, hungUp, FALSE,
                  buf' \o stream[client], Len(buf'))
    BY <1>2, <1>4, CutServes, Zenon
  <2>2. torn' = FALSE /\ got' = [got EXCEPT ![client] = @ + 1]
    BY <1>4, Zenon DEF CutLine
  <2>3. /\ got'[client] = got[client] + 1
        /\ \A d \in Connections : d # client => got'[d] = got[d]
    BY <1>2, <2>2 DEF CommInv, ThreadTypeOK
  <2>4. NoEndKept' /\ HalfLineKept'
    BY <1>1, <1>2, <1>4 DEF NoEndKept, HalfLineKept
  <2>5. HistoryOK'
    <3>1. ASSUME NEW d \in Connections
          PROVE  got'[d] <= Len(sent'[d]) /\ (sent'[d] = <<>> => stream'[d] = <<>>)
      <4>1. /\ got[d] <= Len(sent[d]) /\ (sent[d] = <<>> => stream[d] = <<>>)
            /\ sent'[d] = sent[d] /\ stream'[d] = stream[d]
        BY <1>1, LinkInvParts, Zenon DEF HistoryOK
      <4>2. CASE d = client
        BY <2>1, <2>3, <4>1, <4>2
      <4>3. CASE d # client
        BY <2>3, <4>1, <4>3, Zenon
      <4>q. QED
        BY <4>2, <4>3
    <3>q. QED
      BY <3>1, Zenon DEF HistoryOK
  <2>6. ServedOK'
    BY <1>1, <2>1, <2>2, <2>3, Zenon DEF ServedOK, Pending
  <2>7. WaitingOK'
    <3>1. /\ waiting' \subseteq waiting /\ UNCHANGED <<hungUp, sent>>
          /\ \A d \in waiting' : d # client' /\ got'[d] = got[d] /\ stream'[d] = stream[d]
      <4>1. ASSUME NEW d \in waiting PROVE d # client /\ got'[d] = got[d]
        <5>1. d # client /\ d \in Connections
          BY LinkTypes, LinkInvParts DEF WaitingOK
        <5>q. QED
          BY <2>3, <5>1, Zenon
      <4>q. QED
        BY <1>1, <4>1
    <3>q. QED
      BY <3>1, LinkInvParts, WaitingKept
  <2>q. QED
    BY <2>4, <2>5, <2>6, <2>7, Zenon DEF LinkInv
<1>q. QED
  BY <1>3, <1>4 DEF Parse

LEMMA LinkStep == ASSUME CommInv, LinkInv, [CommNext]_commVars PROVE LinkInv'
<1>1. CASE UNCHANGED commVars
  <2>1. UNCHANGED <<pc, client, buf, waiting, stream, hungUp, sent, got, torn>>
    BY <1>1 DEF commVars, server, network, history
  <2>2. pc' # "parse" => \A i \in 1..Len(buf) : ~buf[i].eol
    BY <2>1, LinkInvParts DEF NoEndKept
  <2>q. QED
    BY <2>1, <2>2, LinkFrame
<1>2. CASE SelectFails
  BY <1>2, LinkEnding DEF SelectFails
<1>q. QED
  BY <1>1, <1>2, LinkOperator, LinkMoves, LinkLoop, LinkAccept, LinkDisconnect,
     LinkReceive, LinkParse, LinkReport DEF CommNext, Comm
-----------------------------------------------------------------------------
(***************************************************************************)
(* The steps of the thread, seen as those of LineLink.                     *)
(***************************************************************************)
LEMMA CutIsHandle ==
    ASSUME CommInv, LinkInv, client # NoConnection, Ends # {}, CutLine,
           UNCHANGED <<client, sent>>
    PROVE  Link!Handle(client)
<1> DEFINE next == sent[client][got[client] + 1]
           line == SubSeq(buf, 1, FirstEnd)
<1>1. /\ client \in Connections /\ buf \in Seq(Data) /\ Len(buf) \in Nat
      /\ got[client] \in Nat /\ sent[client] \in Seq(Lengths)
  <2>1. client \in Connections
    BY LinkTypes
  <2>q. QED
    BY <2>1, LinkTypes, Zenon
<1>2. /\ got[client] + 1 \in 1..Len(sent[client])
      /\ buf[FirstEnd].from = client /\ buf[FirstEnd].line = got[client] + 1
      /\ \/ torn \/ next > SafeLength
         \/ next = FirstEnd /\ line = Units(client, got[client] + 1, FirstEnd)
      /\ FirstEnd \in 1..Len(buf)
  BY CutServes, Zenon
<1>3. Len(line) = FirstEnd
  <2>1. FirstEnd \in 0..Len(buf)
    BY <1>1, <1>2
  <2>q. QED
    BY <1>1, <2>1, HeadUnits, Zenon
<1>4. /\ verdict' = (CASE Len(line) = 1 -> "blank"
                       [] IsWhole(line) -> "whole"
                       [] OTHER -> "broken")
      /\ handled' = <<client, got[client] + 1>>
      /\ got' = [got EXCEPT ![client] = @ + 1]
      /\ torn' = FALSE
  BY <1>2, Zenon DEF CutLine
<1>5. ASSUME ~torn, ~(next > SafeLength) PROVE next = FirstEnd /\ IsWhole(line)
  <2>1. next = FirstEnd /\ line = Units(client, got[client] + 1, FirstEnd)
    BY <1>2, <1>5, Zenon
  <2>q. QED
    BY <1>3, <2>1, Zenon DEF IsWhole
<1>6. SafeLength \in Int /\ next \in Nat
  <2>1. SafeLength \in Int
    BY CommAssumption DEF CommAssumption, SafeLength
  <2>2. next \in Nat
    BY <1>1, <1>2, LineLengths
  <2>q. QED
    BY <2>1, <2>2
<1> HIDE DEF line
<1>7. verdict' \in {"whole", "blank", "broken"}
  BY <1>4
<1>8. verdict' = "broken" => torn \/ next > SafeLength
  BY <1>4, <1>5
<1>9. verdict' = "blank" => torn \/ next \notin 2..SafeLength
  <2>1. ASSUME verdict' = "blank" PROVE Len(line) = 1
    BY <1>4, <2>1
  <2>2. Len(line) = 1 /\ ~torn => next \notin 2..SafeLength
    <3>1. CASE next > SafeLength
      BY <1>6, <3>1
    <3>2. CASE ~(next > SafeLength)
      BY <1>3, <1>5, <3>2
    <3>q. QED
      BY <3>1, <3>2, Zenon
  <2>q. QED
    BY <2>1, <2>2, Zenon
<1>10. got[client] < Len(sent[client])
  <2>1. Len(sent[client]) \in Nat
    BY <1>1, LenProperties
  <2>q. QED
    BY <1>1, <1>2, <2>1
<1>q. QED
  BY <1>4, <1>7, <1>8, <1>9, <1>10, Zenon DEF Link!Handle

LEMMA LinkMaps ==
    ASSUME CommInv, LinkInv, [CommNext]_commVars
    PROVE  [Link!Next]_(Link!linkVars)
<1> SUFFICES Link!Next \/ UNCHANGED <<client, sent, got, torn, handled, verdict>>
  BY DEF Link!linkVars
<1>1. CASE UNCHANGED commVars
  BY <1>1 DEF commVars, server, network, history
<1>2. ASSUME NEW c \in Connections, SendLine(c) PROVE Link!Next
  <2>1. Link!Send(c)
    BY <1>2 DEF SendLine, server, history, Link!Send
  <2>q. QED
    BY <2>1 DEF Link!Next
<1>3. CASE Lower \/ (\E c \in Connections : Connect(c) \/ HangUp(c))
  BY <1>3 DEF Lower, Connect, HangUp, server, history
<1>4. CASE Setup \/ Select \/ Interrupted \/ Skip \/ Quiet
  BY <1>4 DEF Setup, Select, Interrupted, Skip, Quiet, network, history
<1>5. CASE Receive
  BY <1>5 DEF Receive, history
<1>6. ASSUME client' = NoConnection, client # NoConnection, torn' \in BOOLEAN,
             UNCHANGED <<sent, got, handled, verdict>>
      PROVE  Link!Next
  <2>1. Link!Lose
    BY <1>6, Zenon DEF Link!Lose
  <2>q. QED
    BY <2>1 DEF Link!Next
<1>7. torn' \in BOOLEAN
  BY CommStep, Zenon DEF CommInv, ThreadTypeOK
<1>8. CASE Disconnect
  <2>1. client # NoConnection
    BY <1>8, CommAssumption DEF CommAssumption, Disconnect, CommInv, ThreadTypeOK
  <2>2. client' = NoConnection /\ UNCHANGED <<sent, got, handled, verdict>>
    BY <1>8 DEF Disconnect, network
  <2>q. QED
    BY <1>6, <1>7, <2>1, <2>2, Zenon
<1>9. CASE Ending
  <2>1. client' = NoConnection /\ UNCHANGED <<sent, got, torn, handled, verdict>>
    BY <1>9 DEF Ending, network, history
  <2>q. QED
    BY <1>6, <1>7, <2>1
<1>10. CASE Loop
  <2>1. Ending \/ UNCHANGED <<client, sent, got, torn, handled, verdict>>
    BY <1>10 DEF Loop, network, history
  <2>q. QED
    BY <1>9, <2>1
<1>11. CASE SelectFails
  BY <1>9, <1>11 DEF SelectFails
<1>12. CASE Report
  <2>1. /\ client # NoConnection /\ UNCHANGED <<sent, got, handled, verdict>>
        /\ client' = NoConnection \/ UNCHANGED <<client, torn>>
    BY <1>12 DEF Report, network
  <2>q. QED
    BY <1>6, <1>7, <2>1
<1>13. CASE Accept
  <2>1. UNCHANGED <<sent, got, handled, verdict>> /\ pc = "accept"
    BY <1>13 DEF Accept
  <2>2. CASE UNCHANGED <<client, torn>>
    BY <2>1, <2>2
  <2>3. ASSUME NEW c \in waiting, client' = c, torn' = (torn \/ buf # <<>>)
        PROVE  Link!Next
    <3>1. c \in Connections /\ c # client
      BY LinkTypes, LinkInvParts DEF WaitingOK
    <3>2. torn \in BOOLEAN
      BY LinkTypes, Zenon
    <3>3. torn' \in {torn, TRUE}
      BY <1>7, <2>3, <3>2, Zenon
    <3>4. client = NoConnection => torn' = torn
      <4>1. client = NoConnection => buf = <<>> \/ torn
        BY <2>1, LinkInvParts DEF HalfLineKept
      <4>q. QED
        BY <2>3, <3>2, <4>1, Zenon
    <3>5. Link!Serve(c)
      BY <2>1, <2>3, <3>1, <3>3, <3>4, Zenon DEF Link!Serve
    <3>q. QED
      BY <3>1, <3>5, Zenon DEF Link!Next
  <2>q. QED
    BY <1>13, <2>2, <2>3 DEF Accept
<1>14. CASE Parse
  <2>1. pc = "parse" /\ UNCHANGED <<client, sent>>
    BY <1>14 DEF Parse, network
  <2>2. client \in Connections /\ client # NoConnection
    BY <2>1, LinkInvParts, LinkTypes DEF HalfLineKept
  <2>3. CASE Ends # {} /\ CutLine
    <3>1. Link!Handle(client)
      BY <2>1, <2>2, <2>3, CutIsHandle
    <3>q. QED
      BY <2>2, <3>1, Zenon DEF Link!Next
  <2>4. CASE UNCHANGED <<buf, history>>
    BY <2>1, <2>4 DEF history
  <2>q. QED
    BY <1>14, <2>3, <2>4 DEF Parse
<1>15. CASE Operator
  BY <1>2, <1>3, <1>15 DEF Operator
<1>q. QED
  BY <1>1, <1>4, <1>5, <1>8, <1>10, <1>11, <1>12, <1>13, <1>14, <1>15
     DEF CommNext, Comm

(***************************************************************************)
(* Refinement: the end of line that CutLine takes out of the buffer is     *)
(* always the one of the line that comes next on the connection being      *)
(* served, so that its lines are handled in the order they were sent, each *)
(* once, and nobody else's; and every unit before it is of that line too,  *)
(* in whatever pieces recv returned them, unless the line is longer than   *)
(* SafeLength or the one line at which a connection was replaced or failed *)
(* under a half line (comm_thread).                                        *)
(***************************************************************************)
THEOREM LinesAreKept == CommSpec => ImplementsLineLink
<1>1. CommInit => Link!Init
  BY Zenon DEF CommInit, Link!Init
<1>2. CommInv /\ LinkInv /\ [CommNext]_commVars => [Link!Next]_(Link!linkVars)
  BY LinkMaps
<1>3. CommSpec => []LinkInv
  <2>1. CommInv /\ LinkInv /\ [CommNext]_commVars => LinkInv'
    BY LinkStep
  <2>q. QED
    BY <2>1, LinkInvInit, CommInvariant, PTL DEF CommSpec
<1>q. QED
  BY <1>1, <1>2, <1>3, CommInvariant, PTL DEF CommSpec, ImplementsLineLink, Link!Spec
=============================================================================
