---------------------------- MODULE CameraStream ----------------------------
(***************************************************************************)
(* The video on its way from the camera to the viewer:                     *)
(*   camera/video-streaming.py | camera/encryption | pi-server-socket.py   *)
(*   -- TCP -->  Client (TcpSocketStreaming, TcpServerStreaming)           *)
(*   -- TCP -->  the viewer that plays the decrypted stream.               *)
(*                                                                         *)
(* A character of the video is its position, 1, 2, ...; a character of the *)
(* key stream is its position, too.  An encrypted character is the pair of *)
(* the two, and what the viewer gets is the triple with the position of    *)
(* the key character the client decrypted it with: readable when the two   *)
(* key positions agree.  Trivium::cypher consumes whole vectors of key, so *)
(* a call for a length that is no multiple of VectorSize skips some.       *)
(***************************************************************************)
EXTENDS Naturals, Sequences, FiniteSets

CONSTANTS BlockSize,     \* characters per call of cypher, on both sides
          VectorSize,    \* characters of key per vector
          VideoLength,   \* bound: characters the camera produces
          MaxLine,       \* bound: the longest line of the encrypted stream
          PipeSize,      \* capacity of the pipe to pi-server-socket.py
          MaxSessions,   \* bound: connections the client opens
          MaxShortReads, \* bound: short reads of encryption before the end
          MaxRestarts    \* bound: times the client program is started again

ASSUME StreamAssumption == /\ {BlockSize, VectorSize, MaxLine} \subseteq Nat \ {0}
                           /\ BlockSize % VectorSize = 0
                           /\ {VideoLength, PipeSize, MaxSessions, MaxShortReads,
                               MaxRestarts} \subseteq Nat

VARIABLES \* encryption.cpp
          encryption, \* "running" or "ended"
          taken,      \* characters of the video it has read
          encVectors, \* vectors of key it has used
          shortReads,
          pipe,       \* its standard output
          \* pi-server-socket.py
          server,     \* "accept" or "serve"
          served,     \* the session it serves
          \* TCP between the two
          link,       \* the state of each session
          wire,       \* characters under way to the client in the session served
          \* the client
          button,     \* the text of pushButtonConnect
          socket,     \* the session of TcpSocketStreaming's socket, 0: none
          buffer,     \* TcpServerStreaming's buffer
          decVectors, \* vectors of key it has used
          restarts,
          listening,  \* tcpServer listens
          viewer,     \* a viewer is connected
          shown,      \* history: what the viewers of this run of the client got
          lost        \* history: positions of the characters this run will never get

camVars    == <<encryption, taken, encVectors, shortReads>>
serverVars == <<server, served>>
netVars    == <<link, wire>>
cipherVars == <<buffer, decVectors>>
viewVars   == <<listening, viewer, shown>>
clientVars == <<button, socket, cipherVars, restarts, viewVars>>
vars       == <<camVars, pipe, serverVars, netVars, clientVars, lost>>

Sessions == 1..MaxSessions

Init == /\ encryption = "running"
        /\ taken = 0
        /\ encVectors = 0
        /\ shortReads = 0
        /\ pipe = <<>>
        /\ server = "accept"
        /\ served = 0
        /\ link = [s \in Sessions |-> "unused"]
        /\ wire = <<>>
        /\ button = "Connexion"
        /\ socket = 0
        /\ buffer = <<>>
        /\ decVectors = 0
        /\ restarts = 0
        /\ listening = FALSE
        /\ viewer = FALSE
        /\ shown = <<>>
        /\ lost = {}

\* Mutant of LENVECTOR: the division only.
LENVECTORRoundedDown(n) == n \div VectorSize

LENVECTOR(n) == (n + VectorSize - 1) \div VectorSize

----------------------------------------------------------------------------
\* encryption.cpp: fread, cypher, fwrite and fflush of one block.  The pipe takes
\* the block when there is room for it; until then the writer is blocked.
Encrypt(bytes) ==
  /\ encryption = "running"
  /\ Len(pipe) + bytes <= PipeSize
  /\ pipe' = pipe \o [n \in 1..bytes |-> <<taken + n, VectorSize * encVectors + n>>]
  /\ taken' = taken + bytes
  /\ encVectors' = encVectors + LENVECTOR(bytes)
  /\ UNCHANGED <<serverVars, netVars, clientVars, lost>>

EncryptBlock == /\ taken + BlockSize <= VideoLength
                /\ Encrypt(BlockSize)
                /\ UNCHANGED <<encryption, shortReads>>

\* A short read that is not the end of the file does not end the loop.
EncryptShort == /\ shortReads < MaxShortReads
                /\ \E bytes \in 0..(BlockSize - 1) :
                     taken + bytes <= VideoLength /\ Encrypt(bytes)
                /\ shortReads' = shortReads + 1
                /\ UNCHANGED encryption

\* The camera stops: the last block is short, possibly empty.
EncryptLast == /\ \E bytes \in 0..(BlockSize - 1) :
                    taken + bytes <= VideoLength /\ Encrypt(bytes)
               /\ encryption' = "ended"
               /\ UNCHANGED shortReads

----------------------------------------------------------------------------
\* pi-server-socket.py

\* The connections established and not accepted yet; their client may have gone.
Waiting == {s \in Sessions : link[s] \in {"backlog", "left backlog"}}

\* accept takes the oldest of them.
Accept == /\ server = "accept"
          /\ \E s \in Waiting : /\ \A r \in Waiting : s <= r
                                /\ served' = s
                                /\ link' = [link EXCEPT ![s] =
                                     IF @ = "backlog" THEN "open" ELSE "left"]
          /\ server' = "serve"
          /\ wire' = <<>>
          /\ UNCHANGED <<camVars, pipe, clientVars, lost>>

Positions(chars) == {chars[n][1] : n \in DOMAIN chars}

\* for line in sys.stdin: the line leaves the pipe, whatever becomes of it.
TakeLine(n) == /\ n <= Len(pipe)
               /\ pipe' = SubSeq(pipe, n + 1, Len(pipe))

\* connection.send(line), to a client that is there.  send may take the first part
\* of the line only; what it returns is not looked at, so the rest is lost.
SendLine == /\ server = "serve"
            /\ link[served] = "open"
            /\ \E n \in 1..MaxLine : \E sent \in 1..n :
                 /\ TakeLine(n)
                 /\ wire' = wire \o SubSeq(pipe, 1, sent)
                 /\ lost' = lost \cup Positions(SubSeq(pipe, sent + 1, n))
            /\ UNCHANGED <<camVars, serverVars, link, clientVars>>

\* A line reaches nobody, nor does what is still under way on this connection.
DropLine == /\ \E n \in 1..MaxLine :
                 /\ TakeLine(n)
                 /\ lost' = lost \cup Positions(wire) \cup Positions(SubSeq(pipe, 1, n))
            /\ wire' = <<>>

\* The client has gone but send does not know yet: it succeeds, for nobody.
SendUnnoticed == /\ server = "serve"
                 /\ link[served] = "left"
                 /\ DropLine
                 /\ UNCHANGED <<camVars, serverVars, link, clientVars>>

\* Mutant of SendFails: break, but error is not set.
SendFailsGoesOn == /\ server = "serve"
                   /\ link[served] \in {"open", "left"}
                   /\ DropLine
                   /\ UNCHANGED <<camVars, serverVars, link, clientVars>>

\* send fails, because the client has gone or the network to one that is there is
\* broken: the line is gone, the connection is closed, and a new listening socket
\* replaces the old one with the connections that waited in its backlog.  A client
\* that is there is left with a connection the server has dropped.
SendFails == /\ server = "serve"
             /\ link[served] \in {"open", "left"}
             /\ DropLine
             /\ link' = [s \in Sessions |->
                  CASE link[s] \in {"open", "backlog"} -> "dropped"
                    [] link[s] \in {"left", "left backlog"} -> "closed"
                    [] OTHER -> link[s]]
             /\ server' = "accept"
             /\ UNCHANGED <<camVars, served, clientVars>>

----------------------------------------------------------------------------
\* The client.  Every handler runs to its end in the Qt event loop.

\* A connection is established in the backlog of the listening socket, whatever
\* the server is busy with; listen(1) has room for two.  Or connectToHost fails,
\* and the client goes on as if it had not.
Connect(s) == /\ link[s] = "unused"
              /\ \A r \in 1..(s - 1) : link[r] # "unused"
              /\ socket' = s
              /\ \/ /\ Cardinality(Waiting) < 2
                    /\ link' = [link EXCEPT ![s] = "backlog"]
                 \/ link' = [link EXCEPT ![s] = "closed"]

\* startStreaming with the text "Connexion"; start() listens, or listens already.
StartStreaming == /\ button = "Connexion"
                  /\ \E s \in Sessions : Connect(s)
                  /\ listening' = TRUE
                  /\ button' = "Deconnexion"
                  /\ UNCHANGED <<camVars, pipe, serverVars, wire, cipherVars, restarts,
                                 viewer, shown, lost>>

\* The link of the client's session when the client closes its socket.
Left == IF socket = 0 THEN link
        ELSE [link EXCEPT ![socket] = CASE @ = "open"    -> "left"
                                        [] @ = "backlog" -> "left backlog"
                                        [] @ = "dropped" -> "closed"
                                        [] OTHER         -> @]

\* What is under way to a client that closes its socket is lost.
InSession == socket # 0 /\ link[socket] = "open"

\* Mutant of StopStreaming: the button changes, the socket stays connected.
StopStreamingButtonOnly == /\ button = "Deconnexion"
                           /\ button' = "Connexion"
                           /\ UNCHANGED <<camVars, pipe, serverVars, netVars, socket,
                                          cipherVars, restarts, viewVars, lost>>

\* startStreaming with the text "Deconnexion".  disconnectFromHost of a socket
\* with nothing to write closes it, and disconnected() runs, before it returns.
StopStreaming == /\ button = "Deconnexion"
                 /\ link' = Left
                 /\ IF InSession THEN lost' = lost \cup Positions(wire) /\ wire' = <<>>
                                 ELSE UNCHANGED <<lost, wire>>
                 /\ button' = "Connexion"
                 /\ UNCHANGED <<camVars, pipe, serverVars, socket, cipherVars, restarts,
                                viewVars>>

\* The slot disconnected() after the server dropped the connection.  When the client
\* is the first to find the network broken the slot does what StopStreaming does.
Disconnected == /\ socket # 0
                /\ link[socket] = "dropped"
                /\ link' = [link EXCEPT ![socket] = "closed"]
                /\ button' = "Connexion"
                /\ UNCHANGED <<camVars, pipe, serverVars, wire, socket, cipherVars,
                               restarts, viewVars, lost>>

\* sendData: as long as the buffer holds a block, decrypt it, and write it when a
\* viewer is connected.
\* Mutants of Blocks: "if" instead of "while"; ">" instead of ">=".
BlocksOnce(chars) == IF Len(chars) >= BlockSize THEN 1 ELSE 0

BlocksStrict(chars) == (Len(chars) - 1) \div BlockSize

Blocks(chars) == Len(chars) \div BlockSize

\* VectorSize key characters per vector, LENVECTOR(BlockSize) vectors per block.
Decrypt(chars, vectors) ==
  [n \in 1..(BlockSize * Blocks(chars)) |->
     LET block == (n - 1) \div BlockSize
         first == VectorSize * (vectors + LENVECTOR(BlockSize) * block)
     IN <<chars[n][1], chars[n][2], first + ((n - 1) % BlockSize) + 1>>]

\* Mutants of SendData: what is decrypted stays in the buffer; nothing is decrypted
\* while there is no viewer.
SendDataNoRemove(chars) ==
  LET all == buffer \o chars IN
  /\ buffer' = all
  /\ decVectors' = decVectors + LENVECTOR(BlockSize) * Blocks(all)
  /\ shown' = IF viewer THEN shown \o Decrypt(all, decVectors) ELSE shown

SendDataForViewer(chars) ==
  LET all == buffer \o chars IN
  /\ buffer' = SubSeq(all, BlockSize * Blocks(all) + 1, Len(all))
  /\ decVectors' = IF viewer THEN decVectors + LENVECTOR(BlockSize) * Blocks(all)
                   ELSE decVectors
  /\ shown' = IF viewer THEN shown \o Decrypt(all, decVectors) ELSE shown

SendData(chars) ==
  LET all == buffer \o chars IN
  /\ buffer' = SubSeq(all, BlockSize * Blocks(all) + 1, Len(all))
  /\ decVectors' = decVectors + LENVECTOR(BlockSize) * Blocks(all)
  /\ shown' = IF viewer THEN shown \o Decrypt(all, decVectors) ELSE shown

\* readyRead: readAll hands over what has arrived, and sendData runs on it.
ReadyRead == /\ socket # 0
             /\ socket = served
             /\ link[socket] = "open"
             /\ \E n \in 1..Len(wire) : /\ SendData(SubSeq(wire, 1, n))
                                        /\ wire' = SubSeq(wire, n + 1, Len(wire))
             /\ UNCHANGED <<camVars, pipe, serverVars, link, button, socket, restarts,
                            listening, viewer, lost>>

\* clientConnect: a viewer connects.  Its socket is closed when it goes.
ViewerConnects == /\ listening
                  /\ ~viewer
                  /\ viewer' = TRUE
                  /\ UNCHANGED <<camVars, pipe, serverVars, netVars, button, socket,
                                 cipherVars, restarts, listening, shown, lost>>

ViewerLeaves == /\ viewer
                /\ viewer' = FALSE
                /\ UNCHANGED <<camVars, pipe, serverVars, netVars, button, socket,
                               cipherVars, restarts, listening, shown, lost>>

\* The client program ends and is started again: a new Trivium, an empty buffer.
\* All the new program has missed is lost to it.
Restart == /\ restarts < MaxRestarts
           /\ restarts' = restarts + 1
           /\ link' = Left
           /\ wire' = <<>>
           /\ lost' = 1..(taken - Len(pipe))
           /\ button' = "Connexion"
           /\ socket' = 0
           /\ buffer' = <<>>
           /\ decVectors' = 0
           /\ listening' = FALSE
           /\ viewer' = FALSE
           /\ shown' = <<>>
           /\ UNCHANGED <<camVars, pipe, serverVars>>

----------------------------------------------------------------------------
Encryption == EncryptBlock \/ EncryptLast

Next == \/ Encryption \/ EncryptShort
        \/ Accept \/ SendLine \/ SendUnnoticed \/ SendFails
        \/ StartStreaming \/ StopStreaming \/ Disconnected \/ ReadyRead
        \/ ViewerConnects \/ ViewerLeaves \/ Restart

Spec == Init /\ [][Next]_vars

----------------------------------------------------------------------------
Plain     == 1..VideoLength
Encrypted == Plain \X Nat

TypeOK == /\ encryption \in {"running", "ended"}
          /\ taken \in 0..VideoLength
          /\ {encVectors, decVectors, shortReads, restarts} \subseteq Nat
          /\ lost \subseteq 1..taken
          /\ \A n \in DOMAIN pipe : pipe[n] \in Encrypted
          /\ \A n \in DOMAIN wire : wire[n] \in Encrypted
          /\ \A n \in DOMAIN buffer : buffer[n] \in Encrypted
          /\ Len(buffer) < BlockSize
          /\ \A n \in DOMAIN shown : shown[n] \in Plain \X Nat \X Nat
          /\ server \in {"accept", "serve"}
          /\ {served, socket} \subseteq Sessions \cup {0}
          /\ link \in [Sessions -> {"unused", "backlog", "left backlog", "open", "left",
                                    "dropped", "closed"}]
          /\ button \in {"Connexion", "Deconnexion"}
          /\ {listening, viewer} \subseteq BOOLEAN

\* Every character the camera's encryption wrote is in the pipe, on the wire, in
\* the client's buffer, decrypted, or lost; and what is on the way is in order:
\* over any sequence of connections nothing is duplicated or overtaken.
OnTheWay == buffer \o wire \o pipe

NothingDuplicated ==
  /\ taken = Cardinality(lost) + VectorSize * decVectors + Len(OnTheWay)
  /\ \A n \in 1..(Len(OnTheWay) - 1) : OnTheWay[n][1] < OnTheWay[n + 1][1]

Readable(c) == c[2] = c[3]

LossBefore(c) == \E p \in lost : p < c[1]

\* As long as nothing is lost and encryption reads full blocks the viewer sees
\* the video: each character decrypted with the key character it was encrypted
\* with, whatever way lines, the network and readyRead cut the stream up, and
\* whenever the viewer comes and goes.
SeesTheVideo == shortReads = 0 =>
                  \A n \in DOMAIN shown : LossBefore(shown[n]) \/ Readable(shown[n])

\* Behind a lost character the client never finds its place in the key stream
\* again: everything after the gap is unreadable, on this and on every later
\* connection (nothing resets the Trivium objects or marks a position).
LossIsForever == \A n \in DOMAIN shown : LossBefore(shown[n]) => ~Readable(shown[n])

\* The button tells whether the client has a connection to lose: with the text
\* "Connexion", on which connect() replaces the socket, no session is alive, so a
\* live one is never left behind with its signals still connected.
NoSessionLeftBehind == \A s \in Sessions : link[s] \in {"backlog", "open"} =>
                          s = socket /\ button = "Deconnexion"

\* A client that stays connected, and that has decrypted all but the last
\* characters, which do not fill a block.
StaysConnected == server = "serve" /\ link[served] = "open"

AllDecrypted == pipe = <<>> /\ wire = <<>> /\ Len(buffer) < BlockSize

\* pi-server-socket.py 20: "Receive the data in small chunks and retransmit it".
\* A line taken from stdin is sent, or send has at least not failed.
RetransmitsEveryLine == [][Len(pipe') < Len(pipe) => \/ Len(wire') > Len(wire)
                                                     \/ server' = "serve"]_vars
=============================================================================
