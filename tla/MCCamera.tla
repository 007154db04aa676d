------------------------------ MODULE MCCamera ------------------------------
(***************************************************************************)
(* CameraStream with a camera that stops and, in other behaviours, with    *)
(* one that goes on for ever.  To keep the state space finite the latter   *)
(* counts the positions in the video anew whenever nothing is on the way:  *)
(* the actions of pi-server-socket.py and of the connections do not depend *)
(* on them.                                                                *)
(***************************************************************************)
EXTENDS CameraStream

VARIABLE forever \* whether the camera goes on for ever; never changes

mcVars == <<vars, forever>>

MCInit == Init /\ forever \in BOOLEAN

\* With a camera that stops.
Once(A) == A /\ ~forever /\ UNCHANGED forever

\* With one that goes on.
Ever(A) == A /\ forever /\ UNCHANGED forever

CountAnew == /\ pipe = <<>> /\ wire = <<>>
             /\ taken > 0
             /\ taken' = 0
             /\ encVectors' = 0
             /\ buffer' = <<>>
             /\ decVectors' = 0
             /\ shown' = <<>>
             /\ lost' = {}
             /\ UNCHANGED <<encryption, shortReads, pipe, serverVars, netVars, button,
                            socket, restarts, listening, viewer>>

ForeverNext == \/ EncryptBlock \/ CountAnew
               \/ Accept \/ SendLine \/ SendUnnoticed \/ SendFails
               \/ StartStreaming \/ StopStreaming \/ Disconnected \/ ReadyRead
               \/ Restart

MCNext == Once(Next) \/ Ever(ForeverNext)

\* The three programs and TCP keep going, and a send to a client that has gone
\* does not succeed for ever.  The network may break and need not, and nobody has
\* to press a button or to watch.
MCSpec == /\ MCInit /\ [][MCNext]_mcVars
          /\ WF_mcVars(Once(Encryption))
          /\ WF_mcVars(Ever(EncryptBlock))
          /\ WF_mcVars(Ever(CountAnew))
          /\ WF_mcVars(Accept /\ UNCHANGED forever)
          /\ WF_mcVars(SendLine /\ UNCHANGED forever)
          /\ SF_mcVars(server = "serve" /\ link[served] = "left" /\ SendFails /\ UNCHANGED forever)
          /\ WF_mcVars(ReadyRead /\ UNCHANGED forever)

\* A client that leaves is noticed, and the server accepts the next one, as long
\* as the camera goes on (a send has to fail; with no more lines it never does).
ServesAgain ==
  (forever /\ server = "serve" /\ link[served] = "left") ~> (server = "accept")

\* A client that stays connected gets all that is left of a video that ends, and
\* decrypts it but for the last characters, which do not fill a block.
VideoArrives == <>[](StaysConnected /\ ~forever) => <>[]AllDecrypted
=============================================================================
