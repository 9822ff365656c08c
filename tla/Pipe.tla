-------------------------------- MODULE Pipe --------------------------------
(***************************************************************************)
(* What a tunnel promises to the two ends it joins: two byte pipes that    *)
(* are independent of each other.  An end may close the pipe it writes to  *)
(* and keep reading the other one.  While both ends are there, the reader  *)
(* of a pipe sees its end only after the writer closed it and every byte   *)
(* has arrived.  When an end has left, a pipe may stop early.              *)
(***************************************************************************)
EXTENDS Naturals

CONSTANT MaxBytes       \* bound: bytes written to each pipe

Dirs == {"up", "down"}              \* client to server, server to client
Ends == {"client", "server"}
Writer(d) == IF d = "up" THEN "client" ELSE "server"
Reader(d) == IF d = "up" THEN "server" ELSE "client"

VARIABLES sent,     \* bytes written to each pipe
          closed,   \* the writer has closed the pipe
          gone,     \* the ends that have left
          got,      \* bytes read from each pipe
          eof       \* the reader has seen the end of the pipe

vars == <<sent, closed, gone, got, eof>>

Init == /\ sent = [d \in Dirs |-> 0] /\ got = [d \in Dirs |-> 0]
        /\ closed = [d \in Dirs |-> FALSE] /\ eof = [d \in Dirs |-> FALSE]
        /\ gone = {}

Send(d) == /\ ~closed[d] /\ sent[d] < MaxBytes
           /\ sent' = [sent EXCEPT ![d] = @ + 1]
           /\ UNCHANGED <<closed, gone, got, eof>>

Close(d) == /\ ~closed[d]
            /\ closed' = [closed EXCEPT ![d] = TRUE]
            /\ UNCHANGED <<sent, gone, got, eof>>

\* An end closes its socket for both directions, or is cut off.
Leave(e) == /\ gone' = gone \cup {e}
            /\ closed' = [d \in Dirs |-> closed[d] \/ Writer(d) = e]
            /\ UNCHANGED <<sent, got, eof>>

Deliver(d) == /\ ~eof[d] /\ got[d] < sent[d]
              /\ got' = [got EXCEPT ![d] = @ + 1]
              /\ UNCHANGED <<sent, closed, gone, eof>>

End(d) == /\ ~eof[d]
          /\ (closed[d] /\ got[d] = sent[d]) \/ gone # {}
          /\ eof' = [eof EXCEPT ![d] = TRUE]
          /\ UNCHANGED <<sent, closed, gone, got>>

Next == \/ \E d \in Dirs : Send(d) \/ Close(d) \/ Deliver(d) \/ End(d)
        \/ \E e \in Ends : Leave(e)

Spec == Init /\ [][Next]_vars
=============================================================================
