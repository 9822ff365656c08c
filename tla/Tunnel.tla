------------------------------- MODULE Tunnel -------------------------------
(***************************************************************************)
(* proxyTunnel and proxyRawConnection of cmd/proxy/http.go: two goroutines *)
(* copy between the client's and the server's connection, one for each     *)
(* direction, and the caller waits for both.  Bytes are counted, not told  *)
(* apart; what bufio had read ahead counts as received.  Sockets are       *)
(* modelled from their use: a connection hands over its bytes in order, a  *)
(* read or a write may fail once the end on that side has left.            *)
(***************************************************************************)
EXTENDS Naturals, FiniteSets

CONSTANTS MaxBytes,     \* bound: bytes written by each end
          Window        \* bytes a socket takes before a write blocks

ASSUME TunnelAssumption == MaxBytes \in Nat /\ Window \in Nat \ {0}

Dirs == {"up", "down"}
Ends == {"client", "server"}
Writer(d) == IF d = "up" THEN "client" ELSE "server"
Reader(d) == IF d = "up" THEN "server" ELSE "client"

VARIABLES sent, closed, gone, got, eof,     \* as in Pipe
          in,       \* bytes received and not read by the goroutine
          held,     \* bytes io.Copy has read and not written yet
          out,      \* bytes written towards the reader and not read there
          pc,       \* the goroutine of a direction: "copy", "shut", "told"
          failed,   \* it reported an error on errC
          fin,      \* CloseWrite was called on its destination
          main      \* proxyTunnel: "wait", or "done" once it returned

ends == <<sent, closed, gone, got, eof>>
vars == <<sent, closed, gone, got, eof, in, held, out, pc, failed, fin, main>>

TypeOK == /\ sent \in [Dirs -> Nat] /\ got \in [Dirs -> Nat]
          /\ in \in [Dirs -> Nat] /\ held \in [Dirs -> 0..1] /\ out \in [Dirs -> Nat]
          /\ closed \in [Dirs -> BOOLEAN] /\ eof \in [Dirs -> BOOLEAN]
          /\ failed \in [Dirs -> BOOLEAN] /\ fin \in [Dirs -> BOOLEAN]
          /\ gone \in SUBSET Ends
          /\ pc \in [Dirs -> {"copy", "shut", "told"}] /\ main \in {"wait", "done"}

Init == /\ sent = [d \in Dirs |-> 0] /\ got = [d \in Dirs |-> 0]
        /\ closed = [d \in Dirs |-> FALSE] /\ eof = [d \in Dirs |-> FALSE]
        /\ gone = {}
        /\ in = [d \in Dirs |-> 0] /\ held = [d \in Dirs |-> 0] /\ out = [d \in Dirs |-> 0]
        /\ pc = [d \in Dirs |-> "copy"] /\ failed = [d \in Dirs |-> FALSE]
        /\ fin = [d \in Dirs |-> FALSE] /\ main = "wait"

----------------------------------------------------------------------------
(* The two ends.                                                           *)

Send(d) == /\ ~closed[d] /\ sent[d] < MaxBytes
           /\ sent' = [sent EXCEPT ![d] = @ + 1] /\ in' = [in EXCEPT ![d] = @ + 1]
           /\ UNCHANGED <<closed, gone, got, eof, held, out, pc, failed, fin, main>>

Close(d) == /\ ~closed[d]
            /\ closed' = [closed EXCEPT ![d] = TRUE]
            /\ UNCHANGED <<sent, gone, got, eof, in, held, out, pc, failed, fin, main>>

Leave(e) == /\ e \notin gone
            /\ gone' = gone \cup {e}
            /\ closed' = [d \in Dirs |-> closed[d] \/ Writer(d) = e]
            /\ UNCHANGED <<sent, got, eof, in, held, out, pc, failed, fin, main>>

Deliver(d) == /\ out[d] > 0 /\ Reader(d) \notin gone
              /\ out' = [out EXCEPT ![d] = @ - 1] /\ got' = [got EXCEPT ![d] = @ + 1]
              /\ UNCHANGED <<sent, closed, gone, eof, in, held, pc, failed, fin, main>>

End(d) == /\ fin[d] /\ out[d] = 0 /\ ~eof[d] /\ Reader(d) \notin gone
          /\ eof' = [eof EXCEPT ![d] = TRUE]
          /\ UNCHANGED <<sent, closed, gone, got, in, held, out, pc, failed, fin, main>>

----------------------------------------------------------------------------
(* copyPipe(dst, src), one instance for each direction.                    *)

\* io.Copy reads.
CopyRead(d) == /\ pc[d] = "copy" /\ held[d] = 0 /\ in[d] > 0
               /\ in' = [in EXCEPT ![d] = @ - 1] /\ held' = [held EXCEPT ![d] = 1]
               /\ UNCHANGED <<ends, out, pc, failed, fin, main>>

\* io.Copy writes; the socket takes the byte even when the reader has left.
CopyWrite(d) == /\ pc[d] = "copy" /\ held[d] = 1 /\ out[d] < Window
                /\ held' = [held EXCEPT ![d] = 0] /\ out' = [out EXCEPT ![d] = @ + 1]
                /\ UNCHANGED <<ends, in, pc, failed, fin, main>>

\* io.Copy returns nil at the end of src.
CopyEOF(d) == /\ pc[d] = "copy" /\ held[d] = 0 /\ in[d] = 0 /\ closed[d]
              /\ pc' = [pc EXCEPT ![d] = "shut"]
              /\ UNCHANGED <<ends, in, held, out, failed, fin, main>>

\* Fault: a failed write is tried again.
CopyFailsOnRead(d) == /\ pc[d] = "copy" /\ held[d] = 0 /\ Writer(d) \in gone
                      /\ pc' = [pc EXCEPT ![d] = "shut"] /\ failed' = [failed EXCEPT ![d] = TRUE]
                      /\ UNCHANGED <<ends, in, held, out, fin, main>>

\* io.Copy returns an error: a read of an end that has left, or a write to one.
CopyFails(d) == /\ pc[d] = "copy"
                /\ IF held[d] = 0 THEN Writer(d) \in gone ELSE Reader(d) \in gone
                /\ pc' = [pc EXCEPT ![d] = "shut"] /\ failed' = [failed EXCEPT ![d] = TRUE]
                /\ UNCHANGED <<ends, in, held, out, fin, main>>

\* Fault: both sides are closed as soon as one direction ends.
CopyShutBoth(d) == /\ pc[d] = "shut"
                   /\ fin' = [x \in Dirs |-> TRUE] /\ pc' = [pc EXCEPT ![d] = "told"]
                   /\ UNCHANGED <<ends, in, held, out, failed, main>>

\* Fault: the write side is left open for proxyTunnel's caller to close.
CopyShutNothing(d) == /\ pc[d] = "shut"
                      /\ pc' = [pc EXCEPT ![d] = "told"]
                      /\ UNCHANGED <<ends, in, held, out, failed, fin, main>>

\* closeTunnelWrite(dst), closeTunnelRead(src), and the message on errC.
CopyShut(d) == /\ pc[d] = "shut"
               /\ fin' = [fin EXCEPT ![d] = TRUE] /\ pc' = [pc EXCEPT ![d] = "told"]
               /\ UNCHANGED <<ends, in, held, out, failed, main>>

\* Both messages have come: upstream.Close, and downstream.Close on an error.
Return == /\ main = "wait" /\ \A d \in Dirs : pc[d] = "told"
          /\ main' = "done"
          /\ UNCHANGED <<ends, in, held, out, pc, failed, fin>>

----------------------------------------------------------------------------
Copy(d) == CopyRead(d) \/ CopyWrite(d) \/ CopyEOF(d) \/ CopyFails(d) \/ CopyShut(d)

Next == \/ \E d \in Dirs : Send(d) \/ Close(d) \/ Deliver(d) \/ End(d)
        \/ \E d \in Dirs : CopyRead(d) \/ CopyWrite(d) \/ CopyEOF(d) \/ CopyFails(d) \/ CopyShut(d)
        \/ \E e \in Ends : Leave(e)
        \/ Return

Spec == Init /\ [][Next]_vars

\* The goroutines are scheduled, and an end that is there reads.
Fairness == /\ WF_vars(Return)
            /\ \A d \in Dirs : WF_vars(Copy(d)) /\ WF_vars(Deliver(d)) /\ WF_vars(End(d))

LiveSpec == Spec /\ Fairness

----------------------------------------------------------------------------
(* Properties.                                                             *)

P == INSTANCE Pipe

\* The two goroutines with their partial failures implement two independent
\* pipes: half-close is preserved and no reader mistakes a lost byte for the
\* end of the stream while both ends are there.
ImplementsPipe == P!Spec

\* A byte is received, held, on its way or delivered, until an end leaves.
Conserved(d) == sent[d] = in[d] + held[d] + out[d] + got[d]

\* The inductive invariant behind ImplementsPipe.
TunnelInv == /\ TypeOK
             /\ \A d \in Dirs :
                   /\ Conserved(d)
                   /\ pc[d] \in {"shut", "told"} =>
                         (gone # {} \/ (closed[d] /\ in[d] = 0 /\ held[d] = 0))
                   /\ fin[d] => pc[d] = "told"
                   /\ eof[d] => (fin[d] /\ out[d] = 0)

\* A half-close reaches the other end while both ends are there.
HalfCloseIsRelayed ==
    \A d \in Dirs : closed[d] ~> (eof[d] \/ gone # {})

\* Once both ends have closed or left, proxyTunnel returns and frees both
\* connections, whichever calls fail on the way.
TunnelEnds == (\A d \in Dirs : closed[d]) ~> (main = "done")
=============================================================================
