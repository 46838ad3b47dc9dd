------------------------------- MODULE SockIo -------------------------------
(***************************************************************************)
(* The sockets of the library, utils/src/unix/sock.c: one operation at a   *)
(* time, on a non-blocking socket, that takes as many system calls as it   *)
(* needs and waits between them until one deadline.  The peer's bytes come *)
(* in pieces; it may stop at any of them or hang up.                       *)
(***************************************************************************)
EXTENDS Integers, SequencesExt

CONSTANT MaxAddresses                     \* addresses that a name resolves to

VARIABLES
  fds,       \* sockets that are open
  io,        \* the operation: [op, st, data (to write), want, got (read), waiting]
  net,       \* the connection: [sent (not read by the peer), coming, here, ended]
  late       \* the deadline has passed

ioVars == <<fds, io, net, late>>

NoIo == [op |-> "none", st |-> "OK", data |-> <<>>, want |-> 0, got |-> <<>>, waiting |-> FALSE]
Quiet == [sent |-> <<>>, coming |-> <<>>, here |-> <<>>, ended |-> FALSE]
IoInit == fds = 0 /\ io = NoIo /\ net = Quiet /\ late = FALSE

Begin(op, data, want) == [NoIo EXCEPT !.op = op, !.st = "pending", !.data = data, !.want = want]
Doing(op) == io.op = op /\ io.st = "pending" /\ ~io.waiting
Waiting == io.st = "pending" /\ io.waiting
Ends(st) == io' = [io EXCEPT !.st = st, !.waiting = FALSE]

Tick == ~late /\ io # NoIo /\ late' = TRUE /\ UNCHANGED <<fds, io, net>>

-----------------------------------------------------------------------------
(* natsSys_SockConnect: the addresses of the name, one after the other.    *)

ResolveFails == Doing("resolve") /\ Ends("NO_SERVER") /\ UNCHANGED <<fds, net, late>>
Resolve ==
  /\ Doing("resolve") /\ UNCHANGED <<fds, net, late>>
  /\ \E n \in 1..MaxAddresses : io' = Begin("connect", <<>>, n)

\* More time is not worth trying, another address is.
AddressFails(st) ==
  io' = IF st = "TIMEOUT" \/ io.want = 1 THEN [io EXCEPT !.st = st, !.waiting = FALSE]
        ELSE Begin("connect", <<>>, io.want - 1)

NoSocket == Doing("connect") /\ AddressFails("SYS_ERROR") /\ UNCHANGED <<fds, net, late>>
\* The socket is made and closed again: its options cannot be set, or it is refused.
OptionsFail == Doing("connect") /\ AddressFails("SYS_ERROR") /\ UNCHANGED <<fds, net, late>>
ConnectFails == Doing("connect") /\ AddressFails("NO_SERVER") /\ UNCHANGED <<fds, net, late>>
Connects == Doing("connect") /\ Ends("OK") /\ fds' = fds + 1 /\ UNCHANGED <<net, late>>
InProgress ==
  /\ Doing("connect") /\ UNCHANGED <<net, late>>
  /\ IF late THEN AddressFails("TIMEOUT") /\ fds' = fds
     ELSE io' = [io EXCEPT !.waiting = TRUE] /\ fds' = fds + 1
ConnectEnds ==
  /\ Waiting /\ io.op = "connect" /\ UNCHANGED <<net, late>>
  /\ \/ Ends("OK") /\ fds' = fds
     \/ \E st \in {"NO_SERVER", "SYS_ERROR", "IO_ERROR"} : AddressFails(st) /\ fds' = fds - 1

Resolving == ResolveFails \/ Resolve
Connecting ==
  NoSocket \/ OptionsFail \/ ConnectFails \/ Connects \/ InProgress

-----------------------------------------------------------------------------
(* natsSys_SockWrite, natsSys_SockRead: any number of bytes at a time.     *)

Send ==
  /\ Doing("write") /\ UNCHANGED <<fds, late>>
  /\ \E n \in 1..Len(io.data) :
       /\ net' = [net EXCEPT !.sent = @ \o SubSeq(io.data, 1, n)]
       /\ io' = [io EXCEPT !.data = SubSeq(@, n + 1, Len(@)), !.st = IF n = Len(io.data) THEN "OK" ELSE @]
Recv ==
  /\ Doing("read") /\ UNCHANGED <<fds, late>>
  /\ \E n \in 1..Min({io.want, Len(net.here)}) :
       /\ net' = [net EXCEPT !.here = SubSeq(@, n + 1, Len(@))]
       /\ io' = [io EXCEPT !.got = @ \o SubSeq(net.here, 1, n), !.want = @ - n,
                           !.st = IF n = io.want THEN "OK" ELSE @]

NothingHere == net.here = <<>>
PeerClosed == net.ended /\ net.coming = <<>> /\ NothingHere
ConnectionClosed ==
  /\ \/ Doing("write") /\ net.ended
     \/ Doing("read") /\ PeerClosed
  /\ Ends("CONNECTION_CLOSED") /\ UNCHANGED <<fds, net, late>>
\* A call or the wait for the socket fails otherwise.
IoFails ==
  /\ io.st = "pending" /\ io.op \in {"write", "read"}
  /\ Ends("IO_ERROR") /\ UNCHANGED <<fds, net, late>>

\* EAGAIN: the wait is not begun when the deadline has passed.
WouldBlock ==
  /\ \/ Doing("write")
     \/ Doing("read") /\ NothingHere /\ ~PeerClosed
  /\ IF late THEN Ends("TIMEOUT") ELSE io' = [io EXCEPT !.waiting = TRUE]
  /\ UNCHANGED <<fds, net, late>>
Ready ==
  /\ Waiting
  /\ \/ io.op = "write"
     \/ io.op = "read" /\ (~NothingHere \/ PeerClosed)
  /\ io' = [io EXCEPT !.waiting = FALSE] /\ UNCHANGED <<fds, net, late>>

\* Fault: poll has no timeout.
NeverGivesUp == FALSE

\* _waitReady gives up at the deadline.
GivesUp == late
TimesOut ==
  /\ Waiting /\ GivesUp /\ UNCHANGED <<net, late>>
  /\ IF io.op = "connect" THEN AddressFails("TIMEOUT") /\ fds' = fds - 1
     ELSE Ends("TIMEOUT") /\ fds' = fds

Transfers == Send \/ Recv \/ ConnectionClosed \/ WouldBlock \/ Ready \/ TimesOut
IoStep == Resolving \/ Connecting \/ Transfers

\* What nobody can count on.
IoSurprise == ConnectEnds \/ IoFails

-----------------------------------------------------------------------------
(* The network: a byte arrives after the other.                            *)
Arrive ==
  /\ net.coming # <<>> /\ UNCHANGED <<fds, io, late>>
  /\ net' = [net EXCEPT !.here = Append(@, Head(net.coming)), !.coming = Tail(@)]
=============================================================================
