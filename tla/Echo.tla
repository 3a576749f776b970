-------------------------------- MODULE Echo --------------------------------
(***************************************************************************)
(* The echo server of socket.cpp: one process, which serves one connection *)
(* after the other; it accepts, looks up the name of the client, reads     *)
(* once, writes what it read up to the first zero byte, and closes.  Any   *)
(* call that fails ends the program.  Clients connect, send and hang up in *)
(* between as they please.                                                 *)
(*                                                                         *)
(* The kernel's part is modelled by what the calls return.  A read returns *)
(* some of the bytes that were sent, as the others may not have arrived.   *)
(* A connection that was reset fails at the next read or write.            *)
(*                                                                         *)
(* A message may fill the buffer, and then strlen reads beyond it: bytes   *)
(* of whatever lies there are sent too, or the program ends.               *)
(***************************************************************************)
EXTENDS Naturals, Sequences

CONSTANTS
  Clients,
  Bytes,      (* the bytes, but for the zero byte                          *)
  Nul,
  None,       (* no client                                                 *)
  BufSize,    (* BUFSIZE                                                   *)
  QueueSize,  (* what llisten is called with                               *)
  MaxSent,    (* bound: bytes that a client sends                          *)
  MaxBeyond   (* bound: bytes before the first zero byte behind the buffer *)

ASSUME EchoAssumption ==
  /\ None \notin Clients /\ Nul \notin Bytes
  /\ BufSize \in Nat /\ QueueSize \in Nat /\ MaxSent \in Nat /\ MaxBeyond \in Nat

VARIABLES
  pc,      (* the call the server is about to make; it has ended if "dead"  *)
  child,   (* the client of the connection that is served                   *)
  buf,
  queue,   (* connections that wait to be accepted                          *)
  client,  (* what each client has done with its connection                 *)
  sent,    (* the bytes it has sent                                         *)
  taken,   (* how many of them the server has read                          *)
  got,     (* the bytes that came back                                      *)
  served   (* the clients whose connections the server has closed           *)

clientVars == <<client, sent>>
vars == <<pc, child, buf, queue, client, sent, taken, got, served>>

Zeroes == [i \in 1..BufSize |-> Nul]

(* socket, bind and listen have succeeded. *)
Init ==
  /\ pc = "accept" /\ child = None
  /\ buf = Zeroes
  /\ queue = <<>>
  /\ client = [c \in Clients |-> "new"]
  /\ sent   = [c \in Clients |-> <<>>]
  /\ taken  = [c \in Clients |-> 0]
  /\ got    = [c \in Clients |-> <<>>]
  /\ served = {}
-----------------------------------------------------------------------------
Connect(c) ==
  /\ pc # "dead" /\ client[c] = "new" /\ Len(queue) < QueueSize
  /\ client' = [client EXCEPT ![c] = "open"]
  /\ queue'  = Append(queue, c)
  /\ UNCHANGED <<pc, child, buf, sent, taken, got, served>>

Send(c, b) ==
  /\ client[c] = "open" /\ c \notin served
  /\ Len(sent[c]) < MaxSent
  /\ sent' = [sent EXCEPT ![c] = Append(@, b)]
  /\ UNCHANGED <<pc, child, buf, queue, client, taken, got, served>>

(* A client closes its connection, or resets it. *)
HangUp(c, how) ==
  /\ client[c] = "open" \/ (client[c] = "closed" /\ how = "reset")
  /\ client' = [client EXCEPT ![c] = how]
  /\ UNCHANGED <<pc, child, buf, queue, sent, taken, got, served>>
-----------------------------------------------------------------------------
Accept ==
  /\ pc = "accept" /\ queue # <<>>
  /\ child' = Head(queue)
  /\ queue' = Tail(queue)
  /\ pc' = "lookup"
  /\ UNCHANGED <<buf, clientVars, taken, got, served>>

(* accept may fail at any time, with a client in the queue or without.      *)
AcceptFails ==
  /\ pc = "accept"
  /\ pc' = "dead"
  /\ UNCHANGED <<child, buf, queue, clientVars, taken, got, served>>

(* gethostbyaddr may fail, for one because the address has no name.         *)
Lookup ==
  /\ pc = "lookup"
  /\ pc' \in {"read", "dead"}
  /\ UNCHANGED <<child, buf, queue, clientVars, taken, got, served>>

(* Fault: the buffer is not cleared by bzero. *)
Filled_dirty(n) == [i \in 1..BufSize |-> IF i <= n THEN sent[child][i] ELSE buf[i]]

(* What the first bytes that were sent, n of them, make of the buffer.      *)
Filled(n) == [i \in 1..BufSize |-> IF i <= n THEN sent[child][i] ELSE Nul]

(* Fault: the server tries again when it has read nothing. *)
Readable_some(n) == n \in 1..Len(sent[child])

(* The results of read: some bytes, or none at the end of the stream.       *)
Readable(n) ==
  \/ n \in 1..Len(sent[child])
  \/ n = 0 /\ client[child] = "closed" /\ sent[child] = <<>>

Read ==
  /\ pc = "read"
  /\ \/ /\ client[child] # "reset"
        /\ \E n \in 0..BufSize :
             /\ Readable(n)
             /\ buf'   = Filled(n)
             /\ taken' = [taken EXCEPT ![child] = n]
        /\ pc' = "write"
     \/ /\ client[child] = "reset"
        /\ pc' = "dead"
        /\ UNCHANGED <<buf, taken>>
  /\ UNCHANGED <<child, queue, clientVars, got, served>>

(* Fault: the whole buffer is written. *)
StrLen_full(n) == n = BufSize

(* n = strlen(buf), as far as the buffer goes                               *)
StrLen(n) == (\A i \in 1..n : buf[i] # Nul) /\ (n < BufSize => buf[n + 1] = Nul)

(* What strlen and write find behind a buffer without a zero byte. *)
Beyond(n) == IF n < BufSize THEN {<<>>}
             ELSE UNION {[1..k -> Bytes] : k \in 0..MaxBeyond}

Write ==
  /\ pc = "write"
  /\ \/ /\ client[child] # "reset"
        /\ \E n \in 0..BufSize : \E more \in Beyond(n) :
             StrLen(n) /\ got' = [got EXCEPT ![child] = SubSeq(buf, 1, n) \o more]
        /\ pc' = "close"
     \/ /\ client[child] = "reset" \/ StrLen(BufSize)
        /\ pc' = "dead"
        /\ UNCHANGED got
  /\ UNCHANGED <<child, buf, queue, clientVars, taken, served>>

Close ==
  /\ pc = "close"
  /\ served' = served \cup {child}
  /\ child'  = None
  /\ pc' = "accept"
  /\ UNCHANGED <<buf, queue, clientVars, taken, got>>

Server == Accept \/ Lookup \/ Read \/ Write \/ Close

Next ==
  \/ Server
  \/ AcceptFails
  \/ \E c \in Clients :
       \/ Connect(c)
       \/ \E b \in Bytes \cup {Nul} : Send(c, b)
       \/ \E how \in {"closed", "reset"} : HangUp(c, how)

(* The server runs; clients do what they like, and accept need not fail. *)
Spec == Init /\ [][Next]_vars /\ WF_vars(Server)
-----------------------------------------------------------------------------
(* The types.  What comes back has no zero bytes.                           *)
TypeOK ==
  /\ pc \in {"accept", "lookup", "read", "write", "close", "dead"}
  /\ child \in Clients \cup {None}
  /\ buf \in [1..BufSize -> Bytes \cup {Nul}]
  /\ queue \in Seq(Clients)
  /\ client \in [Clients -> {"new", "open", "closed", "reset"}]
  /\ sent \in [Clients -> Seq(Bytes \cup {Nul})]
  /\ taken \in [Clients -> Nat]
  /\ got \in [Clients -> Seq(Bytes)]
  /\ served \subseteq Clients

(* Clients whose first bytes, without a zero byte, filled the buffer. *)
Fills(c) == taken[c] = BufSize /\ \A i \in 1..BufSize : sent[c][i] # Nul

(* Every client gets its own bytes, those it sent first, and nothing that   *)
(* an earlier client left in the buffer; and if its connection is closed by *)
(* the server, all that was read of them up to a zero byte.  Only who fills *)
(* the buffer may get other bytes behind them.  (The loop of main in        *)
(* socket.cpp, "echo input line, then close connection".)                   *)
Echoed ==
  \A c \in Clients :
    LET n == Len(got[c])
    IN  /\ taken[c] <= Len(sent[c])
        /\ n <= taken[c] \/ Fills(c)
        /\ \A i \in 1..n : i <= taken[c] => got[c][i] = sent[c][i]
        /\ c \in served /\ n < taken[c] => sent[c][n + 1] = Nul

(* The server waits for c to say something. *)
WaitsFor(c) == pc = "read" /\ child = c /\ client[c] = "open" /\ sent[c] = <<>>

Queued(c) == \E i \in 1..Len(queue) : queue[i] = c

(* If the server survives its clients, and none of them keeps it waiting    *)
(* for ever, every client that was let into the queue is served.            *)
AllServed ==
  ([](pc # "dead") /\ \A c \in Clients : WaitsFor(c) ~> ~WaitsFor(c))
    => \A c \in Clients : Queued(c) ~> c \in served
=============================================================================
