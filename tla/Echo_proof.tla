----------------------------- MODULE Echo_proof -----------------------------
(***************************************************************************)
(* Theorems about Echo, for any clients, bytes and sizes, messages that    *)
(* fill the buffer included.  Both follow from one inductive invariant.    *)
(* Beyond Echoed it says that connections which nobody has accepted are    *)
(* untouched (Waiting), which connection is served in which call           *)
(* (Serving), and what is in the buffer before it is written (Buffered).   *)
(***************************************************************************)
EXTENDS Echo, SequenceTheorems, TLAPS

Waiting ==
  /\ \A i, j \in 1..Len(queue) : queue[i] = queue[j] => i = j
  /\ \A c \in Clients : client[c] = "new" \/ Queued(c) =>
       c # child /\ c \notin served /\ taken[c] = 0 /\ got[c] = <<>>
  /\ \A c \in Clients : Queued(c) => client[c] # "new"

Serving ==
  /\ pc \in {"lookup", "read", "write", "close"} =>
       child \in Clients /\ child \notin served
  /\ pc = "accept" => child = None
  /\ pc \in {"lookup", "read"} => taken[child] = 0
  /\ pc = "write" => taken[child] <= BufSize
  /\ pc \in {"lookup", "read", "write"} => got[child] = <<>>

Buffered ==
  /\ pc = "write" => \A i \in 1..BufSize :
       buf[i] = IF i <= taken[child] THEN sent[child][i] ELSE Nul
  /\ pc = "close" /\ Len(got[child]) < taken[child] =>
       sent[child][Len(got[child]) + 1] = Nul

IInv == TypeOK /\ Echoed /\ Waiting /\ Serving /\ Buffered

(* The invariant holds initially. *)
LEMMA InitIInv == Init => IInv
  BY EchoAssumption DEF Init, IInv, TypeOK, Echoed, Fills, Waiting, Serving, Buffered, Zeroes, Queued

LEMMA ConnectIInv == ASSUME IInv, NEW c \in Clients, Connect(c) PROVE IInv'
  <1> USE DEF IInv
  <1>1. TypeOK'
    BY DEF TypeOK, Connect
  <1>2. /\ Len(queue') = Len(queue) + 1 /\ Len(queue) \in Nat
        /\ \A i \in 1..Len(queue) : queue'[i] = queue[i] /\ queue[i] # c
        /\ queue'[Len(queue) + 1] = c
    <2>1. ~Queued(c)
      BY DEF Connect, Waiting
    <2>2. queue \in Seq(Clients) /\ queue' = Append(queue, c)
      BY DEF TypeOK, Connect
    <2> QED BY <2>1, <2>2 DEF Queued
  <1>3. \A d \in Clients : client'[d] = IF d = c THEN "open" ELSE client[d]
    BY DEF TypeOK, Connect
  <1>4. \A d \in Clients : Queued(d)' <=> d = c \/ Queued(d)
    BY <1>2 DEF Queued
  <1>5. Waiting'
    BY <1>2, <1>3, <1>4 DEF Waiting, Connect
  <1>6. Echoed'
    BY DEF Echoed, Fills, Connect
  <1>7. Serving' /\ Buffered'
    BY DEF Serving, Buffered, Connect
  <1> QED BY <1>1, <1>5, <1>6, <1>7

LEMMA SendIInv ==
  ASSUME IInv, NEW c \in Clients, NEW b \in Bytes \cup {Nul}, Send(c, b) PROVE IInv'
  <1> USE DEF IInv
  <1>1. TypeOK'
    BY DEF TypeOK, Send
  <1>2. \A d \in Clients :
          /\ Len(sent[d]) \in Nat /\ Len(sent'[d]) \in Nat
          /\ Len(sent[d]) <= Len(sent'[d])
          /\ \A i \in 1..Len(sent[d]) : sent'[d][i] = sent[d][i]
    BY DEF TypeOK, Send
  <1>3. \A d \in Clients : got[d] \in Seq(Bytes) /\ taken[d] \in Nat /\ Len(got[d]) \in Nat
    BY DEF TypeOK
  <1>4. Waiting' /\ Serving'
    BY DEF Waiting, Serving, Send, Queued
  <1>5. Echoed'
    <2> SUFFICES ASSUME NEW d \in Clients
                 PROVE  LET n == Len(got[d])
                        IN  /\ taken[d] <= Len(sent'[d])
                            /\ n <= taken[d] \/ Fills(d)'
                            /\ \A i \in 1..n : i <= taken[d] => got[d][i] = sent'[d][i]
                            /\ d \in served /\ n < taken[d] => sent'[d][n + 1] = Nul
      BY DEF Echoed, Send
    <2>1. taken[d] <= Len(sent[d]) /\ taken' = taken
      BY DEF Echoed, Send
    <2>2. Fills(d) => Fills(d)'
      BY <1>2, <2>1, EchoAssumption DEF Fills
    <2> DEFINE n == Len(got[d])
    <2>3. /\ n <= taken[d] \/ Fills(d)
          /\ \A i \in 1..n : i <= taken[d] => got[d][i] = sent[d][i]
          /\ d \in served /\ n < taken[d] => sent[d][n + 1] = Nul
      BY DEF Echoed
    <2>4. /\ n \in Nat /\ taken[d] \in Nat /\ Len(sent[d]) \in Nat /\ Len(sent'[d]) \in Nat
          /\ taken[d] <= Len(sent'[d])
          /\ \A i \in 1..taken[d] : sent'[d][i] = sent[d][i]
      BY <1>2, <1>3, <2>1
    <2> HIDE DEF n
    <2>5. \A i \in 1..n : i <= taken[d] => got[d][i] = sent'[d][i]
      BY <2>3, <2>4
    <2>6. d \in served /\ n < taken[d] => sent'[d][n + 1] = Nul
      BY <2>3, <2>4
    <2> QED BY <2>2, <2>3, <2>4, <2>5, <2>6 DEF n
  <1>6. Buffered'
    BY <1>2, <1>3 DEF Buffered, Echoed, Serving, Send
  <1> QED BY <1>1, <1>4, <1>5, <1>6

LEMMA HangUpIInv ==
  ASSUME IInv, NEW c \in Clients, NEW how \in {"closed", "reset"}, HangUp(c, how) PROVE IInv'
  <1> USE DEF IInv
  <1>1. TypeOK'
    BY DEF TypeOK, HangUp
  <1>2. \A d \in Clients : client'[d] = "new" <=> client[d] = "new"
    BY DEF TypeOK, HangUp
  <1>3. Waiting'
    BY <1>2 DEF Waiting, HangUp, Queued
  <1>4. Serving' /\ Echoed' /\ Buffered'
    BY DEF Serving, Echoed, Fills, Buffered, HangUp
  <1> QED BY <1>1, <1>3, <1>4

LEMMA AcceptIInv == ASSUME IInv, Accept PROVE IInv'
  <1> USE DEF IInv
  <1>1. /\ child' \in Clients /\ Queued(child') /\ child' = queue[1]
        /\ Len(queue') = Len(queue) - 1 /\ Len(queue) \in Nat \ {0}
        /\ \A i \in 1..Len(queue') : queue'[i] = queue[i + 1]
    BY DEF TypeOK, Accept, clientVars, Queued
  <1>2. TypeOK'
    BY DEF TypeOK, Accept, clientVars
  <1>3. ~Queued(child)' 
    BY <1>1 DEF Waiting, Queued
  <1>4. \A d \in Clients : Queued(d)' => Queued(d)
    BY <1>1 DEF Queued
  <1>5. Waiting'
    BY <1>1, <1>3, <1>4 DEF Waiting, Accept, clientVars
  <1>6. Serving'
    BY <1>1 DEF Serving, Waiting, Accept, clientVars
  <1>7. Echoed' /\ Buffered'
    BY DEF Echoed, Fills, Buffered, Accept, clientVars
  <1> QED BY <1>2, <1>5, <1>6, <1>7

LEMMA AcceptFailsIInv == ASSUME IInv, AcceptFails PROVE IInv'
  <1> USE DEF IInv
  <1>1. TypeOK' /\ Echoed'
    BY DEF TypeOK, Echoed, Fills, AcceptFails, clientVars
  <1>2. Waiting' /\ Serving' /\ Buffered'
    BY DEF Waiting, Serving, Buffered, AcceptFails, clientVars, Queued
  <1> QED BY <1>1, <1>2

LEMMA LookupIInv == ASSUME IInv, Lookup PROVE IInv'
  <1> USE DEF IInv
  <1>1. TypeOK' /\ Echoed'
    BY DEF TypeOK, Echoed, Fills, Lookup, clientVars
  <1>2. Waiting' /\ Serving' /\ Buffered'
    BY DEF Waiting, Serving, Buffered, Lookup, clientVars, Queued
  <1> QED BY <1>1, <1>2

LEMMA ReadIInv == ASSUME IInv, Read PROVE IInv'
  <1> USE DEF IInv
  <1>1. child \in Clients /\ taken[child] = 0 /\ got[child] = <<>> /\ child \notin served
    BY DEF Read, Serving
  <1>2. UNCHANGED <<child, queue, client, sent, got, served>>
    BY DEF Read, clientVars
  <1>3. CASE pc' = "write"
    <2>1. PICK n \in 0..BufSize :
            n <= Len(sent[child]) /\ buf' = Filled(n) /\ taken' = [taken EXCEPT ![child] = n]
      BY <1>1, <1>3 DEF Read, Readable, TypeOK
    <2>2. \A i \in 1..n : sent[child][i] \in Bytes \cup {Nul}
      BY <1>1, <2>1 DEF TypeOK
    <2>3. TypeOK'
      BY <1>1, <1>2, <1>3, <2>1, <2>2, EchoAssumption DEF TypeOK, Filled
    <2>4. Echoed'
      <3>1. \A c \in Clients : taken'[c] = IF c = child THEN n ELSE taken[c]
        BY <2>1 DEF TypeOK
      <3>2. \A c \in Clients : c # child => (Fills(c) <=> Fills(c)')
        BY <1>2, <3>1 DEF Fills
      <3> QED BY <1>1, <1>2, <2>1, <3>1, <3>2, EchoAssumption DEF Echoed
    <2>5. Waiting'
      BY <1>1, <1>2, <2>1 DEF Waiting, Queued, TypeOK
    <2>6. Serving' /\ Buffered'
      BY <1>1, <1>2, <1>3, <2>1 DEF Serving, Buffered, TypeOK, Filled
    <2> QED BY <2>3, <2>4, <2>5, <2>6
  <1>4. CASE pc' = "dead" /\ UNCHANGED <<buf, taken>>
    <2>1. TypeOK' /\ Echoed'
      BY <1>2, <1>4 DEF TypeOK, Echoed, Fills
    <2>2. Waiting' /\ Serving' /\ Buffered'
      BY <1>2, <1>4 DEF Waiting, Serving, Buffered, Queued
    <2> QED BY <2>1, <2>2
  <1> QED BY <1>3, <1>4 DEF Read

LEMMA WriteIInv == ASSUME IInv, Write PROVE IInv'
  <1> USE DEF IInv
  <1>1. child \in Clients /\ got[child] = <<>> /\ child \notin served
    BY DEF Write, Serving
  <1>2. UNCHANGED <<child, buf, queue, client, sent, taken, served>>
    BY DEF Write, clientVars
  <1>3. CASE pc' = "close"
    <2>1. PICK n \in 0..BufSize : \E more \in Beyond(n) :
            StrLen(n) /\ got' = [got EXCEPT ![child] = SubSeq(buf, 1, n) \o more]
      BY <1>3 DEF Write
    <2>0. PICK more \in Beyond(n) :
            StrLen(n) /\ got' = [got EXCEPT ![child] = SubSeq(buf, 1, n) \o more]
      BY <2>1
    <2> DEFINE own  == SubSeq(buf, 1, n)
               text == own \o more
    <2>2. \A i \in 1..n : buf[i] \in Bytes
      BY <2>1, EchoAssumption DEF StrLen, TypeOK
    <2>3. /\ text \in Seq(Bytes) /\ Len(text) \in Nat /\ Len(text) >= n
          /\ n < BufSize => Len(text) = n
          /\ \A i \in 1..n : text[i] = buf[i]
      <3>1. own \in Seq(Bytes) /\ Len(own) = n /\ \A i \in 1..n : own[i] = buf[i]
        BY <2>2, SubSeqProperties
      <3>2. more \in Seq(Bytes) /\ Len(more) \in Nat /\ (n < BufSize => Len(more) = 0)
        <4>1. CASE n < BufSize
          BY <4>1, EmptySeq DEF Beyond
        <4>2. CASE ~(n < BufSize)
          <5>1. PICK k \in 0..MaxBeyond : more \in [1..k -> Bytes]
            BY <4>2 DEF Beyond
          <5> QED BY <4>2, <5>1, EchoAssumption
        <4> QED BY <4>1, <4>2
      <3> HIDE DEF own
      <3> QED BY <3>1, <3>2, ConcatProperties
    <2>4. \A i \in 1..BufSize :
            buf[i] = IF i <= taken[child] THEN sent[child][i] ELSE Nul
      BY DEF Write, Buffered
    <2>5. taken[child] \in Nat /\ BufSize \in Nat
      BY <1>1, EchoAssumption DEF TypeOK
    <2>6. n <= taken[child]
      <3>1. ASSUME taken[child] < n PROVE FALSE
        <4>1. n \in 1..BufSize /\ ~(n <= taken[child])
          BY <2>5, <3>1
        <4>2. buf[n] = Nul
          BY <2>4, <4>1
        <4> QED BY <2>1, <4>1, <4>2 DEF StrLen
      <3> QED BY <2>5, <3>1
    <2>7. \A i \in 1..n : text[i] = sent[child][i]
      BY <2>3, <2>4, <2>5, <2>6
    <2>l. taken[child] <= BufSize
      BY DEF Write, Serving
    <2>8. n < taken[child] => sent[child][n + 1] = Nul
      BY <2>1, <2>4, <2>5, <2>l DEF StrLen
    <2>t. \A i \in 1..Len(text) : i <= taken[child] => text[i] = sent[child][i]
      <3> SUFFICES ASSUME NEW i \in 1..Len(text), i <= taken[child] PROVE i <= n
        BY <2>7
      <3> QED BY <2>3, <2>5, <2>l
    <2>f. Len(text) <= taken[child] \/ Fills(child)
      <3>1. CASE n < BufSize
        BY <2>3, <2>6, <3>1
      <3>2. CASE ~(n < BufSize)
        <4>1. n = BufSize /\ taken[child] = BufSize
          BY <2>5, <2>6, <2>l, <3>2
        <4>2. \A i \in 1..BufSize : sent[child][i] # Nul
          BY <2>0, <2>4, <4>1 DEF StrLen
        <4> QED BY <4>1, <4>2 DEF Fills
      <3> QED BY <3>1, <3>2
    <2>n. Len(text) < taken[child] => sent[child][Len(text) + 1] = Nul
      <3> SUFFICES ASSUME Len(text) < taken[child] PROVE Len(text) = n
        BY <2>8
      <3> QED BY <2>3, <2>5, <2>l
    <2> HIDE DEF text
    <2>9. \A c \in Clients : got'[c] = IF c = child THEN text ELSE got[c]
      BY <2>0 DEF TypeOK, text
    <2>10. TypeOK'
      BY <1>1, <1>2, <1>3, <2>0, <2>3 DEF TypeOK, text
    <2>11. Echoed'
      <3>1. \A c \in Clients : Fills(c) <=> Fills(c)'
        BY <1>2 DEF Fills
      <3> QED BY <1>1, <1>2, <2>t, <2>f, <2>9, <3>1 DEF Echoed
    <2>12. Waiting'
      BY <1>1, <1>2, <2>9 DEF Waiting, Queued
    <2>13. Serving' /\ Buffered'
      BY <1>1, <1>2, <1>3, <2>3, <2>n, <2>9 DEF Serving, Buffered
    <2> QED BY <2>10, <2>11, <2>12, <2>13
  <1>4. CASE pc' = "dead" /\ UNCHANGED got
    <2>1. TypeOK' /\ Echoed'
      BY <1>2, <1>4 DEF TypeOK, Echoed, Fills
    <2>2. Waiting' /\ Serving' /\ Buffered'
      BY <1>2, <1>4 DEF Waiting, Serving, Buffered, Queued
    <2> QED BY <2>1, <2>2
  <1> QED BY <1>3, <1>4 DEF Write

LEMMA CloseIInv == ASSUME IInv, Close PROVE IInv'
  <1> USE DEF IInv
  <1>1. child \in Clients
    BY DEF Close, Serving
  <1>2. TypeOK'
    BY <1>1 DEF TypeOK, Close, clientVars
  <1>3. Echoed'
    BY <1>1 DEF Echoed, Fills, Buffered, Close, clientVars
  <1>4. Waiting'
    BY <1>1, EchoAssumption DEF Waiting, Close, Queued, clientVars
  <1>5. Serving' /\ Buffered'
    BY DEF Serving, Buffered, Close
  <1> QED BY <1>2, <1>3, <1>4, <1>5

(* The invariant of all reachable states.                                   *)
LEMMA Invariant == Spec => []IInv
  <1>1. IInv /\ [Next]_vars => IInv'
    <2> SUFFICES ASSUME IInv, [Next]_vars PROVE IInv'
      OBVIOUS
    <2>1. CASE Accept
      BY <2>1, AcceptIInv
    <2>2. CASE Lookup
      BY <2>2, LookupIInv
    <2>3. CASE Read
      BY <2>3, ReadIInv
    <2>4. CASE Write
      BY <2>4, WriteIInv
    <2>5. CASE Close
      BY <2>5, CloseIInv
    <2>6. ASSUME NEW c \in Clients, Connect(c) PROVE IInv'
      BY <2>6, ConnectIInv
    <2>7. ASSUME NEW c \in Clients, NEW b \in Bytes \cup {Nul}, Send(c, b) PROVE IInv'
      BY <2>7, SendIInv
    <2>8. ASSUME NEW c \in Clients, NEW how \in {"closed", "reset"}, HangUp(c, how) PROVE IInv'
      BY <2>8, HangUpIInv
    <2>0. CASE AcceptFails
      BY <2>0, AcceptFailsIInv
    <2>9. CASE UNCHANGED vars
      <3> USE DEF IInv
      <3>1. TypeOK' /\ Echoed'
        BY <2>9 DEF vars, TypeOK, Echoed, Fills
      <3>2. Waiting' /\ Serving' /\ Buffered'
        BY <2>9 DEF vars, Waiting, Serving, Buffered, Queued
      <3> QED BY <3>1, <3>2
    <2> QED BY <2>0, <2>1, <2>2, <2>3, <2>4, <2>5, <2>6, <2>7, <2>8, <2>9 DEF Next, Server
  <1> QED BY InitIInv, <1>1, PTL DEF Spec

(* The types, and that what comes back has no zero bytes, for any clients   *)
(* and sizes.                                                               *)
THEOREM ServerTypes == Spec => []TypeOK
  BY Invariant, PTL DEF IInv

(* Every client gets its own bytes back, up to a zero byte, whoever was     *)
(* served before it and whatever those sent; other bytes come behind them   *)
(* only if its own filled the buffer (socket.cpp, the loop of main).        *)
THEOREM OwnEcho == Spec => []Echoed
  BY Invariant, PTL DEF IInv
=============================================================================
