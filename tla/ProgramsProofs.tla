--------------------------- MODULE ProgramsProofs ---------------------------
(***************************************************************************)
(* Proofs about what has to go on for as long as a process lives: the      *)
(* FastCGI server, the cache of compiled files, and sorting.               *)
(*                                                                         *)
(* RequestsExact of FcgiServer is inductive: for any number of threads and *)
(* clients no request is forgotten between the queue, the kept connections *)
(* and the threads, none is answered twice, and only a kept connection is  *)
(* closed under a request.                                                 *)
(*                                                                         *)
(* CacheSound is an invariant of ScriptCache for one worker and a process  *)
(* that never starts in the second in which the last one ended, for files  *)
(* of any length, any number of edits and any time.  With a second worker, *)
(* or a quick restart, a partial file can be parsed.  CacheSound speaks of *)
(* what is parsed and what is run.  Inv follows that back to the file: one *)
(* that carries a time of this process, and that nobody is writing, is     *)
(* complete unless a write failed (TrustedIsWhole); a complete one has the text of the source,   *)
(* or is not younger than it (FileIsFresh); and what the worker has found  *)
(* out about the two files is still good enough (Found).                   *)
(*                                                                         *)
(* PartsSound is an invariant of Sort, for arrays of any length, any       *)
(* cutoff and any answers of the comparison function.  The parts still to  *)
(* be sorted are apart, and elements of different parts are in order       *)
(* (Ordered), which every exchange inside a part keeps.  What a partition  *)
(* has found out when it ends (Scanned) puts its two halves in order.      *)
(* That the stack is deep enough follows from Room: a part that waits is   *)
(* at least as large as all that is above it, twice as large as what is    *)
(* above the next one, and so on.                                          *)
(***************************************************************************)
EXTENDS FcgiServer, ScriptCache, Sort, FiniteSetTheorems, SequenceTheorems, TLAPS

-----------------------------------------------------------------------------
(* FcgiServer: the queue of connections.                                   *)

\* A connection is added at the end.
LEMMA Queued ==
    ASSUME NEW S, NEW q \in Seq(S), NEW c \in S
    PROVE  /\ Append(q, c) \in Seq(S)
           /\ ToSet(Append(q, c)) = ToSet(q) \cup {c}
           /\ (\A i, j \in DOMAIN q : i # j => q[i] # q[j]) /\ c \notin ToSet(q) =>
                \A i, j \in DOMAIN Append(q, c) : i # j => Append(q, c)[i] # Append(q, c)[j]
<1> DEFINE r == Append(q, c)
<1>1. /\ r \in Seq(S) /\ DOMAIN q = 1 .. Len(q) /\ DOMAIN r = 1 .. Len(q) + 1
      /\ Len(q) \in Nat
      /\ \A i \in 1 .. Len(q) : r[i] = q[i]
      /\ r[Len(q) + 1] = c
  OBVIOUS
<1> HIDE DEF r
<1>2. \A i \in DOMAIN r : i \in DOMAIN q \/ i = Len(q) + 1
  BY <1>1
<1>3. ToSet(r) = ToSet(q) \cup {c}
  BY <1>1, <1>2 DEF ToSet
<1>4. ASSUME \A i, j \in DOMAIN q : i # j => q[i] # q[j], c \notin ToSet(q),
             NEW i \in DOMAIN r, NEW j \in DOMAIN r, i # j
      PROVE  r[i] # r[j]
  BY <1>1, <1>2, <1>4 DEF ToSet
<1> QED BY <1>1, <1>3, <1>4 DEF r

\* The oldest connection is taken.
LEMMA Dequeued ==
    ASSUME NEW S, NEW q \in Seq(S), q # << >>
    PROVE  /\ Tail(q) \in Seq(S) /\ Head(q) \in S
           /\ ToSet(q) = ToSet(Tail(q)) \cup {Head(q)}
           /\ (\A i, j \in DOMAIN q : i # j => q[i] # q[j]) =>
                /\ Head(q) \notin ToSet(Tail(q))
                /\ \A i, j \in DOMAIN Tail(q) : i # j => Tail(q)[i] # Tail(q)[j]
<1> DEFINE r == Tail(q)
<1>1. /\ r \in Seq(S) /\ Len(q) \in Nat \ {0} /\ Head(q) = q[1] /\ Head(q) \in S
      /\ DOMAIN q = 1 .. Len(q) /\ DOMAIN r = 1 .. Len(q) - 1
      /\ \A i \in 1 .. Len(q) - 1 : r[i] = q[i + 1]
  OBVIOUS
<1> HIDE DEF r
<1>2. \A i \in DOMAIN r : i + 1 \in DOMAIN q /\ i + 1 # 1 /\ r[i] = q[i + 1]
  BY <1>1
<1>3. \A i \in DOMAIN q : i = 1 \/ (i - 1 \in DOMAIN r /\ q[i] = r[i - 1])
  BY <1>1
<1>4. ToSet(q) = ToSet(r) \cup {Head(q)}
  <2>1. \A i \in DOMAIN q : q[i] \in ToSet(r) \cup {Head(q)}
    BY <1>1, <1>3 DEF ToSet
  <2>2. \A i \in DOMAIN r : r[i] \in ToSet(q)
    BY <1>2 DEF ToSet
  <2>3. Head(q) \in ToSet(q)
    BY <1>1 DEF ToSet
  <2> QED BY <2>1, <2>2, <2>3 DEF ToSet
<1>5. ASSUME \A i, j \in DOMAIN q : i # j => q[i] # q[j]
      PROVE  /\ Head(q) \notin ToSet(r)
             /\ \A i, j \in DOMAIN r : i # j => r[i] # r[j]
  <2>1. 1 \in DOMAIN q
    BY <1>1
  <2>2. Head(q) \notin ToSet(r)
    BY <1>1, <1>2, <1>5, <2>1 DEF ToSet
  <2>3. ASSUME NEW i \in DOMAIN r, NEW j \in DOMAIN r, i # j
        PROVE  r[i] # r[j]
    <3>1. i + 1 # j + 1
      BY <1>1, <2>3
    <3> QED BY <1>2, <1>5, <3>1
  <2> QED BY <2>2, <2>3
<1> QED BY <1>1, <1>4, <1>5 DEF r

-----------------------------------------------------------------------------
(* FcgiServer: one lemma for every step that changes connections or        *)
(* requests.                                                               *)

\* A client sends over its own connection.
LEMMA SendKeeps ==
    ASSUME RequestsExact, NEW c \in Clients, send(c)
    PROVE  RequestsExact'
<1> USE DEF RequestsExact
<1>1. c \notin sent /\ \A t \in Threads : ~(ipcFd[t] = c /\ open[t])
  BY DEF send, TypeOK, WaitingIsPending
<1>2. c \notin ToSet(queue)
  BY <1>1 DEF NothingLost
<1>3. /\ queue' \in Seq(Clients)
      /\ \A i, j \in DOMAIN queue' : i # j => queue'[i] # queue'[j]
      /\ ToSet(queue') = IF \E t \in Threads : ipcFd[t] = c THEN ToSet(queue)
                         ELSE ToSet(queue) \cup {c}
  <2>1. CASE \E t \in Threads : ipcFd[t] = c
    BY <2>1 DEF send, TypeOK, OneConnection
  <2>2. CASE ~ \E t \in Threads : ipcFd[t] = c
    <3>1. queue' = Append(queue, c)
      BY <2>2 DEF send
    <3>2. queue \in Seq(Clients) /\ \A i, j \in DOMAIN queue : i # j => queue[i] # queue[j]
      BY DEF TypeOK, OneConnection
    <3> QED BY <1>2, <2>2, <3>1, <3>2, Queued
  <2> QED BY <2>1, <2>2
<1>4. TypeOK'
  BY <1>3 DEF send, TypeOK
<1>5. OneAccepts'
  BY DEF send, OneAccepts
<1>6. OneConnection'
  BY <1>3 DEF send, OneConnection
<1>7. WaitingIsPending'
  BY DEF send, WaitingIsPending, TypeOK
<1>8. NothingLost'
  BY <1>3 DEF send, NothingLost, TypeOK
<1>9. RequestOpen'
  BY <1>1 DEF send, RequestOpen
<1>10. OnlyKeptAreReset'
  BY DEF send, OnlyKeptAreReset, TypeOK
<1> QED BY <1>4, <1>5, <1>6, <1>7, <1>8, <1>9, <1>10

\* FCGX_Finish_r answers the one client whose request the thread has, if it has one.
LEMMA FinishKeeps ==
    ASSUME RequestsExact, NEW t \in Threads, pc[t] \in {"finish", "answer"}, finish(t),
           goto(t, IF pc[t] = "finish" THEN "accept" ELSE "release"),
           UNCHANGED <<queue, accept_mutex, sent, up>>
    PROVE  RequestsExact'
<1> USE DEF RequestsExact
<1>1. /\ open \in [Threads -> BOOLEAN] /\ ipcFd \in [Threads -> Clients \cup {Nil}]
      /\ pc \in [Threads -> {"lock", "finish", "accept", "unlock", "process", "answer", "release"}]
      /\ client \in [Clients -> {"idle", "waiting", "reset"}]
      /\ dirty \subseteq Clients
  BY DEF TypeOK
<1>2. open[t] => ipcFd[t] \in Clients \ sent
  BY DEF RequestOpen
<1>3. ~open[t] => ipcFd[t] \in Keep \cup {Nil}
  BY DEF RequestOpen
<1>4. TypeOK'
  BY <1>1, <1>2 DEF finish, goto, TypeOK
<1>5. OneAccepts'
  BY <1>1 DEF goto, OneAccepts
<1>6. /\ \A u \in Threads : u # t => ipcFd'[u] = ipcFd[u] /\ open'[u] = open[u]
      /\ ipcFd'[t] = (IF ipcFd[t] \in Keep THEN ipcFd[t] ELSE Nil) /\ ~open'[t]
  BY <1>1 DEF finish
<1>7. OneConnection'
  <2>1. \A u \in Threads : ipcFd'[u] \in {ipcFd[u], Nil}
    BY <1>6
  <2>2. Nil \notin ToSet(queue)
    BY FcgiAssumption DEF TypeOK, ToSet
  <2> QED BY <2>1, <2>2 DEF OneConnection
<1>8. WaitingIsPending'
  <2> SUFFICES ASSUME NEW c \in Clients
               PROVE  client'[c] = "waiting" <=>
                        c \in sent' \/ \E u \in Threads : ipcFd'[u] = c /\ open'[u]
    BY DEF WaitingIsPending
  <2>1. CASE open[t] /\ ipcFd[t] = c
    <3>1. client'[c] = "idle"
      BY <1>1, <2>1 DEF finish
    <3>2. c \notin sent'
      BY <1>2, <2>1
    <3>3. \A u \in Threads : u # t => ipcFd[u] # c
      BY <1>2, <2>1, FcgiAssumption DEF OneConnection
    <3> QED BY <1>6, <3>1, <3>2, <3>3
  <2>2. CASE ~(open[t] /\ ipcFd[t] = c)
    <3>1. client'[c] = client[c]
      BY <1>1, <2>2 DEF finish
    <3>2. (\E u \in Threads : ipcFd'[u] = c /\ open'[u]) <=>
             \E u \in Threads : ipcFd[u] = c /\ open[u]
      BY <1>6, <2>2
    <3> QED BY <3>1, <3>2 DEF WaitingIsPending
  <2> QED BY <2>1, <2>2
<1>9. NothingLost'
  BY <1>2, <1>3, <1>6, FcgiAssumption DEF NothingLost, TypeOK
<1>10. RequestOpen'
  <2> SUFFICES ASSUME NEW u \in Threads
               PROVE  /\ open'[u] => ipcFd'[u] \in Clients \ sent'
                      /\ pc'[u] \in {"unlock", "process", "answer"} => open'[u]
                      /\ pc'[u] = "accept" => ~open'[u]
                      /\ ~open'[u] /\ pc'[u] # "accept" => ipcFd'[u] \in Keep \cup {Nil}
    BY DEF RequestOpen
  <2>1. CASE u = t
    BY <1>1, <1>6, <2>1 DEF goto
  <2>2. CASE u # t
    BY <1>1, <1>6, <2>2 DEF goto, RequestOpen
  <2> QED BY <2>1, <2>2
<1>11. OnlyKeptAreReset'
  <2>1. ASSUME NEW c \in dirty'
        PROVE  c \in Keep \cap Unread /\ \E u \in Threads : ipcFd'[u] = c /\ ~open'[u]
    <3>1. CASE c \in dirty
      BY <1>6, <3>1 DEF OnlyKeptAreReset
    <3>2. CASE c \notin dirty
      BY <1>6, <2>1, <3>2 DEF finish
    <3> QED BY <3>1, <3>2
  <2>2. ASSUME NEW c \in Clients, client'[c] = "reset"
        PROVE  c \in Keep \cap Unread /\ \A u \in Threads : ipcFd'[u] # c
    <3>1. client[c] = "reset"
      BY <1>1, <2>2 DEF finish
    <3> QED BY <1>6, <3>1, FcgiAssumption DEF OnlyKeptAreReset
  <2> QED BY <2>1, <2>2 DEF OnlyKeptAreReset
<1> QED BY <1>4, <1>5, <1>7, <1>8, <1>9, <1>10, <1>11

\* OS_Accept takes the oldest connection.
LEMMA AcceptKeeps ==
    ASSUME RequestsExact, NEW t \in Threads, acceptConnection(t)
    PROVE  RequestsExact'
<1> USE DEF RequestsExact
<1> DEFINE c == Head(queue)
<1>1. /\ queue \in Seq(Clients) /\ queue # << >>
      /\ \A i, j \in DOMAIN queue : i # j => queue[i] # queue[j]
  BY DEF acceptConnection, TypeOK, OneConnection
<1>2. /\ queue' \in Seq(Clients) /\ c \in Clients
      /\ ToSet(queue) = ToSet(queue') \cup {c} /\ c \notin ToSet(queue')
      /\ \A i, j \in DOMAIN queue' : i # j => queue'[i] # queue'[j]
  BY <1>1, Dequeued DEF acceptConnection
<1>3. /\ ipcFd'[t] = c /\ ipcFd[t] = Nil /\ pc[t] = "accept"
      /\ \A u \in Threads : u # t => ipcFd'[u] = ipcFd[u]
      /\ ~open[t]
  BY DEF acceptConnection, at, TypeOK, RequestOpen
<1> HIDE DEF c
<1>4. TypeOK'
  BY <1>2 DEF acceptConnection, TypeOK, c
<1>5. OneAccepts'
  BY DEF acceptConnection, OneAccepts
<1>6. OneConnection'
  BY <1>2, <1>3 DEF OneConnection
<1>7. WaitingIsPending'
  <2>1. \A d \in Clients : (\E u \in Threads : ipcFd'[u] = d /\ open[u]) <=>
                             \E u \in Threads : ipcFd[u] = d /\ open[u]
    BY <1>3
  <2> QED BY <2>1 DEF acceptConnection, WaitingIsPending
<1>8. NothingLost'
  <2>1. sent' = sent /\ Nil \notin sent
    BY FcgiAssumption DEF acceptConnection, TypeOK
  <2>2. ToSet(queue') \subseteq sent'
    BY <1>2, <2>1 DEF NothingLost
  <2>3. ASSUME NEW d \in sent
        PROVE  d \in ToSet(queue') \/ \E u \in Threads : ipcFd'[u] = d
    BY <1>2, <1>3, <2>1, <2>3 DEF NothingLost
  <2> QED BY <2>1, <2>2, <2>3 DEF NothingLost
<1>9. RequestOpen'
  BY <1>3 DEF acceptConnection, RequestOpen
<1>10. OnlyKeptAreReset'
  <2>1. /\ client' = client /\ dirty' = dirty /\ open' = open /\ c \in ToSet(queue)
        /\ \A d \in Keep : d # Nil
    BY <1>2, FcgiAssumption DEF acceptConnection
  <2>2. client[c] # "reset"
    BY <1>2, <2>1 DEF NothingLost, WaitingIsPending
  <2> QED BY <1>3, <2>1, <2>2 DEF OnlyKeptAreReset
<1> QED BY <1>4, <1>5, <1>6, <1>7, <1>8, <1>9, <1>10

\* The request is read: it is no longer on its way, and the thread has it.
LEMMA ReadKeeps ==
    ASSUME RequestsExact, NEW t \in Threads, readRequest(t)
    PROVE  RequestsExact'
<1> USE DEF RequestsExact
<1> DEFINE c == ipcFd[t]
<1>1. /\ c \in Clients /\ c \in sent /\ c \notin ToSet(queue)
      /\ \A u \in Threads : u # t => ipcFd[u] # c
  BY FcgiAssumption DEF readRequest, TypeOK, OneConnection
<1>2. /\ sent' = sent \ {c} /\ open'[t] /\ pc'[t] = "unlock" /\ pc[t] = "accept"
      /\ \A u \in Threads : u # t => open'[u] = open[u] /\ pc'[u] = pc[u]
      /\ UNCHANGED <<client, queue, accept_mutex, ipcFd, dirty, up>>
  BY DEF readRequest, goto, at, TypeOK
<1>3. TypeOK'
  BY DEF readRequest, goto, TypeOK
<1>4. OneAccepts'
  BY <1>2 DEF OneAccepts
<1>5. OneConnection'
  BY <1>2 DEF OneConnection
<1>6. WaitingIsPending'
  <2> SUFFICES ASSUME NEW d \in Clients
               PROVE  client[d] = "waiting" <=>
                        d \in sent \ {c} \/ \E u \in Threads : ipcFd[u] = d /\ open'[u]
    BY <1>2 DEF WaitingIsPending
  <2>1. CASE d = c
    BY <1>1, <1>2, <2>1 DEF WaitingIsPending
  <2>2. CASE d # c
    BY <1>2, <2>2 DEF WaitingIsPending
  <2> QED BY <2>1, <2>2
<1>7. NothingLost'
  BY <1>1, <1>2 DEF NothingLost
<1>8. RequestOpen'
  <2> SUFFICES ASSUME NEW u \in Threads
               PROVE  /\ open'[u] => ipcFd[u] \in Clients \ (sent \ {c})
                      /\ pc'[u] \in {"unlock", "process", "answer"} => open'[u]
                      /\ pc'[u] = "accept" => ~open'[u]
                      /\ ~open'[u] /\ pc'[u] # "accept" => ipcFd[u] \in Keep \cup {Nil}
    BY <1>2 DEF RequestOpen
  <2>1. CASE u = t
    BY <1>1, <1>2, <2>1
  <2>2. CASE u # t
    BY <1>2, <2>2 DEF RequestOpen
  <2> QED BY <2>1, <2>2
<1>9. OnlyKeptAreReset'
  <2>1. c \notin dirty
    BY DEF readRequest
  <2> QED BY <1>2, <2>1 DEF OnlyKeptAreReset
<1> QED BY <1>3, <1>4, <1>5, <1>6, <1>7, <1>8, <1>9

\* A connection is closed under its client: nothing was being answered on it.
LEMMA ErrorKeeps ==
    ASSUME RequestsExact, NEW t \in Threads, protocolError(t)
    PROVE  RequestsExact'
<1> USE DEF RequestsExact
<1> DEFINE c == ipcFd[t]
<1>1. /\ c \in Clients /\ c \notin ToSet(queue) /\ ~open[t] /\ c \in Keep \cap Unread
      /\ \A u \in Threads : u # t => ipcFd[u] # c
  BY FcgiAssumption DEF protocolError, at, TypeOK, OneConnection, OnlyKeptAreReset, RequestOpen
<1>2. /\ ipcFd'[t] = Nil /\ \A u \in Threads : u # t => ipcFd'[u] = ipcFd[u]
      /\ sent' = sent \ {c} /\ dirty' = dirty \ {c}
      /\ UNCHANGED <<queue, accept_mutex, pc, open, up>>
      /\ client' = IF c \in sent THEN [client EXCEPT ![c] = "reset"] ELSE client
  BY DEF protocolError, TypeOK
<1>3. /\ \A d \in Clients : d # c => client'[d] = client[d]
      /\ c \in sent => client'[c] = "reset"
      /\ c \notin sent => client'[c] # "waiting" /\ client'[c] = client[c]
  BY <1>1, <1>2 DEF TypeOK, WaitingIsPending
<1> HIDE DEF c
<1>4. TypeOK'
  BY <1>1, <1>2 DEF protocolError, TypeOK, c
<1>5. OneAccepts'
  BY <1>2 DEF OneAccepts
<1>6. OneConnection'
  <2>1. Nil \notin ToSet(queue)
    BY FcgiAssumption DEF TypeOK, ToSet
  <2> QED BY <1>2, <2>1 DEF OneConnection
<1>7. WaitingIsPending'
  <2> SUFFICES ASSUME NEW d \in Clients
               PROVE  client'[d] = "waiting" <=>
                        d \in sent \ {c} \/ \E u \in Threads : ipcFd'[u] = d /\ open[u]
    BY <1>2 DEF WaitingIsPending
  <2>1. CASE d = c
    <3>1. client'[d] # "waiting"
      BY <1>3, <2>1
    <3>2. \A u \in Threads : ipcFd'[u] # d
      BY <1>1, <1>2, <2>1, FcgiAssumption
    <3> QED BY <2>1, <3>1, <3>2
  <2>2. CASE d # c
    <3>1. (\E u \in Threads : ipcFd'[u] = d /\ open[u]) <=>
             \E u \in Threads : ipcFd[u] = d /\ open[u]
      BY <1>1, <1>2
    <3> QED BY <1>3, <2>2, <3>1 DEF WaitingIsPending
  <2> QED BY <2>1, <2>2
<1>8. NothingLost'
  <2>1. c = ipcFd[t]
    BY DEF c
  <2> QED BY <1>1, <1>2, <2>1 DEF NothingLost
<1>9. RequestOpen'
  BY <1>1, <1>2 DEF RequestOpen
<1>10. OnlyKeptAreReset'
  <2>0. c = ipcFd[t]
    BY DEF c
  <2>1. ASSUME NEW d \in dirty'
        PROVE  d \in Keep \cap Unread /\ \E u \in Threads : ipcFd'[u] = d /\ ~open'[u]
    <3>1. d \in dirty /\ d # c
      BY <1>2, <2>1
    <3>2. PICK u \in Threads : ipcFd[u] = d /\ ~open[u]
      BY <3>1 DEF OnlyKeptAreReset
    <3>3. u # t
      BY <2>0, <3>1, <3>2
    <3> QED BY <1>2, <3>1, <3>2, <3>3 DEF OnlyKeptAreReset
  <2>2. ASSUME NEW d \in Clients, client'[d] = "reset"
        PROVE  d \in Keep \cap Unread /\ \A u \in Threads : ipcFd'[u] # d
    <3>1. CASE d = c
      BY <1>1, <1>2, <3>1, FcgiAssumption
    <3>2. CASE d # c
      BY <1>2, <1>3, <2>2, <3>2, FcgiAssumption DEF OnlyKeptAreReset
    <3> QED BY <3>1, <3>2
  <2> QED BY <2>1, <2>2 DEF OnlyKeptAreReset
<1> QED BY <1>4, <1>5, <1>6, <1>7, <1>8, <1>9, <1>10

\* A kept connection is closed only while nothing is under way on it.
LEMMA DropKeeps ==
    ASSUME RequestsExact, NEW t \in Threads, dropConnection(t)
    PROVE  RequestsExact'
<1> USE DEF RequestsExact
<1> DEFINE c == ipcFd[t]
<1>1. /\ c \in Clients /\ c \notin sent /\ ~open[t]
  BY FcgiAssumption DEF dropConnection, at, RequestOpen, TypeOK, WaitingIsPending
<1>2. ipcFd'[t] = Nil /\ \A u \in Threads : u # t => ipcFd'[u] = ipcFd[u]
  BY DEF dropConnection, TypeOK
<1>3. TypeOK'
  BY DEF dropConnection, TypeOK
<1>4. OneAccepts'
  BY DEF dropConnection, OneAccepts
<1>5. OneConnection'
  <2>1. Nil \notin ToSet(queue) /\ queue' = queue
    BY FcgiAssumption DEF dropConnection, TypeOK, ToSet
  <2> QED BY <1>2, <2>1 DEF OneConnection
<1>6. WaitingIsPending'
  <2>1. \A d \in Clients : (\E u \in Threads : ipcFd'[u] = d /\ open[u]) <=>
                             \E u \in Threads : ipcFd[u] = d /\ open[u]
    BY <1>1, <1>2
  <2> QED BY <2>1 DEF dropConnection, WaitingIsPending
<1>7. NothingLost'
  BY <1>1, <1>2 DEF dropConnection, NothingLost
<1>8. RequestOpen'
  BY <1>1, <1>2 DEF dropConnection, RequestOpen
<1>9. OnlyKeptAreReset'
  <2>1. c \notin dirty /\ UNCHANGED <<client, open, dirty>>
    BY DEF dropConnection
  <2> QED BY <1>2, <2>1, FcgiAssumption DEF OnlyKeptAreReset
<1> QED BY <1>3, <1>4, <1>5, <1>6, <1>7, <1>8, <1>9

\* The other steps of a thread move it along doit and take or give back the mutex.
LEMMA MoveKeeps ==
    ASSUME RequestsExact, NEW t \in Threads, lock(t) \/ unlock(t) \/ process(t) \/ release(t)
    PROVE  RequestsExact'
<1> USE DEF RequestsExact
<1>1. UNCHANGED <<client, queue, ipcFd, open, sent, dirty, up>>
  BY DEF lock, unlock, process, release
<1>2. TypeOK'
  BY DEF lock, unlock, process, release, goto, TypeOK
<1>3. OneAccepts'
  BY FcgiAssumption DEF lock, unlock, process, release, goto, at, OneAccepts, TypeOK
<1>4. OneConnection' /\ WaitingIsPending' /\ NothingLost' /\ OnlyKeptAreReset'
  BY <1>1 DEF OneConnection, WaitingIsPending, NothingLost, OnlyKeptAreReset
<1>5. RequestOpen'
  BY <1>1 DEF lock, unlock, process, release, goto, at, TypeOK, RequestOpen
<1> QED BY <1>2, <1>3, <1>4, <1>5

-----------------------------------------------------------------------------

\* However threads take turns in FCGX_Accept_r, and whatever clients keep their
\* connections or send more than is read, every request is in one place until it is
\* answered, it is answered once, and it is lost only with a kept connection on which the
\* rest of the request before it was left.
THEOREM RequestsAreExact == Spec => []RequestsExact
<1>1. Init => RequestsExact
  <2> SUFFICES ASSUME Init PROVE RequestsExact
    OBVIOUS
  <2>1. ToSet(queue) = {} /\ queue \in Seq(Clients) /\ DOMAIN queue = {}
    BY DEF Init, ToSet
  <2> QED BY <2>1, FcgiAssumption
          DEF Init, RequestsExact, TypeOK, OneAccepts, OneConnection, WaitingIsPending,
              NothingLost, RequestOpen, OnlyKeptAreReset
<1>2. RequestsExact /\ [Next]_vars => RequestsExact'
  <2> SUFFICES ASSUME RequestsExact, [Next]_vars PROVE RequestsExact'
    OBVIOUS
  <2>1. ASSUME NEW c \in Clients, send(c) PROVE RequestsExact'
    BY <2>1, SendKeeps
  <2>2. ASSUME NEW t \in Threads, acceptFinish(t) PROVE RequestsExact'
    BY <2>2, FinishKeeps DEF acceptFinish, at
  <2>3. ASSUME NEW t \in Threads, answer(t) PROVE RequestsExact'
    BY <2>3, FinishKeeps DEF answer, at
  <2>4. ASSUME NEW t \in Threads, acceptConnection(t) PROVE RequestsExact'
    BY <2>4, AcceptKeeps
  <2>5. ASSUME NEW t \in Threads, readRequest(t) PROVE RequestsExact'
    BY <2>5, ReadKeeps
  <2>6. ASSUME NEW t \in Threads, dropConnection(t) PROVE RequestsExact'
    BY <2>6, DropKeeps
  <2>7. ASSUME NEW t \in Threads, lock(t) \/ unlock(t) \/ process(t) \/ release(t)
        PROVE  RequestsExact'
    BY <2>7, MoveKeeps
  <2>8. ASSUME NEW t \in Threads, protocolError(t) PROVE RequestsExact'
    BY <2>8, ErrorKeeps
  <2>9. ASSUME exit \/ UNCHANGED vars PROVE RequestsExact'
    <3>1. UNCHANGED <<client, queue, accept_mutex, pc, ipcFd, open, sent, dirty>>
      BY <2>9 DEF exit, vars
    <3>2. up' \in BOOLEAN
      BY <2>9 DEF exit, vars, RequestsExact, TypeOK
    <3>3. TypeOK'
      BY <3>1, <3>2 DEF RequestsExact, TypeOK
    <3>4. OneAccepts' /\ RequestOpen'
      BY <3>1 DEF RequestsExact, OneAccepts, RequestOpen, at
    <3>5. OneConnection' /\ WaitingIsPending'
      BY <3>1 DEF RequestsExact, OneConnection, WaitingIsPending
    <3>6. NothingLost' /\ OnlyKeptAreReset'
      BY <3>1 DEF RequestsExact, NothingLost, OnlyKeptAreReset
    <3> QED BY <3>3, <3>4, <3>5, <3>6 DEF RequestsExact
  <2> QED BY <2>1, <2>2, <2>3, <2>4, <2>5, <2>6, <2>7, <2>8, <2>9 DEF Next, run
<1> QED BY <1>1, <1>2, PTL DEF Spec

-----------------------------------------------------------------------------
(* ScriptCache: the setting of the theorem.                                *)

OneWorker == \A v, w \in Workers : v = w

-----------------------------------------------------------------------------
(* ScriptCache: the invariant.                                             *)

Steps == {"idle", "stat", "usage", "open", "read", "parse", "run", "source", "create", "write"}

Worker == [pc : Steps, since : Nat, mtime : Nat, version : Nat, size : Nat, data : Seq(Nat)]

Types ==
    /\ clock \in Nat /\ 1 <= clock /\ clock <= MaxClock
    /\ start_time \in Nat /\ 1 <= start_time /\ start_time <= clock
    /\ source \in [mtime : Nat, version : Nat]
    /\ source.mtime <= clock /\ source.version <= MaxVersion
    /\ compiled \in [exists : BOOLEAN, mtime : Nat, chunks : Seq(Nat)]
    /\ compiled.mtime <= clock /\ Len(compiled.chunks) <= FileLen
    /\ \A i \in 1 .. Len(compiled.chunks) : compiled.chunks[i] <= source.version
    /\ alive \in [running : BOOLEAN, since : Nat]
    /\ overlapped \in BOOLEAN /\ incomplete \in BOOLEAN
    /\ worker \in [Workers -> Worker]

\* The file was written to its end
Whole == Len(compiled.chunks) = FileLen

\* A file as old as the process, or younger
Trusted == compiled.mtime >= start_time

NobodyWrites == \A w \in Workers : worker[w].pc # "write"

TrustedIsWhole == alive.running /\ NobodyWrites /\ Trusted => Whole \/ incomplete

\* What a failed write left
Remainder == incomplete => ~Whole

\* Without a process nobody works, and no file is younger than its end
WhenDown ==
    ~alive.running => /\ compiled.mtime <= alive.since
                   /\ \A w \in Workers : worker[w].pc = "idle"

FileIsFresh ==
    Whole /\ ~overlapped =>
        compiled.chunks[1] = source.version \/ source.mtime >= compiled.mtime

\* The compiled file has the source that the request asked for, or a newer one
Serves(r) == compiled.chunks[1] >= r.since

\* What a worker knows at each step
Found(r) ==
    /\ r.version <= source.version /\ r.since <= source.version
    /\ r.pc = "usage" =>
          (r.mtime < compiled.mtime /\ Whole /\ ~overlapped => Serves(r))
    /\ r.pc \in {"open", "read", "parse"} =>
          Trusted /\ (~incomplete /\ ~overlapped => Serves(r))
    /\ r.pc = "read" => r.size = Len(compiled.chunks)
    /\ r.pc = "parse" =>
          /\ Len(r.data) = Len(compiled.chunks)
          /\ Len(r.data) > 0 => r.data[1] = compiled.chunks[1]
    /\ r.pc \in {"create", "write"} => r.version >= r.since
    /\ r.pc = "write" =>
          /\ Len(r.data) = Len(compiled.chunks) /\ Len(r.data) < FileLen
          /\ \A i \in 1 .. Len(compiled.chunks) : compiled.chunks[i] = r.version
          /\ ~overlapped => r.version = source.version
          /\ ~incomplete
    /\ r.pc = "run" => r.version >= r.since \/ overlapped

Inv ==
    /\ Types
    /\ TrustedIsWhole
    /\ Remainder
    /\ WhenDown
    /\ FileIsFresh
    /\ \A w \in Workers : Found(worker[w])

-----------------------------------------------------------------------------
(* ScriptCache: the steps.                                                 *)

\* The constants
Setting == ScriptCacheAssumption /\ OneWorker /\ SlowRestart

LEMMA Constants ==
  ASSUME Setting
  PROVE  /\ FileLen \in Nat /\ FileLen >= 1 /\ MaxClock \in Nat /\ MaxClock >= 1
         /\ MaxVersion \in Nat /\ MaxVersion >= 1
BY DEF Setting, ScriptCacheAssumption

\* A file without chunks.
LEMMA EmptyFile == \E e \in Seq(Nat) : e = << >> /\ Len(e) = 0
<1>1. << >> \in Seq(Nat) /\ Len(<< >>) = 0
  OBVIOUS
<1> QED BY <1>1

\* With one worker a step of w leaves no other one.
LEMMA OnlyWorker ==
  ASSUME Setting, NEW w \in Workers, worker \in [Workers -> Worker],
         NEW r \in Worker, worker' = [worker EXCEPT ![w] = r]
  PROVE  worker' \in [Workers -> Worker] /\ \A v \in Workers : v = w /\ worker'[v] = r
BY DEF Setting, OneWorker

\* A step that changes only what the worker knows, and does not end in a write.
LEMMA WorkerStep ==
  ASSUME Setting, Inv, NEW w \in Workers, worker[w].pc # "write", alive.running, NEW r \in Worker,
         worker' = [worker EXCEPT ![w] = r], r.pc # "write",
         UNCHANGED <<clock, source, compiled, start_time, alive, overlapped, incomplete>>,
         Found(r)
  PROVE  Inv'
<1>1. worker' \in [Workers -> Worker] /\ \A v \in Workers : v = w /\ worker'[v] = r
  BY OnlyWorker DEF Inv, Types
<1>2. Types'
  BY <1>1 DEF Inv, Types
<1>3. (\A v \in Workers : Found(worker[v]))'
  BY <1>1 DEF Found, Serves, Whole, Trusted
<1>4. NobodyWrites
  BY <1>1 DEF NobodyWrites
<1>5. TrustedIsWhole' /\ Remainder' /\ WhenDown' /\ FileIsFresh'
  BY <1>4 DEF Inv, TrustedIsWhole, Remainder, WhenDown, FileIsFresh, Trusted, Whole
<1> QED BY <1>1, <1>2, <1>3, <1>5 DEF Inv

\* What the types say about one worker and the file.
LEMMA Facts ==
  ASSUME Setting, Inv, NEW w \in Workers
  PROVE  /\ worker[w] \in Worker /\ Found(worker[w]) /\ \A v \in Workers : v = w
         /\ source.version \in Nat /\ source.mtime \in Nat /\ compiled.mtime \in Nat
         /\ compiled.chunks \in Seq(Nat) /\ Len(compiled.chunks) \in Nat
         /\ clock \in Nat /\ start_time \in Nat /\ start_time >= 1
BY DEF Inv, Types, Setting, OneWorker

\* request, statSource and checkFileUsage look at the two files.
LEMMA LooksKeepInv ==
  ASSUME Setting, Inv, NEW w \in Workers, request(w) \/ statSource(w) \/ checkFileUsage(w)
  PROVE  Inv'
<1>1. PICK r : r = worker[w]
  OBVIOUS
<1>2. /\ r \in Worker /\ Found(r) /\ source.version \in Nat /\ source.mtime \in Nat
      /\ compiled.mtime \in Nat /\ start_time \in Nat
  BY <1>1, Facts
<1>3. alive.running /\ r.pc \in {"idle", "stat", "usage"}
      /\ UNCHANGED <<clock, source, compiled, start_time, alive, overlapped, incomplete>>
  BY <1>1 DEF request, statSource, checkFileUsage, working
<1>4. CASE request(w)
  <2> DEFINE q == IF compiled.exists THEN "stat" ELSE "source"
             n == [Idle EXCEPT !.pc = q, !.since = source.version]
  <2>1. worker' = [worker EXCEPT ![w] = n] /\ q \in {"stat", "source"}
    BY <1>4 DEF request
  <2> HIDE DEF q
  <2>2. /\ n \in Worker /\ n.version = 0 /\ n.since = source.version
        /\ n.pc \in {"stat", "source"}
    <3>1. Idle \in Worker /\ Idle.version = 0
      BY DEF Idle, Worker, Steps
    <3> QED BY <1>2, <2>1, <3>1 DEF Worker, Steps
  <2>3. Found(n)
    <3> HIDE DEF n
    <3> QED BY <1>2, <2>2 DEF Found
  <2> HIDE DEF n
  <2> QED BY <1>1, <1>3, <2>1, <2>2, <2>3, WorkerStep
<1>5. CASE statSource(w)
  <2> DEFINE n == [r EXCEPT !.pc = "usage", !.mtime = source.mtime]
  <2>1. worker' = [worker EXCEPT ![w] = n] /\ r.pc = "stat"
    BY <1>1, <1>5 DEF statSource, working
  <2>2. /\ n \in Worker /\ n.version = r.version /\ n.since = r.since
        /\ n.pc = "usage" /\ n.mtime = source.mtime
    BY <1>2 DEF Worker, Steps
  <2>3. n.mtime < compiled.mtime /\ Whole /\ ~overlapped => Serves(n)
    <3> HIDE DEF n
    <3>1. FileIsFresh /\ r.since \in Nat /\ r.since <= source.version
      BY <1>2 DEF Inv, Worker, Found
    <3>2. ASSUME source.mtime < compiled.mtime, Whole, ~overlapped
          PROVE  compiled.chunks[1] = source.version
      BY <1>2, <3>1, <3>2 DEF FileIsFresh
    <3> QED BY <1>2, <2>2, <3>1, <3>2 DEF Serves
  <2>4. Found(n)
    <3> HIDE DEF n
    <3> QED BY <1>2, <2>2, <2>3 DEF Found
  <2> HIDE DEF n
  <2> QED BY <1>1, <1>3, <2>1, <2>2, <2>4, WorkerStep
<1>6. CASE checkFileUsage(w)
  <2> DEFINE n == [r EXCEPT !.pc = IF mustCompile(r.mtime) THEN "source" ELSE "open"]
  <2>1. worker' = [worker EXCEPT ![w] = n] /\ r.pc = "usage"
    BY <1>1, <1>6 DEF checkFileUsage, working
  <2>2. /\ n \in Worker /\ n.version = r.version /\ n.since = r.since
        /\ n.pc = IF mustCompile(r.mtime) THEN "source" ELSE "open"
    BY <1>2 DEF Worker, Steps
  <2>3. NobodyWrites
    BY <1>1, <2>1, Facts DEF NobodyWrites
  <2>4. ~mustCompile(r.mtime) => Trusted /\ (~incomplete /\ ~overlapped => Serves(n))
    <3> HIDE DEF n
    <3> SUFFICES ASSUME ~mustCompile(r.mtime)
                 PROVE  Trusted /\ (~incomplete /\ ~overlapped => Serves(n))
      OBVIOUS
    <3>1. r.mtime < compiled.mtime /\ Trusted
      BY <1>2 DEF mustCompile, Trusted, Worker
    <3>2. Whole \/ incomplete
      BY <1>3, <2>3, <3>1 DEF Inv, TrustedIsWhole
    <3> QED BY <1>2, <2>1, <2>2, <3>1, <3>2 DEF Found, Serves
  <2>5. Found(n)
    <3> HIDE DEF n
    <3> QED BY <1>2, <2>2, <2>4 DEF Found
  <2>6. n.pc # "write"
    <3> HIDE DEF n
    <3> QED BY <2>2
  <2> HIDE DEF n
  <2> QED BY <1>1, <1>3, <2>1, <2>2, <2>5, <2>6, WorkerStep
<1> QED BY <1>4, <1>5, <1>6

\* openCompiled, readCompiled and loadFromStream: the file is trusted, so it is whole or
\* what a failed write left, and stays as it is.
LEMMA LoadKeepsInv ==
  ASSUME Setting, Inv, NEW w \in Workers,
         openCompiled(w) \/ readCompiled(w) \/ loadFromStream(w)
  PROVE  Inv'
<1>1. PICK r : r = worker[w]
  OBVIOUS
<1>2. /\ r \in Worker /\ Found(r) /\ source.version \in Nat
      /\ compiled.chunks \in Seq(Nat) /\ Len(compiled.chunks) \in Nat
  BY <1>1, Facts
<1>3. alive.running /\ r.pc \in {"open", "read", "parse"}
      /\ UNCHANGED <<clock, source, compiled, start_time, alive, overlapped, incomplete>>
  BY <1>1 DEF openCompiled, readCompiled, loadFromStream, working
<1> DEFINE m == Len(compiled.chunks)
<1>4. /\ FileLen \in Nat /\ FileLen >= 1 /\ m \in Nat
      /\ (m = FileLen) = Whole /\ (Whole => ~incomplete)
  BY <1>2, Constants DEF Inv, Remainder, Whole
<1>5. \A i \in 1 .. m : compiled.chunks[i] \in Nat /\ compiled.chunks[i] <= source.version
  BY <1>2, <1>4 DEF Inv, Types
<1>6. CASE openCompiled(w)
  <2> DEFINE n == [r EXCEPT !.pc = "read", !.size = m]
  <2>1. worker' = [worker EXCEPT ![w] = n] /\ r.pc = "open"
    BY <1>1, <1>6 DEF openCompiled, working
  <2>2. /\ n \in Worker /\ n.version = r.version /\ n.since = r.since
        /\ n.pc = "read" /\ n.size = m
    BY <1>2, <1>4 DEF Worker, Steps
  <2>3. Found(n)
    <3> HIDE DEF n
    <3> QED BY <1>2, <2>1, <2>2 DEF Found, Serves
  <2> HIDE DEF n
  <2> QED BY <1>1, <1>3, <2>1, <2>2, <2>3, WorkerStep
<1>7. CASE readCompiled(w)
  <2> DEFINE d == SubSeq(compiled.chunks, 1, m)
             n == [r EXCEPT !.pc = "parse", !.data = d]
  <2>1. worker' = [worker EXCEPT ![w] = n] /\ r.pc = "read"
    <3>1. r.pc = "read" /\ r.size = m
      BY <1>1, <1>2, <1>7 DEF readCompiled, working, Found
    <3>2. m >= m
      BY <1>4
    <3> QED BY <1>1, <1>7, <3>1, <3>2 DEF readCompiled
  <2>2. d \in Seq(Nat) /\ Len(d) = m /\ (m > 0 => d[1] = compiled.chunks[1])
    BY <1>2
  <2> HIDE DEF d
  <2>3. /\ n \in Worker /\ n.version = r.version /\ n.since = r.since
        /\ n.pc = "parse" /\ n.data = d
    BY <1>2, <2>2 DEF Worker, Steps
  <2>4. Found(n)
    <3> HIDE DEF n
    <3> QED BY <1>2, <2>1, <2>2, <2>3 DEF Found, Serves
  <2> HIDE DEF n
  <2> QED BY <1>1, <1>3, <2>1, <2>3, <2>4, WorkerStep
<1>8. CASE loadFromStream(w)
  <2> DEFINE c == r.data[1]
             n == [r EXCEPT !.pc = IF c = 0 THEN "source" ELSE "run", !.version = c]
  <2>1. r.pc = "parse" /\ InBounds(r.data) /\ r.data \in Seq(Nat) /\ Len(r.data) = m
        /\ (m > 0 => c = compiled.chunks[1])
    <3>1. r.pc = "parse" /\ InBounds(r.data)
      BY <1>1, <1>8 DEF loadFromStream, working
    <3>2. r.data \in Seq(Nat)
      BY <1>2 DEF Worker
    <3>3. Len(r.data) = m /\ (Len(r.data) > 0 => c = compiled.chunks[1])
      BY <1>2, <3>1 DEF Found
    <3> QED BY <3>1, <3>2, <3>3
  <2>2. worker' = [worker EXCEPT ![w] = n]
    BY <1>1, <1>8 DEF loadFromStream
  <2>3. m > 0 /\ (c = 0 \/ m = FileLen)
    BY <1>4, <2>1 DEF InBounds
  <2>4. c \in Nat /\ c <= source.version /\ c = compiled.chunks[1]
    <3> HIDE DEF c
    <3> QED BY <1>4, <1>5, <2>1, <2>3
  <2>5. c = 0 \/ c >= r.since \/ overlapped
    <3>1. Trusted /\ (~incomplete /\ ~overlapped => compiled.chunks[1] >= r.since)
      BY <1>2, <2>1 DEF Found, Serves
    <3> HIDE DEF c
    <3> QED BY <1>4, <2>3, <2>4, <3>1
  <2> HIDE DEF c
  <2>6. /\ n \in Worker /\ n.version = c /\ n.since = r.since
        /\ n.pc = IF c = 0 THEN "source" ELSE "run"
    BY <1>2, <2>4 DEF Worker, Steps
  <2>7. Found(n) /\ n.pc # "write"
    <3> HIDE DEF n
    <3> QED BY <1>2, <2>4, <2>5, <2>6 DEF Found
  <2> HIDE DEF n
  <2> QED BY <1>1, <1>3, <2>2, <2>6, <2>7, WorkerStep
<1> QED BY <1>6, <1>7, <1>8

\* readSource takes the newest text; a script that ran leaves nothing behind.
LEMMA SourceKeepsInv ==
  ASSUME Setting, Inv, NEW w \in Workers, readSource(w) \/ done(w)
  PROVE  Inv'
<1>1. PICK r : r = worker[w]
  OBVIOUS
<1>2. r \in Worker /\ Found(r) /\ source.version \in Nat
  BY <1>1, Facts
<1>3. alive.running /\ r.pc \in {"source", "run"}
      /\ UNCHANGED <<clock, source, compiled, start_time, alive, overlapped, incomplete>>
  BY <1>1 DEF readSource, done, working
<1>4. CASE readSource(w)
  <2> DEFINE n == [r EXCEPT !.pc = "create", !.version = source.version]
  <2>1. worker' = [worker EXCEPT ![w] = n]
    BY <1>1, <1>4 DEF readSource
  <2>2. /\ n \in Worker /\ n.version = source.version /\ n.since = r.since /\ n.pc = "create"
    BY <1>2 DEF Worker, Steps
  <2>3. Found(n)
    <3> HIDE DEF n
    <3> QED BY <1>2, <2>2 DEF Found, Worker
  <2> HIDE DEF n
  <2> QED BY <1>1, <1>3, <2>1, <2>2, <2>3, WorkerStep
<1>5. CASE done(w)
  <2>1. worker' = [worker EXCEPT ![w] = Idle]
    BY <1>5 DEF done
  <2>2. Idle \in Worker /\ Idle.pc = "idle" /\ Idle.version = 0 /\ Idle.since = 0
    BY DEF Idle, Worker, Steps
  <2>3. Found(Idle)
    BY <1>2, <2>2 DEF Found
  <2> QED BY <1>1, <1>3, <2>1, <2>2, <2>3, WorkerStep
<1> QED BY <1>4, <1>5

\* A worker that could not open or write the file runs what it has compiled.
LEMMA RunsOwn ==
  ASSUME Setting, Inv, NEW w \in Workers, worker[w].pc \in {"create", "write"},
         NEW r \in Worker, r = [worker[w] EXCEPT !.pc = "run"],
         source' = source
  PROVE  r.pc = "run" /\ Found(r)'
<1>1. /\ worker[w] \in Worker /\ Found(worker[w]) /\ source.version \in Nat
  BY Facts
<1>2. r.version = worker[w].version /\ r.since = worker[w].since /\ r.pc = "run"
  BY <1>1 DEF Worker
<1> QED BY <1>1, <1>2 DEF Found

\* createCompiled empties the file, which from then on is being written, unless it cannot.
LEMMA CreateKeepsInv ==
  ASSUME Setting, Inv, NEW w \in Workers, createCompiled(w)
  PROVE  Inv'
<1>1. PICK r : r = worker[w]
  OBVIOUS
<1>2. /\ r \in Worker /\ Found(r) /\ source.version \in Nat /\ Types
      /\ FileLen \in Nat /\ FileLen >= 1
  BY <1>1, Facts, Constants DEF Inv
<1>3. PICK e \in Seq(Nat) : e = << >> /\ Len(e) = 0
  BY EmptyFile
<1> DEFINE n == [r EXCEPT !.pc = "write", !.data = e]
           q == [r EXCEPT !.pc = "run"]
<1>4. /\ r.pc = "create" /\ alive.running /\ UNCHANGED <<clock, source, start_time, alive>>
      /\ \/ /\ worker' = [worker EXCEPT ![w] = n]
            /\ compiled' = [exists |-> TRUE, mtime |-> clock, chunks |-> e]
            /\ overlapped' = (source.version # r.version) /\ incomplete' = FALSE
         \/ /\ worker' = [worker EXCEPT ![w] = q]
            /\ UNCHANGED <<compiled, overlapped, incomplete>>
  BY <1>1, <1>3 DEF createCompiled, working
<1>5. CASE worker' = [worker EXCEPT ![w] = q] /\ UNCHANGED <<compiled, overlapped, incomplete>>
  <2>1. q \in Worker
    BY <1>2 DEF Worker, Steps
  <2>2. q.pc = "run" /\ Found(q)'
    BY <1>1, <1>4, <2>1, RunsOwn
  <2> HIDE DEF q
  <2>3. UNCHANGED <<clock, source, compiled, start_time, alive, overlapped, incomplete>>
    BY <1>4, <1>5
  <2>4. Found(q)
    BY <2>2, <2>3 DEF Found
  <2> QED BY <1>1, <1>4, <1>5, <2>1, <2>2, <2>3, <2>4, WorkerStep
<1>6. CASE /\ worker' = [worker EXCEPT ![w] = n]
           /\ compiled' = [exists |-> TRUE, mtime |-> clock, chunks |-> e]
           /\ overlapped' = (source.version # r.version) /\ incomplete' = FALSE
  <2>1. /\ n \in Worker /\ n.version = r.version /\ n.since = r.since
        /\ n.pc = "write" /\ n.data = e
    BY <1>2 DEF Worker, Steps
  <2> HIDE DEF n
  <2>2. worker' \in [Workers -> Worker] /\ \A v \in Workers : v = w /\ worker'[v] = n
    BY <1>2, <1>6, <2>1, OnlyWorker DEF Types
  <2>3. /\ compiled'.chunks = e /\ compiled'.mtime = clock /\ Len(compiled'.chunks) = 0
        /\ compiled' \in [exists : BOOLEAN, mtime : Nat, chunks : Seq(Nat)]
    BY <1>2, <1>3, <1>6 DEF Types
  <2>4. Types'
    <3>1. overlapped' \in BOOLEAN /\ incomplete' \in BOOLEAN
      BY <1>6
    <3> QED BY <1>2, <1>4, <2>2, <2>3, <3>1 DEF Types
  <2>5. ~Whole' /\ ~NobodyWrites'
    BY <1>2, <2>1, <2>2, <2>3 DEF Whole, NobodyWrites
  <2>6. Found(n)'
    <3>1. overlapped' = (source.version # r.version) /\ source' = source
      BY <1>4, <1>6
    <3>2. ~overlapped' => r.version = source.version
      BY <3>1
    <3>3. r.version <= source.version /\ r.since <= source.version /\ r.version >= r.since
      BY <1>2, <1>4 DEF Found
    <3> QED BY <1>2, <1>3, <1>6, <2>1, <2>3, <3>1, <3>2, <3>3 DEF Found
  <2>7. (\A v \in Workers : Found(worker[v]))'
    BY <2>2, <2>6 DEF Found, Serves, Whole, Trusted
  <2> QED BY <1>4, <1>6, <2>4, <2>5, <2>7
          DEF Inv, TrustedIsWhole, Remainder, WhenDown, FileIsFresh
<1> QED BY <1>4, <1>5, <1>6

\* writeCompiled adds a chunk; the last one makes the file whole.
LEMMA ChunkKeepsInv ==
  ASSUME Setting, Inv, NEW w \in Workers, writeCompiled(w), incomplete' = incomplete
  PROVE  Inv'
<1>1. PICK r : r = worker[w]
  OBVIOUS
<1>2. /\ r \in Worker /\ Found(r) /\ source.version \in Nat /\ Types
      /\ FileLen \in Nat /\ FileLen >= 1
  BY <1>1, Facts, Constants DEF Inv
<1>3. PICK f : f = compiled.chunks
  OBVIOUS
<1> DEFINE d == Append(r.data, r.version)
           g == written(f, Len(d), r.version)
           q == IF Len(d) = FileLen THEN "run" ELSE "write"
           n == [r EXCEPT !.data = d, !.pc = q]
           m == Len(f)
<1>4. /\ worker' = [worker EXCEPT ![w] = n] /\ r.pc = "write" /\ alive.running
      /\ compiled' = [compiled EXCEPT !.mtime = clock, !.chunks = g]
      /\ UNCHANGED <<clock, source, start_time, alive, overlapped, incomplete>> /\ ~incomplete
  <2>1. r.pc = "write" /\ ~incomplete
    BY <1>1, <1>2 DEF writeCompiled, working, Found
  <2> QED BY <1>1, <1>3, <2>1 DEF writeCompiled, working
<1>5. /\ f \in Seq(Nat) /\ m \in Nat /\ Len(r.data) = m /\ m < FileLen
      /\ \A i \in 1 .. m : f[i] = r.version
      /\ r.version \in Nat /\ r.version >= r.since /\ r.version <= source.version
      /\ r.data \in Seq(Nat)
      /\ ~overlapped => r.version = source.version
  BY <1>2, <1>3, <1>4 DEF Found, Worker, Types
<1>6. d \in Seq(Nat) /\ Len(d) = m + 1
  BY <1>5, AppendProperties
<1> HIDE DEF d
<1>7. /\ g \in Seq(Nat) /\ Len(g) = m + 1 /\ \A i \in 1 .. m + 1 : g[i] = r.version
  <2>1. g = [j \in 1 .. m + 1 |-> IF j = m + 1 THEN r.version ELSE IF j <= m THEN f[j] ELSE 0]
    <3> HIDE DEF m
    <3> QED BY <1>5, <1>6 DEF written, m
  <2>2. \A j \in 1 .. m + 1 : g[j] = r.version
    <3>1. \A j \in 1 .. m + 1 : j = m + 1 \/ j \in 1 .. m
      BY <1>5
    <3>2. \A j \in 1 .. m + 1 : g[j] = IF j = m + 1 THEN r.version ELSE IF j <= m THEN f[j] ELSE 0
      <4> HIDE DEF g, m
      <4> QED BY <2>1
    <3>3. \A j \in 1 .. m : j <= m
      <4> HIDE DEF m
      <4> QED BY <1>5
    <3>4. \A i \in 1 .. m : f[i] = r.version
      BY <1>5
    <3> HIDE DEF g, m
    <3> QED BY <3>1, <3>2, <3>3, <3>4
  <2>3. g \in [1 .. m + 1 -> Nat]
    <3> HIDE DEF g, m
    <3> QED BY <1>5, <2>1, <2>2
  <2> HIDE DEF g, m
  <2> QED BY <1>5, <2>2, <2>3
<1>8. q \in {"run", "write"} /\ (q = "run" <=> m + 1 = FileLen)
  BY <1>6
<1> HIDE DEF g, q, m
<1>9. /\ n \in Worker /\ n.version = r.version /\ n.since = r.since /\ n.pc = q /\ n.data = d
  BY <1>2, <1>6, <1>8 DEF Worker, Steps
<1> HIDE DEF n
<1>10. worker' \in [Workers -> Worker] /\ \A v \in Workers : v = w /\ worker'[v] = n
  BY <1>2, <1>4, <1>9, OnlyWorker DEF Types
<1>11. /\ compiled' \in [exists : BOOLEAN, mtime : Nat, chunks : Seq(Nat)]
       /\ compiled'.chunks = g /\ compiled'.mtime = clock
  BY <1>2, <1>4, <1>7 DEF Types
<1>12. Types'
  <2>1. Len(g) <= FileLen
    BY <1>2, <1>5, <1>7
  <2>2. \A i \in 1 .. Len(g) : g[i] <= source.version
    BY <1>5, <1>7
  <2> QED BY <1>2, <1>4, <1>10, <1>11, <2>1, <2>2 DEF Types
<1>13. Whole' <=> q = "run"
  BY <1>7, <1>8, <1>11 DEF Whole
<1>14. NobodyWrites' <=> q = "run"
  BY <1>8, <1>9, <1>10 DEF NobodyWrites
<1>15. Whole' /\ ~overlapped' => compiled'.chunks[1] = source'.version
  BY <1>4, <1>5, <1>7, <1>11
<1>16. Found(n)'
  <2>1. m + 1 = Len(compiled'.chunks) /\ (q = "write" => m + 1 < FileLen)
    BY <1>2, <1>5, <1>7, <1>8, <1>11
  <2> QED BY <1>2, <1>4, <1>5, <1>6, <1>7, <1>8, <1>9, <1>11, <2>1 DEF Found
<1>17. (\A v \in Workers : Found(worker[v]))'
  BY <1>10, <1>16 DEF Found, Serves, Whole, Trusted
<1> QED BY <1>4, <1>12, <1>13, <1>14, <1>15, <1>17
        DEF Inv, TrustedIsWhole, Remainder, WhenDown, FileIsFresh

\* A write that fails leaves the file as it is, not to its end.
LEMMA WriteFailsKeepsInv ==
  ASSUME Setting, Inv, NEW w \in Workers, writeCompiled(w), incomplete' # incomplete
  PROVE  Inv'
<1>1. PICK r : r = worker[w]
  OBVIOUS
<1>2. /\ r \in Worker /\ Found(r) /\ Types /\ TrustedIsWhole /\ WhenDown /\ FileIsFresh
      /\ Len(compiled.chunks) \in Nat /\ FileLen \in Nat
  BY <1>1, Facts, Constants DEF Inv
<1> DEFINE n == [r EXCEPT !.pc = "run"]
<1>3. /\ worker' = [worker EXCEPT ![w] = n] /\ r.pc = "write" /\ alive.running
      /\ UNCHANGED <<clock, source, compiled, start_time, alive, overlapped>> /\ incomplete'
  BY <1>1 DEF writeCompiled, working
<1>4. n \in Worker
  BY <1>2 DEF Worker, Steps
<1>5. n.pc = "run" /\ Found(n)'
  BY <1>1, <1>3, <1>4, RunsOwn
<1> HIDE DEF n
<1>6. worker' \in [Workers -> Worker] /\ \A v \in Workers : v = w /\ worker'[v] = n
  BY <1>2, <1>3, <1>4, OnlyWorker DEF Types
<1>7. ~Whole
  BY <1>2, <1>3 DEF Found, Whole
<1>8. Types'
  <2>1. incomplete' \in BOOLEAN
    BY <1>1, <1>3 DEF writeCompiled, working
  <2> QED BY <1>2, <1>3, <1>6, <2>1 DEF Types
<1>9. (\A v \in Workers : Found(worker[v]))'
  BY <1>5, <1>6 DEF Found, Serves, Whole, Trusted
<1> QED BY <1>2, <1>3, <1>7, <1>8, <1>9
        DEF Inv, TrustedIsWhole, Remainder, WhenDown, FileIsFresh, Whole

-----------------------------------------------------------------------------
(* ScriptCache: the world around.                                          *)

\* An edit takes the time of now, which no compiled file is past.
LEMMA WorldKeepsInv ==
  ASSUME Setting, Inv, tick \/ edit \/ crash \/ initStartTime
  PROVE  Inv'
<1>1. /\ Types /\ TrustedIsWhole /\ Remainder /\ WhenDown /\ FileIsFresh
      /\ MaxClock \in Nat /\ MaxVersion \in Nat
  BY Constants DEF Inv
<1>2. \A w \in Workers : worker[w] \in Worker /\ Found(worker[w])
  BY <1>1 DEF Inv, Types
<1>3. CASE tick
  <2>1. UNCHANGED <<source, compiled, start_time, alive, worker, overlapped, incomplete>>
        /\ clock' = clock + 1 /\ clock < MaxClock
    BY <1>3 DEF tick
  <2>2. Types'
    BY <1>1, <2>1 DEF Types
  <2>3. (\A w \in Workers : Found(worker[w]))'
    BY <1>2, <2>1 DEF Found, Serves, Whole, Trusted
  <2> QED BY <1>1, <2>1, <2>2, <2>3
          DEF Inv, TrustedIsWhole, Remainder, NobodyWrites, Trusted, Whole, WhenDown, FileIsFresh
<1>4. CASE edit
  <2>1. /\ UNCHANGED <<clock, compiled, start_time, alive, worker, incomplete>>
        /\ source' = [mtime |-> clock, version |-> source.version + 1]
        /\ source.version < MaxVersion
        /\ overlapped' = (overlapped \/ \E w \in Workers : worker[w].pc = "write")
    BY <1>4 DEF edit
  <2>2. source'.mtime = clock /\ source'.version = source.version + 1
        /\ source' \in [mtime : Nat, version : Nat]
    BY <1>1, <2>1 DEF Types
  <2>3. /\ overlapped' \in BOOLEAN /\ (~overlapped' => ~overlapped)
        /\ \A w \in Workers : worker[w].pc = "write" => overlapped'
    BY <2>1
  <2>4. Types'
    <3>1. source.version \in Nat /\ source'.version <= MaxVersion /\ compiled.chunks \in Seq(Nat)
      BY <1>1, <2>1, <2>2 DEF Types
    <3>2. \A i \in 1 .. Len(compiled.chunks) :
              compiled.chunks[i] \in Nat /\ compiled.chunks[i] <= source.version
      BY <1>1 DEF Types
    <3>3. \A i \in 1 .. Len(compiled.chunks) : compiled.chunks[i] <= source'.version
      BY <2>2, <3>1, <3>2
    <3> QED BY <1>1, <2>1, <2>2, <2>3, <3>1, <3>3 DEF Types
  <2>5. FileIsFresh'
    BY <1>1, <2>1, <2>2 DEF FileIsFresh, Types
  <2>6. ASSUME NEW w \in Workers PROVE Found(worker[w])'
    <3>1. PICK r : r = worker[w]
      OBVIOUS
    <3>2. r \in Worker /\ Found(r) /\ source.version \in Nat
      BY <1>1, <1>2, <3>1 DEF Types
    <3>3. r.version \in Nat /\ r.since \in Nat
      BY <3>2 DEF Worker
    <3>4. r.pc = "write" => overlapped'
      BY <2>3, <3>1
    <3>5. Found(r)'
      BY <2>1, <2>2, <2>3, <3>2, <3>3, <3>4 DEF Found, Serves, Whole, Trusted
    <3>6. worker'[w] = r
      BY <2>1, <3>1
    <3> QED BY <3>5, <3>6 DEF Found, Serves, Whole, Trusted
  <2> QED BY <1>1, <2>1, <2>4, <2>5, <2>6
          DEF Inv, TrustedIsWhole, Remainder, NobodyWrites, Trusted, Whole, WhenDown
<1>5. Idle \in Worker /\ Idle.pc = "idle" /\ Idle.version = 0 /\ Idle.since = 0
  BY DEF Idle, Worker, Steps
<1>6. CASE crash
  <2>1. /\ UNCHANGED <<clock, source, compiled, start_time, overlapped, incomplete>>
        /\ alive' = [running |-> FALSE, since |-> clock] /\ worker' = [w \in Workers |-> Idle]
    BY <1>6 DEF crash
  <2>2. ~alive'.running /\ alive'.since = clock
    BY <2>1
  <2>3. Types'
    BY <1>1, <1>5, <2>1 DEF Types
  <2>4. (\A w \in Workers : Found(worker[w]))'
    <3>1. source.version \in Nat
      BY <1>1 DEF Types
    <3> QED BY <1>5, <2>1, <3>1 DEF Found
  <2>5. WhenDown'
    BY <1>1, <1>5, <2>1, <2>2 DEF WhenDown, Types
  <2> QED BY <1>1, <2>1, <2>2, <2>3, <2>4, <2>5
          DEF Inv, TrustedIsWhole, Remainder, FileIsFresh, Whole
<1>7. CASE initStartTime
  <2>1. /\ UNCHANGED <<clock, source, compiled, worker, overlapped, incomplete>> /\ ~alive.running
        /\ alive' = [running |-> TRUE, since |-> clock] /\ start_time' = clock /\ clock > alive.since
    BY <1>7 DEF initStartTime, Setting
  <2>2. ~Trusted' /\ alive'.running
    BY <1>1, <2>1 DEF Trusted, WhenDown, Types
  <2>3. Types'
    BY <1>1, <2>1 DEF Types
  <2>4. \A w \in Workers : worker[w].pc = "idle"
    BY <1>1, <2>1 DEF WhenDown
  <2>5. (\A w \in Workers : Found(worker[w]))'
    BY <1>2, <2>1, <2>4 DEF Found
  <2> QED BY <1>1, <2>1, <2>2, <2>3, <2>5
          DEF Inv, TrustedIsWhole, Remainder, WhenDown, FileIsFresh, Whole
<1> QED BY <1>3, <1>4, <1>6, <1>7

-----------------------------------------------------------------------------
(* ScriptCache: the theorem.                                               *)

LEMMA InvInit ==
  ASSUME Setting, CacheInit
  PROVE  Inv
<1>1. FileLen \in Nat /\ FileLen >= 1 /\ MaxClock \in Nat /\ MaxClock >= 1
      /\ MaxVersion \in Nat /\ MaxVersion >= 1
  BY Constants
<1>2. Idle \in Worker /\ Idle.pc = "idle" /\ Idle.version = 0 /\ Idle.since = 0
  BY DEF Idle, Worker, Steps
<1>3. \A w \in Workers : worker[w] = Idle
  BY DEF CacheInit
<1>4. /\ source.version = 1 /\ source.mtime = 0 /\ compiled.mtime = 0
      /\ compiled.chunks = << >> /\ start_time = 1 /\ clock = 1 /\ alive.running
      /\ Len(compiled.chunks) = 0
  BY DEF CacheInit
<1>5. Types
  <2>1. compiled \in [exists : BOOLEAN, mtime : Nat, chunks : Seq(Nat)]
    <3>1. PICK e \in Seq(Nat) : e = << >>
      BY EmptyFile
    <3>2. compiled = [exists |-> FALSE, mtime |-> 0, chunks |-> e]
      BY <3>1 DEF CacheInit
    <3> QED BY <3>2
  <2>2. worker \in [Workers -> Worker]
    BY <1>2 DEF CacheInit
  <2>3. source \in [mtime : Nat, version : Nat] /\ alive \in [running : BOOLEAN, since : Nat]
        /\ overlapped \in BOOLEAN /\ incomplete \in BOOLEAN
    BY DEF CacheInit
  <2> QED BY <1>1, <1>4, <2>1, <2>2, <2>3 DEF Types
<1>6. \A w \in Workers : Found(worker[w])
  BY <1>2, <1>3, <1>4 DEF Found
<1>7. ~Trusted /\ ~Whole
  BY <1>1, <1>4 DEF Trusted, Whole
<1> QED BY <1>4, <1>5, <1>6, <1>7 DEF Inv, TrustedIsWhole, Remainder, WhenDown, FileIsFresh

LEMMA InvNext ==
  ASSUME Setting, Inv, [CacheNext]_cacheVars
  PROVE  Inv'
<1>1. ASSUME NEW w \in Workers, step(w) PROVE Inv'
  BY <1>1, LooksKeepInv, LoadKeepsInv, SourceKeepsInv, CreateKeepsInv, ChunkKeepsInv,
     WriteFailsKeepsInv DEF step
<1>2. CASE UNCHANGED cacheVars
  <2>1. UNCHANGED <<clock, source, compiled, start_time, alive, worker, overlapped, incomplete>>
    BY <1>2 DEF cacheVars
  <2> QED BY <2>1 DEF Inv, Types, TrustedIsWhole, Remainder, NobodyWrites, WhenDown, FileIsFresh, Found,
                      Serves, Whole, Trusted
<1> QED BY <1>1, <1>2, WorldKeepsInv DEF CacheNext

\* What Inv knows of a worker that parses or runs.
LEMMA InvIsSound ==
  ASSUME Setting, Inv
  PROVE  CacheSound
<1>1. Types /\ FileLen \in Nat /\ FileLen >= 1 /\ MaxClock \in Nat /\ MaxVersion \in Nat
  BY Constants DEF Inv
<1>2. \A w \in Workers : worker[w] \in Worker /\ Found(worker[w])
  BY <1>1 DEF Inv, Types
<1>3. CacheTypeOK
  <2>1. /\ clock \in 1 .. MaxClock /\ start_time \in 1 .. clock
        /\ source \in [mtime : 0 .. clock, version : Versions]
        /\ compiled.mtime \in 0 .. clock /\ compiled.exists \in BOOLEAN /\ overlapped \in BOOLEAN
        /\ incomplete \in BOOLEAN
    BY <1>1 DEF Types, Versions
  <2>2. \A i \in DOMAIN compiled.chunks : i <= FileLen /\ compiled.chunks[i] \in Versions
    <3>1. compiled.chunks \in Seq(Nat) /\ Len(compiled.chunks) <= FileLen
          /\ source.version \in Nat /\ source.version <= MaxVersion
      BY <1>1 DEF Types
    <3>2. \A i \in 1 .. Len(compiled.chunks) :
              compiled.chunks[i] \in Nat /\ compiled.chunks[i] <= source.version
      BY <1>1 DEF Types
    <3>3. DOMAIN compiled.chunks = 1 .. Len(compiled.chunks) /\ Len(compiled.chunks) \in Nat
      BY <3>1
    <3>4. \A i \in 1 .. Len(compiled.chunks) : i <= FileLen
      BY <1>1, <3>1, <3>3
    <3>5. \A x : x \in Nat /\ x <= source.version => x \in Versions
      BY <1>1, <3>1 DEF Versions
    <3> QED BY <3>2, <3>3, <3>4, <3>5
  <2>3. \A w \in Workers : worker[w].pc \in Steps /\ worker[w].version <= source.version
    BY <1>2 DEF Found, Worker
  <2> QED BY <2>1, <2>2, <2>3 DEF CacheTypeOK, Steps
<1>4. LoadsInBounds
  <2> SUFFICES ASSUME NEW w \in Workers, worker[w].pc = "parse", ~incomplete
               PROVE  InBounds(worker[w].data)
    BY DEF LoadsInBounds
  <2>0. PICK r : r = worker[w]
    OBVIOUS
  <2>1. Trusted /\ Len(r.data) = Len(compiled.chunks) /\ r.data \in Seq(Nat)
    <3>1. r.data \in Seq(Nat) /\ Found(r)
      BY <1>2, <2>0 DEF Worker
    <3>2. r.pc = "parse"
      BY <2>0
    <3> QED BY <3>1, <3>2 DEF Found
  <2>2. NobodyWrites /\ alive.running
    BY <1>1, Facts DEF NobodyWrites, WhenDown, Inv
  <2>3. Whole
    BY <2>1, <2>2 DEF Inv, TrustedIsWhole
  <2>4. Len(r.data) = FileLen /\ r.data # << >>
    BY <1>1, <2>1, <2>3 DEF Whole
  <2> QED BY <2>0, <2>4 DEF InBounds
<1>5. FreshUnlessOverlapped
  <2> SUFFICES ASSUME NEW w \in Workers, worker[w].pc = "run",
                      worker[w].version < worker[w].since
               PROVE  overlapped
    BY DEF FreshUnlessOverlapped
  <2>1. worker[w].version \in Nat /\ worker[w].since \in Nat
    BY <1>2 DEF Worker
  <2> QED BY <1>2, <2>1 DEF Found
<1> QED BY <1>3, <1>4, <1>5 DEF CacheSound

\* CacheSound: with one worker and slow restarts, whatever crashes and edits there are,
\* compileFile never parses a partial file but one that a failed write left, and what it
\* runs is as new as the request unless an edit fell into the compilation.
THEOREM CacheIsSound ==
  ASSUME ScriptCacheAssumption, OneWorker, SlowRestart
  PROVE  CacheSpec => []CacheSound
<1>1. Setting
  BY DEF Setting
<1>2. CacheInit => Inv
  BY <1>1, InvInit
<1>3. Inv /\ [CacheNext]_cacheVars => Inv'
  BY <1>1, InvNext
<1>4. Inv => CacheSound
  BY <1>1, InvIsSound
<1> QED BY <1>2, <1>3, <1>4, PTL DEF CacheSpec
-----------------------------------------------------------------------------
(* Sort: the invariant.                                                    *)

N == Len(arr)

SortTypes ==
    /\ N \in Lengths
    /\ arr \in [1..N -> 1..N]
    /\ rank \in [1..N -> IF comparator = "values" THEN Ranks ELSE {NoRank}]
    /\ comparator \in Comparators
    /\ phase \in {"recurse", "up", "down", "meet", "short", "pop", "done"}
    /\ lo \in 1..N /\ hi \in 1..N /\ max \in 1..N
    /\ l \in 1..(N + 1) /\ h \in 1..(N + 1) /\ p \in 1..(N + 1)
    /\ stk \in Seq((1..N) \X (1..N))
    /\ terminated \in BOOLEAN /\ raised \in BOOLEAN

\* There is a range at hand
Busy == phase \notin {"pop", "done"}

Scanning == phase \in {"up", "down", "meet"}

\* Where the scans are
Within ==
    /\ phase = "recurse" => lo < hi
    /\ Scanning => lo < l /\ l <= hi + 1
    /\ phase = "up" => lo < h /\ h <= hi + 1
    /\ phase \in {"down", "meet"} => lo <= h /\ h <= hi
    /\ phase = "short" => lo <= max /\ max < p /\ lo <= hi /\ p <= hi + 1
    /\ phase = "done" => stk = << >>

\* Ranges r and s have no element in common
Apart(r, s) == r[2] < s[1] \/ s[2] < r[1]

\* The ranges that wait have two elements or more and are apart
StackApart ==
    /\ \A k \in 1..Len(stk) : stk[k][1] < stk[k][2]
    /\ \A i, k \in 1..Len(stk) : i # k => Apart(stk[i], stk[k])
    /\ Busy => \A k \in 1..Len(stk) : Apart(stk[k], <<lo, hi>>)

Permuted == ToSet(arr) = 1..N

\* The comparison is an order
Comparable == comparator = "values" /\ NoRank \notin ToSet(rank)

\* The element at i is not above the one at j
AtMost(i, j) == rank[arr[i]] <= rank[arr[j]]

Together(P, i, j) == \E r \in P : i \in r[1]..r[2] /\ j \in r[1]..r[2]

\* Elements that are not together in one of the ranges P are in order
InOrder(a, P) ==
    \A i, j \in 1..Len(a) : i < j => rank[a[i]] <= rank[a[j]] \/ Together(P, i, j)

Ordered == InOrder(arr, Parts)

\* What the scans have found out of the elements they have passed
Scanned ==
    /\ Scanning => \A i \in (lo + 1)..(l - 1) : AtMost(i, lo)
    /\ phase = "up" => \A i \in h..hi : AtMost(lo, i)
    /\ phase \in {"down", "meet"} =>
          /\ \A i \in (h + 1)..hi : AtMost(lo, i)
          /\ l > hi \/ AtMost(lo, l)
    /\ phase = "meet" => h = lo \/ AtMost(h, lo)
    /\ phase = "short" => \A i \in lo..(p - 1) : AtMost(i, max)

\* The sizes of the ranges that wait, after that of the array
SizeAt(s, k) == IF k = 0 THEN N ELSE s[k][2] - s[k][1] + 1

Room ==
    /\ \A k \in 1..Len(stk) : \A i \in 0..(k - 1) :
          2 ^ (k - i - 1) * (SizeAt(stk, k) + 2) <= SizeAt(stk, i) + 1
    /\ Busy => \A i \in 0..Len(stk) :
          2 ^ (Len(stk) - i) * (Size + 1) <= SizeAt(stk, i) + 1

\* An exception of the sort is still set, if all values can be compared
Kept == NoRank \notin Ranks => (raised => terminated)

SortInv ==
    /\ SortTypes
    /\ Within
    /\ StackApart
    /\ Permuted
    /\ Comparable => Ordered /\ Scanned
    /\ Room
    /\ Kept

-----------------------------------------------------------------------------
(* Sort: swapping two elements.                                            *)

LEMMA LenOfFunction ==
    ASSUME NEW n \in Nat, NEW S, NEW f \in [1..n -> S]
    PROVE  Len(f) = n /\ DOMAIN f = 1..n
BY SMT

LEMMA SwapIs ==
    ASSUME NEW n \in Nat, NEW f \in [1..n -> 1..n], NEW a \in 1..n, NEW b \in 1..n
    PROVE  Swap(f, a, b) \in [1..n -> 1..n] /\ Len(Swap(f, a, b)) = n
<1>1. Swap(f, a, b) \in [1..n -> 1..n]
    BY DEF Swap
<1> QED BY <1>1, LenOfFunction

\* qsortSwap: two elements change places, nothing else does.
LEMMA SwapKeeps ==
    ASSUME NEW n \in Nat, NEW f \in [1..n -> 1..n], NEW a \in 1..n, NEW b \in 1..n
    PROVE  /\ Swap(f, a, b)[a] = f[b] /\ Swap(f, a, b)[b] = f[a]
           /\ \A i \in 1..n \ {a, b} : Swap(f, a, b)[i] = f[i]
BY DEF Swap

LEMMA SwapPermutes ==
    ASSUME NEW n \in Nat, NEW f \in [1..n -> 1..n], NEW a \in 1..n, NEW b \in 1..n
    PROVE  ToSet(Swap(f, a, b)) = ToSet(f)
<1> DEFINE g == Swap(f, a, b)
<1>1. g[a] = f[b] /\ g[b] = f[a] /\ \A i \in 1..n \ {a, b} : g[i] = f[i]
    BY DEF Swap
<1>2. DOMAIN g = 1..n /\ DOMAIN f = 1..n
    BY DEF Swap
<1> HIDE DEF g
<1>3. \A i \in 1..n : \E j \in 1..n : g[i] = f[j]
    BY <1>1
<1>4. \A i \in 1..n : \E j \in 1..n : f[i] = g[j]
    BY <1>1
<1>5. ToSet(g) = {g[i] : i \in 1..n} /\ ToSet(f) = {f[i] : i \in 1..n}
    BY <1>2 DEF ToSet
<1>6. \A x : x \in ToSet(g) <=> x \in ToSet(f)
    BY ONLY <1>3, <1>4, <1>5
<1>7. ToSet(g) = ToSet(f)
    BY <1>6
<1> QED BY <1>7 DEF g

-----------------------------------------------------------------------------
(* Sort: powers of two.                                                    *)

LEMMA PowerIsNat ==
    ASSUME NEW m \in Nat
    PROVE  2 ^ m \in Nat
<1>1. IsFiniteSet(1..m) /\ Cardinality(1..m) = m
    BY FS_Interval
<1> QED BY <1>1, FS_SUBSET, FS_CardinalityType

\* A set with one more element has twice as many subsets
LEMMA PowerDoubles ==
    ASSUME NEW m \in Nat
    PROVE  2 ^ (m + 1) = 2 * 2 ^ m
<1> DEFINE S == 1..m
           T == 1..(m + 1)
           Without == SUBSET S
           With == (SUBSET T) \ (SUBSET S)
           f == [A \in Without |-> A \cup {m + 1}]
<1>1. /\ IsFiniteSet(S) /\ Cardinality(S) = m
      /\ IsFiniteSet(T) /\ Cardinality(T) = m + 1
    BY FS_Interval
<1>2. /\ IsFiniteSet(Without) /\ Cardinality(Without) = 2 ^ m
      /\ IsFiniteSet(SUBSET T) /\ Cardinality(SUBSET T) = 2 ^ (m + 1)
    BY <1>1, FS_SUBSET
<1>3. f \in Bijection(Without, With)
    <2>1. \A A \in Without : A \cup {m + 1} \in With
        OBVIOUS
    <2>2. f \in [Without -> With]
        BY <2>1
    <2>3. \A A, B \in Without : f[A] = f[B] => A = B
        <3> SUFFICES ASSUME NEW A \in Without, NEW B \in Without,
                            A \cup {m + 1} = B \cup {m + 1}
                     PROVE  A = B
            OBVIOUS
        <3>1. m + 1 \notin A /\ m + 1 \notin B
            OBVIOUS
        <3> QED BY <3>1
    <2>4. \A B \in With : \E A \in Without : f[A] = B
        <3> TAKE B \in With
        <3>1. m + 1 \in B
            <4>1. T = S \cup {m + 1}
                OBVIOUS
            <4> QED BY <4>1
        <3>2. B \ {m + 1} \in Without
            OBVIOUS
        <3>3. f[B \ {m + 1}] = B
            BY <3>1, <3>2
        <3> QED BY <3>2, <3>3
    <2> HIDE DEF f, Without, With
    <2> QED BY <2>2, <2>3, <2>4 DEF Bijection, Injection, Surjection, IsInjective, ExistsBijection
<1>4. IsFiniteSet(With) /\ Cardinality(With) = 2 ^ m
    BY <1>2, <1>3, FS_Bijection DEF ExistsBijection
<1>5. SUBSET T = Without \cup With /\ Without \cap With = {}
    <2>1. S \subseteq T
        OBVIOUS
    <2> QED BY <2>1
<1>6. Cardinality(SUBSET T) = Cardinality(Without) + Cardinality(With)
    <2> HIDE DEF Without, With
    <2>1. Cardinality({}) = 0
        BY FS_EmptySet
    <2>2. Cardinality(Without) \in Nat /\ Cardinality(With) \in Nat
        BY <1>2, <1>4, FS_CardinalityType
    <2>3. Cardinality(Without \cup With)
            = Cardinality(Without) + Cardinality(With) - Cardinality(Without \cap With)
        BY <1>2, <1>4, FS_Union
    <2>4. Cardinality(SUBSET T) = Cardinality(Without) + Cardinality(With) - 0
        BY ONLY <1>5, <2>1, <2>3
    <2> QED BY ONLY <2>2, <2>4
<1> QED BY <1>2, <1>4, <1>6, PowerIsNat

LEMMA Larger ==
    ASSUME NEW x \in Nat, NEW a \in Int, NEW b \in Int, a <= b
    PROVE  x * a <= x * b
BY SMT

LEMMA TwiceLarger ==
    ASSUME NEW x \in Nat, NEW a \in Int, NEW b \in Int, 2 * a <= b
    PROVE  (2 * x) * a <= x * b
<1>1. (2 * x) * a = x * (2 * a)
    BY SMT
<1> QED BY <1>1, Larger

-----------------------------------------------------------------------------
(* Sort: elements in order.                                                *)

\* Two elements of the same part change places: nothing is out of order that was not.
LEMMA SwapOrders ==
    ASSUME NEW n \in Nat, NEW f \in [1..n -> 1..n], rank \in [1..n -> Int], NEW P,
           NEW u \in 1..n, NEW v \in 1..n,
           \A i, j \in u..v : Together(P, i, j),
           \A i \in u..v : \A j \in (1..n) \ (u..v) : ~Together(P, i, j) /\ ~Together(P, j, i),
           NEW a \in u..v, NEW b \in u..v,
           InOrder(f, P)
    PROVE  InOrder(Swap(f, a, b), P)
<1> DEFINE g == Swap(f, a, b)
<1>1. u \in Int /\ v \in Int /\ u..v \subseteq 1..n /\ a \in 1..n /\ b \in 1..n
    OBVIOUS
<1>2. /\ Len(f) = n /\ Len(g) = n
      /\ g \in [1..n -> 1..n] /\ g[a] = f[b] /\ g[b] = f[a]
      /\ \A i \in 1..n \ {a, b} : g[i] = f[i]
    <2>1. Len(f) = n
        BY ONLY n \in Nat, f \in [1..n -> 1..n], LenOfFunction
    <2>2. Len(g) = n /\ g \in [1..n -> 1..n]
        BY <1>1, SwapIs
    <2>3. g[a] = f[b] /\ g[b] = f[a] /\ \A i \in 1..n \ {a, b} : g[i] = f[i]
        BY ONLY <1>1, n \in Nat, f \in [1..n -> 1..n] DEF Swap
    <2> QED BY ONLY <2>1, <2>2, <2>3
<1> HIDE DEF g
<1> SUFFICES ASSUME NEW i \in 1..n, NEW j \in 1..n, i < j, ~Together(P, i, j)
             PROVE  rank[g[i]] <= rank[g[j]]
    BY <1>2 DEF InOrder, g
<1>3. \A x, y \in 1..n : x < y /\ ~Together(P, x, y) => rank[f[x]] <= rank[f[y]]
    BY <1>2 DEF InOrder
<1>4. ~(i \in u..v /\ j \in u..v)
    OBVIOUS
<1>5. CASE i \in {a, b}
    <2>1. i \in u..v /\ j \notin u..v
        BY <1>4, <1>5
    <2>2. v < j /\ g[j] = f[j]
        <3>1. j \notin {a, b}
            BY <2>1
        <3> QED BY <1>1, <1>2, <2>1, <3>1
    <2>3. PICK k \in u..v : g[i] = f[k]
        BY <1>2, <1>5
    <2>4. k \in 1..n /\ k < j /\ ~Together(P, k, j)
        BY SMTT(60), <1>1, <2>1, <2>2
    <2> QED BY <1>3, <2>2, <2>3, <2>4
<1>6. CASE i \notin {a, b} /\ j \in {a, b}
    <2>1. j \in u..v /\ i \notin u..v
        BY <1>4, <1>6
    <2>2. i < u /\ g[i] = f[i]
        BY <1>1, <1>2, <1>6, <2>1
    <2>3. PICK k \in u..v : g[j] = f[k]
        BY <1>2, <1>6
    <2>4. k \in 1..n /\ i < k /\ ~Together(P, i, k)
        BY SMTT(60), <1>1, <2>1, <2>2
    <2> QED BY <1>3, <2>2, <2>3, <2>4
<1>7. CASE i \notin {a, b} /\ j \notin {a, b}
    <2>1. g[i] = f[i] /\ g[j] = f[j]
        BY <1>2, <1>7
    <2> QED BY <1>3, <2>1
<1> QED BY <1>5, <1>6, <1>7

\* Two elements of a part that is given up are in order or together in another.
LEMMA PartsChange ==
    ASSUME NEW f, NEW P, NEW Q, InOrder(f, P),
           \A i, j \in 1..Len(f) : i < j /\ Together(P, i, j) =>
               rank[f[i]] <= rank[f[j]] \/ Together(Q, i, j)
    PROVE  InOrder(f, Q)
BY DEF InOrder

\* After a comparison of values that can be compared, their order is known.
LEMMA CompTells ==
    ASSUME SortTypes, SortAssumption, Comparable, NEW i \in 1..N, NEW j \in 1..N,
           NEW r \in {-1, 0, 1}, comp(i, j, r)
    PROVE  (r <= 0 => AtMost(i, j)) /\ (r >= 0 => AtMost(j, i))
<1>1. arr[i] \in 1..N /\ arr[j] \in 1..N /\ N \in Nat
    BY DEF SortTypes, Lengths
<1>2. rank[arr[i]] \in Int /\ rank[arr[j]] \in Int
    <2>1. rank \in [1..N -> Ranks] /\ Ranks \subseteq Int
        BY DEF SortTypes, Comparable, SortAssumption
    <2> QED BY <1>1, <2>1
<1>3. rank[arr[i]] # NoRank /\ rank[arr[j]] # NoRank
    <2>1. DOMAIN rank = 1..N
        BY DEF SortTypes
    <2> QED BY <1>1, <2>1 DEF Comparable, ToSet
<1>4. r = Sign(rank[arr[i]] - rank[arr[j]])
    BY <1>3 DEF Comparable, comp, compareValues
<1> QED BY <1>2, <1>4 DEF Sign, AtMost

\* A comparison sets exceptions one at a time, if all values can be compared.
LEMMA CompKeeps ==
    ASSUME SortTypes, Kept, NEW i \in 1..N, NEW j \in 1..N, NEW r, comp(i, j, r)
    PROVE  Kept' /\ terminated' \in BOOLEAN /\ raised' \in BOOLEAN
<1>1. terminated \in BOOLEAN /\ raised \in BOOLEAN
    BY DEF SortTypes
<1>2. CASE comparator = "values"
    <2>1. arr[i] \in 1..N /\ arr[j] \in 1..N
        BY DEF SortTypes
    <2>2. rank[arr[i]] \in Ranks /\ rank[arr[j]] \in Ranks
        BY <1>2, <2>1 DEF SortTypes
    <2>3. compareValues(arr[i], arr[j], r)
        BY <1>2 DEF comp
    <2>4. CASE UNCHANGED <<terminated, raised>>
        BY <1>1, <2>4 DEF Kept
    <2>5. CASE setException /\ NoRank \in Ranks
        BY <1>1, <2>5 DEF Kept, setException
    <2> QED BY <2>2, <2>3, <2>4, <2>5 DEF compareValues, exception
<1>3. CASE comparator = "user"
    <2>1. compareUser(r)
        BY <1>3 DEF comp
    <2>2. CASE UNCHANGED <<terminated, raised>>
        BY <1>1, <2>2 DEF Kept
    <2>3. CASE setException /\ ~terminated
        BY <1>1, <2>3 DEF Kept, setException
    <2> QED BY <2>1, <2>2, <2>3 DEF compareUser, exception
<1> QED BY <1>2, <1>3 DEF comp

-----------------------------------------------------------------------------
(* Sort: the range at hand.                                                *)

LEMMA InRange ==
    ASSUME SortTypes, Within, Busy
    PROVE  /\ N \in Nat /\ lo \in 1..N /\ hi \in 1..N /\ lo <= hi
           /\ Len(stk) \in Nat
           /\ \A k \in 1..Len(stk) : stk[k][1] \in 1..N /\ stk[k][2] \in 1..N
<1>1. N \in Nat /\ lo \in 1..N /\ hi \in 1..N
    BY DEF SortTypes, Lengths
<1>2. lo <= hi
    <2>1. l \in Int /\ h \in Int
        BY DEF SortTypes
    <2> QED BY <1>1, <2>1 DEF SortTypes, Within, Busy, Scanning
<1>3. Len(stk) \in Nat /\ \A k \in 1..Len(stk) : stk[k] \in (1..N) \X (1..N)
    BY DEF SortTypes
<1> QED BY <1>1, <1>2, <1>3

\* No other part reaches into the range at hand.
LEMMA PartAlone ==
    ASSUME SortTypes, Within, StackApart, Busy
    PROVE  /\ \A i, j \in lo..hi : Together(Parts, i, j)
           /\ \A i \in lo..hi : \A j \in (1..N) \ (lo..hi) :
                 ~Together(Parts, i, j) /\ ~Together(Parts, j, i)
<1>1. /\ N \in Nat /\ lo \in 1..N /\ hi \in 1..N
      /\ \A k \in 1..Len(stk) : stk[k][1] \in 1..N /\ stk[k][2] \in 1..N
    BY InRange
<1>2. Parts = Waiting \cup {<<lo, hi>>}
    BY DEF Parts, Busy
<1>3. ASSUME NEW i \in lo..hi, NEW j \in lo..hi
      PROVE  Together(Parts, i, j)
    <2>1. <<lo, hi>> \in Parts /\ i \in lo..hi /\ j \in lo..hi
        BY <1>2, <1>3
    <2>2. <<lo, hi>>[1] = lo /\ <<lo, hi>>[2] = hi
        OBVIOUS
    <2> QED BY ONLY <2>1, <2>2 DEF Together
<1>4. ASSUME NEW i \in lo..hi, NEW j \in (1..N) \ (lo..hi), NEW r \in Parts,
             i \in r[1]..r[2], j \in r[1]..r[2]
      PROVE  FALSE
    <2>1. CASE r = <<lo, hi>>
        <3>1. r[1] = lo /\ r[2] = hi
            BY <2>1
        <3> QED BY <1>1, <1>4, <3>1
    <2>2. CASE r \in Waiting
        <3>1. PICK k \in 1..Len(stk) : r = stk[k]
            BY <2>2 DEF Waiting
        <3>2. r[2] < lo \/ hi < r[1]
            <4>1. Apart(stk[k], <<lo, hi>>)
                BY <3>1 DEF StackApart
            <4> QED BY <3>1, <4>1 DEF Apart
        <3>3. r[1] \in 1..N /\ r[2] \in 1..N /\ r[1] < r[2]
            BY <1>1, <3>1 DEF StackApart
        <3> QED BY <1>1, <1>4, <3>2, <3>3
    <2> QED BY <1>2, <2>1, <2>2
<1> QED BY <1>3, <1>4 DEF Together

\* The stack, the range at hand and the array stay as they are
Still == UNCHANGED <<rank, comparator, lo, hi, stk>> /\ Busy /\ Busy'

LEMMA StillKeeps ==
    ASSUME SortInv, Still, N' = N
    PROVE  /\ StackApart' /\ Room' /\ Parts' = Parts /\ (Comparable' <=> Comparable)
<1>1. StackApart'
    BY DEF SortInv, StackApart, Still
<1>2. Parts' = Parts /\ (Comparable' <=> Comparable)
    BY DEF Parts, Waiting, Comparable, Still, Busy
<1>3. Room'
    <2>1. \A k : SizeAt(stk, k)' = SizeAt(stk, k)
        BY DEF SizeAt, Still
    <2>2. Size' = Size
        BY DEF Size, Still
    <2> QED BY <2>1, <2>2 DEF SortInv, Room, Still
<1> QED BY <1>1, <1>2, <1>3

\* A step that only looks.
LEMMA LookKeeps ==
    ASSUME SortInv, Still, arr' = arr
    PROVE  StackApart' /\ Room' /\ Permuted' /\ (Comparable' => Comparable /\ Ordered')
<1>1. N' = N
    BY DEF N
<1>2. StackApart' /\ Room' /\ Parts' = Parts /\ (Comparable' <=> Comparable)
    BY <1>1, StillKeeps
<1>3. Permuted'
    BY <1>1 DEF SortInv, Permuted
<1>4. Ordered => Ordered'
    <2>1. rank' = rank
        BY DEF Still
    <2> QED BY <1>2, <2>1 DEF Ordered, InOrder, Together
<1> QED BY <1>2, <1>3, <1>4 DEF SortInv

\* An exchange inside the range at hand.
LEMMA Exchanged ==
    ASSUME SortInv, SortAssumption, Busy, NEW a \in lo..hi, NEW b \in lo..hi,
           arr' = Swap(arr, a, b)
    PROVE  /\ N' = N /\ arr' \in [1..N -> 1..N] /\ Permuted'
           /\ Comparable => InOrder(arr', Parts)
           /\ arr'[a] = arr[b] /\ arr'[b] = arr[a]
           /\ \A i \in (1..N) \ {a, b} : arr'[i] = arr[i]
<1>1. N \in Nat /\ a \in 1..N /\ b \in 1..N /\ arr \in [1..N -> 1..N]
      /\ lo \in 1..N /\ hi \in 1..N
    <2>1. N \in Nat /\ lo \in 1..N /\ hi \in 1..N
        BY InRange DEF SortInv
    <2> QED BY <2>1 DEF SortInv, SortTypes
<1>2. N' = N /\ arr' \in [1..N -> 1..N]
    <2>1. Swap(arr, a, b) \in [1..N -> 1..N] /\ Len(Swap(arr, a, b)) = N
        <3> HIDE DEF N
        <3> QED BY ONLY <1>1, SwapIs
    <2> QED BY <2>1 DEF N
<1>3. Permuted'
    <2>1. ToSet(arr') = ToSet(arr)
        BY <1>1, SwapPermutes
    <2> QED BY <1>2, <2>1 DEF SortInv, Permuted
<1>4. ASSUME Comparable
      PROVE  InOrder(arr', Parts)
    <2>1. rank \in [1..N -> Int]
        BY <1>4 DEF SortInv, SortTypes, Comparable, SortAssumption
    <2>2. InOrder(arr, Parts)
        BY <1>4 DEF SortInv, Ordered
    <2>3. /\ \A i, j \in lo..hi : Together(Parts, i, j)
          /\ \A i \in lo..hi : \A j \in (1..N) \ (lo..hi) :
                ~Together(Parts, i, j) /\ ~Together(Parts, j, i)
        BY PartAlone DEF SortInv
    <2>4. InOrder(Swap(arr, a, b), Parts)
        <3> HIDE DEF N
        <3> QED BY <1>1, <2>1, <2>2, <2>3, SwapOrders
    <2> QED BY <2>4
<1>5. /\ arr'[a] = arr[b] /\ arr'[b] = arr[a]
      /\ \A i \in (1..N) \ {a, b} : arr'[i] = arr[i]
    BY ONLY <1>1, arr' = Swap(arr, a, b) DEF Swap
<1> QED BY <1>2, <1>3, <1>4, <1>5

LEMMA ExchangeKeeps ==
    ASSUME SortInv, SortAssumption, Still, NEW a \in lo..hi, NEW b \in lo..hi,
           arr' = Swap(arr, a, b)
    PROVE  StackApart' /\ Room' /\ (Comparable' => Comparable /\ Ordered')
<1>1. N' = N /\ (Comparable => InOrder(arr', Parts))
    BY Exchanged DEF Still
<1>2. StackApart' /\ Room' /\ Parts' = Parts /\ (Comparable' <=> Comparable)
    BY <1>1, StillKeeps
<1>3. rank' = rank
    BY DEF Still
<1> QED BY <1>1, <1>2, <1>3 DEF Ordered, InOrder, Together

LEMMA Keys ==
    ASSUME SortTypes, SortAssumption, Comparable
    PROVE  \A i \in 1..N : rank[arr[i]] \in Int
<1>1. rank \in [1..N -> Ranks] /\ Ranks \subseteq Int /\ arr \in [1..N -> 1..N]
    BY DEF SortTypes, Comparable, SortAssumption
<1> QED BY <1>1

-----------------------------------------------------------------------------
(* Sort: the steps of OS::qsort, one lemma each.                           *)

LEMMA RecurseKeepsInv ==
    ASSUME SortInv, SortAssumption, recurse
    PROVE  SortInv'
<1>1. phase = "recurse" /\ Busy /\ lo < hi
    BY DEF SortInv, Within, recurse, Busy
<1>2. N \in Nat /\ lo \in 1..N /\ hi \in 1..N
    BY <1>1, InRange DEF SortInv
<1>3. CASE phase' = "short" /\ max' = lo /\ p' = lo + 1 /\ UNCHANGED <<arr, l, h>>
    <2>1. Still /\ arr' = arr /\ N' = N
        BY <1>1, <1>3 DEF Still, Busy, recurse, N
    <2>2. StackApart' /\ Room' /\ Permuted' /\ (Comparable' => Comparable /\ Ordered')
        BY <2>1, LookKeeps
    <2>3. SortTypes'
        BY <1>2, <1>3, <2>1 DEF SortInv, SortTypes, recurse, exception, Still
    <2>4. Within'
        BY <1>1, <1>2, <1>3 DEF Within, Scanning, recurse
    <2>5. Comparable => Scanned'
        <3> SUFFICES ASSUME Comparable
                     PROVE  rank[arr[lo]] <= rank[arr[lo]]
            BY <1>2, <1>3, <2>1 DEF Scanned, Scanning, AtMost, Still
        <3> QED BY <1>2, Keys DEF SortInv
    <2>6. Kept'
        BY DEF SortInv, Kept, recurse, exception
    <2> QED BY <2>2, <2>3, <2>4, <2>5, <2>6 DEF SortInv
<1>4. CASE /\ phase' = "up" /\ arr' = Swap(arr, lo + Size \div 2, lo)
           /\ l' = lo + 1 /\ h' = hi + 1 /\ UNCHANGED <<p, max>>
    <2>1. Still
        BY <1>1, <1>4 DEF Still, Busy, recurse
    <2>2. lo + Size \div 2 \in lo..hi /\ lo \in lo..hi
        BY <1>1, <1>2 DEF Size
    <2>3. /\ N' = N /\ arr' \in [1..N -> 1..N] /\ Permuted'
          /\ StackApart' /\ Room' /\ (Comparable' => Comparable /\ Ordered')
        BY <1>1, <1>4, <2>1, <2>2, Exchanged, ExchangeKeeps
    <2>4. SortTypes'
        <3>1. l' \in 1..(N + 1) /\ h' \in 1..(N + 1) /\ p' = p /\ max' = max
            BY <1>1, <1>2, <1>4
        <3>2. UNCHANGED <<rank, comparator, lo, hi, stk, terminated, raised>>
            BY DEF recurse, exception
        <3> QED BY <1>4, <2>3, <3>1, <3>2 DEF SortInv, SortTypes
    <2>5. Within'
        BY <1>1, <1>2, <1>4 DEF Within, Scanning, recurse
    <2>6. Scanned'
        BY <1>2, <1>4, <2>1 DEF Scanned, Scanning, Still
    <2>7. Kept'
        BY DEF SortInv, Kept, recurse, exception
    <2> QED BY <2>3, <2>4, <2>5, <2>6, <2>7 DEF SortInv
<1> QED BY <1>3, <1>4 DEF recurse

LEMMA ScanUpKeepsInv ==
    ASSUME SortInv, SortAssumption, scanUp
    PROVE  SortInv'
<1>1. phase = "up" /\ Busy /\ lo < l /\ l <= hi + 1 /\ lo < h /\ h <= hi + 1
    BY DEF SortInv, Within, scanUp, Busy, Scanning
<1>2. /\ N \in Nat /\ lo \in 1..N /\ hi \in 1..N
      /\ l \in 1..(N + 1) /\ h \in 1..(N + 1) /\ p \in 1..(N + 1)
    BY <1>1, InRange DEF SortInv, SortTypes
<1>3. phase' \in {"up", "down"} /\ UNCHANGED <<arr, rank, comparator, lo, hi, p, max, stk>>
    BY <1>1 DEF scanUp
<1>4. Still /\ arr' = arr /\ N' = N
    BY <1>1, <1>3 DEF Still, Busy, N
<1>5. StackApart' /\ Room' /\ Permuted' /\ (Comparable' => Comparable /\ Ordered')
    BY <1>4, LookKeeps
<1>6. Kept' /\ terminated' \in BOOLEAN /\ raised' \in BOOLEAN
    <2>1. CASE l <= hi
        <3>1. l \in 1..N /\ lo \in 1..N
            BY <1>2, <2>1
        <3>2. PICK r \in {-1, 0, 1} : comp(l, lo, r)
            BY <1>2, <2>1 DEF scanUp
        <3> QED BY <3>1, <3>2, CompKeeps DEF SortInv
    <2>2. CASE l > hi
        BY <1>2, <2>2 DEF scanUp, exception, SortInv, SortTypes, Kept
    <2> QED BY <1>2, <2>1, <2>2
<1>7. SortTypes' /\ Within'
    <2>1. l' \in 1..(N + 1) /\ h' \in 1..(N + 1) /\ Within'
        <3>1. CASE l <= hi /\ l' = l + 1 /\ h' = h /\ phase' = phase
            BY <1>1, <1>2, <1>4, <3>1 DEF Within, Scanning, Still
        <3>2. CASE h' = h - 1 /\ phase' = "down" /\ l' = l
            BY <1>1, <1>2, <1>4, <3>2 DEF Within, Scanning, Still
        <3> QED BY <3>1, <3>2 DEF scanUp
    <2> QED BY <1>2, <1>3, <1>4, <1>6, <2>1 DEF SortInv, SortTypes
<1>8. ASSUME Comparable
      PROVE  Scanned'
    <2>1. /\ \A i \in (lo + 1)..(l - 1) : AtMost(i, lo)
          /\ \A i \in h..hi : AtMost(lo, i)
        BY <1>1, <1>8 DEF SortInv, Scanned, Scanning
    <2>2. \A i, j : AtMost(i, j)' <=> AtMost(i, j)
        BY <1>3 DEF AtMost
    <2>3. CASE l <= hi
        <3>1. PICK r \in {-1, 0, 1} :
                  /\ comp(l, lo, r)
                  /\ \/ r <= 0 /\ l' = l + 1 /\ UNCHANGED <<h, phase>>
                     \/ r > 0 /\ h' = h - 1 /\ phase' = "down" /\ UNCHANGED l
            BY <1>2, <2>3 DEF scanUp
        <3>2. (r <= 0 => AtMost(l, lo)) /\ (r >= 0 => AtMost(lo, l))
            <4>1. l \in 1..N /\ lo \in 1..N
                BY <1>2, <2>3
            <4> QED BY <1>8, <3>1, <4>1, CompTells DEF SortInv
        <3>3. CASE r <= 0 /\ l' = l + 1 /\ UNCHANGED <<h, phase>>
            BY <1>1, <1>2, <1>3, <2>1, <2>2, <3>2, <3>3 DEF Scanned, Scanning
        <3>4. CASE r > 0 /\ h' = h - 1 /\ phase' = "down" /\ UNCHANGED l
            BY <1>1, <1>2, <1>3, <2>1, <2>2, <3>2, <3>4 DEF Scanned, Scanning
        <3> QED BY <3>1, <3>3, <3>4
    <2>4. CASE l > hi /\ h' = h - 1 /\ phase' = "down" /\ UNCHANGED l
        BY <1>1, <1>2, <1>3, <2>1, <2>2, <2>4 DEF Scanned, Scanning
    <2> QED BY <1>2, <2>3, <2>4 DEF scanUp
<1> QED BY <1>5, <1>6, <1>7, <1>8 DEF SortInv

LEMMA ScanDownKeepsInv ==
    ASSUME SortInv, SortAssumption, scanDown
    PROVE  SortInv'
<1>1. phase = "down" /\ Busy /\ lo < l /\ l <= hi + 1 /\ lo <= h /\ h <= hi
    BY DEF SortInv, Within, scanDown, Busy, Scanning
<1>2. /\ N \in Nat /\ lo \in 1..N /\ hi \in 1..N
      /\ l \in 1..(N + 1) /\ h \in 1..(N + 1) /\ p \in 1..(N + 1)
    BY <1>1, InRange DEF SortInv, SortTypes
<1>3. phase' \in {"down", "meet"} /\ UNCHANGED <<arr, rank, comparator, lo, hi, l, p, max, stk>>
    BY <1>1 DEF scanDown
<1>4. Still /\ arr' = arr /\ N' = N
    BY <1>1, <1>3 DEF Still, Busy, N
<1>5. StackApart' /\ Room' /\ Permuted' /\ (Comparable' => Comparable /\ Ordered')
    BY <1>4, LookKeeps
<1>6. Kept' /\ terminated' \in BOOLEAN /\ raised' \in BOOLEAN
    <2>1. CASE h > lo
        <3>1. h \in 1..N /\ lo \in 1..N
            BY <1>1, <1>2
        <3>2. PICK r \in {-1, 0, 1} : comp(h, lo, r)
            BY <1>2, <2>1 DEF scanDown
        <3> QED BY <3>1, <3>2, CompKeeps DEF SortInv
    <2>2. CASE h <= lo
        BY <1>2, <2>2 DEF scanDown, exception, SortInv, SortTypes, Kept
    <2> QED BY <1>2, <2>1, <2>2
<1>7. SortTypes' /\ Within'
    <2>1. h' \in 1..(N + 1) /\ Within'
        <3>1. CASE h > lo /\ h' = h - 1 /\ phase' = phase
            BY <1>1, <1>2, <1>3, <3>1 DEF Within, Scanning
        <3>2. CASE h' = h /\ phase' = "meet"
            BY <1>1, <1>2, <1>3, <3>2 DEF Within, Scanning
        <3> QED BY <3>1, <3>2 DEF scanDown
    <2> QED BY <1>2, <1>3, <1>4, <1>6, <2>1 DEF SortInv, SortTypes
<1>8. ASSUME Comparable
      PROVE  Scanned'
    <2>1. /\ \A i \in (lo + 1)..(l - 1) : AtMost(i, lo)
          /\ \A i \in (h + 1)..hi : AtMost(lo, i)
          /\ l > hi \/ AtMost(lo, l)
        BY <1>1, <1>8 DEF SortInv, Scanned, Scanning
    <2>2. \A i, j : AtMost(i, j)' <=> AtMost(i, j)
        BY <1>3 DEF AtMost
    <2>3. CASE h > lo
        <3>1. PICK r \in {-1, 0, 1} :
                  /\ comp(h, lo, r)
                  /\ \/ r >= 0 /\ h' = h - 1 /\ UNCHANGED phase
                     \/ r < 0 /\ phase' = "meet" /\ UNCHANGED h
            BY <1>2, <2>3 DEF scanDown
        <3>2. (r <= 0 => AtMost(h, lo)) /\ (r >= 0 => AtMost(lo, h))
            <4>1. h \in 1..N /\ lo \in 1..N
                BY <1>1, <1>2
            <4> QED BY <1>8, <3>1, <4>1, CompTells DEF SortInv
        <3>3. CASE r >= 0 /\ h' = h - 1 /\ UNCHANGED phase
            BY <1>1, <1>2, <1>3, <2>1, <2>2, <3>2, <3>3 DEF Scanned, Scanning
        <3>4. CASE r < 0 /\ phase' = "meet" /\ UNCHANGED h
            BY <1>1, <1>2, <1>3, <2>1, <2>2, <3>2, <3>4 DEF Scanned, Scanning
        <3> QED BY <3>1, <3>3, <3>4
    <2>4. CASE h = lo /\ phase' = "meet" /\ UNCHANGED h
        BY <1>1, <1>2, <1>3, <2>1, <2>2, <2>4 DEF Scanned, Scanning
    <2> QED BY <1>1, <1>2, <2>3, <2>4 DEF scanDown
<1> QED BY <1>5, <1>6, <1>7, <1>8 DEF SortInv

LEMMA ExchangeKeepsInv ==
    ASSUME SortInv, SortAssumption, exchange
    PROVE  SortInv'
<1>1. /\ phase = "meet" /\ Busy
      /\ lo < l /\ l <= hi + 1 /\ lo <= h /\ h <= hi /\ l <= h
    BY DEF SortInv, Within, exchange, Busy, Scanning, SortTypes
<1>2. /\ N \in Nat /\ lo \in 1..N /\ hi \in 1..N
      /\ l \in 1..(N + 1) /\ h \in 1..(N + 1)
    BY <1>1, InRange DEF SortInv, SortTypes
<1>3. /\ phase' = "up" /\ arr' = Swap(arr, l, h) /\ l' = l + 1
      /\ UNCHANGED <<rank, comparator, lo, hi, h, p, max, stk, terminated, raised>>
    BY DEF exchange, exception
<1>4. Still /\ l \in lo..hi /\ h \in lo..hi
    BY <1>1, <1>2, <1>3 DEF Still, Busy
<1>5. /\ N' = N /\ arr' \in [1..N -> 1..N] /\ Permuted'
      /\ arr'[l] = arr[h] /\ arr'[h] = arr[l]
      /\ \A i \in (1..N) \ {l, h} : arr'[i] = arr[i]
    BY <1>1, <1>3, <1>4, Exchanged
<1>6. StackApart' /\ Room' /\ (Comparable' => Comparable /\ Ordered')
    BY <1>3, <1>4, ExchangeKeeps
<1>7. SortTypes' /\ Within'
    <2>1. l' \in 1..(N + 1) /\ Within'
        BY <1>1, <1>2, <1>3 DEF Within, Scanning
    <2> QED BY <1>3, <1>5, <2>1 DEF SortInv, SortTypes
<1>8. ASSUME Comparable
      PROVE  Scanned'
    <2>1. /\ \A i \in (lo + 1)..(l - 1) : AtMost(i, lo)
          /\ \A i \in (h + 1)..hi : AtMost(lo, i)
          /\ AtMost(lo, l) /\ AtMost(h, lo)
        BY <1>1, <1>2, <1>8 DEF SortInv, Scanned, Scanning
    <2>2. arr'[lo] = arr[lo] /\ rank' = rank
        BY <1>1, <1>2, <1>3, <1>5
    <2>3. \A i \in (lo + 1)..l : AtMost(i, lo)'
        <3> TAKE i \in (lo + 1)..l
        <3>1. CASE i = l
            BY <1>3, <1>5, <2>1, <2>2, <3>1 DEF AtMost
        <3>2. CASE i # l
            <4>1. i \in (1..N) \ {l, h} /\ i \in (lo + 1)..(l - 1)
                BY <1>1, <1>2, <3>2
            <4> QED BY <1>3, <1>5, <2>1, <2>2, <4>1 DEF AtMost
        <3> QED BY <3>1, <3>2
    <2>4. \A i \in h..hi : AtMost(lo, i)'
        <3> TAKE i \in h..hi
        <3>1. CASE i = h
            BY <1>3, <1>5, <2>1, <2>2, <3>1 DEF AtMost
        <3>2. CASE i # h
            <4>1. i \in (1..N) \ {l, h} /\ i \in (h + 1)..hi
                BY <1>1, <1>2, <3>2
            <4> QED BY <1>3, <1>5, <2>1, <2>2, <4>1 DEF AtMost
        <3> QED BY <3>1, <3>2
    <2>5. (l + 1) - 1 = l
        BY <1>2
    <2> QED BY <1>3, <2>3, <2>4, <2>5 DEF Scanned, Scanning
<1>9. Kept'
    BY <1>3 DEF SortInv, Kept
<1> QED BY <1>5, <1>6, <1>7, <1>8, <1>9 DEF SortInv

LEMMA FindMaxKeepsInv ==
    ASSUME SortInv, SortAssumption, findMax
    PROVE  SortInv'
<1>1. phase = "short" /\ Busy /\ lo <= max /\ max < p /\ lo <= hi /\ p <= hi
    BY DEF SortInv, Within, findMax, Busy, SortTypes
<1>2. /\ N \in Nat /\ lo \in 1..N /\ hi \in 1..N
      /\ max \in 1..N /\ p \in 1..N
    BY <1>1, InRange DEF SortInv, SortTypes
<1>3. /\ p' = p + 1
      /\ UNCHANGED <<arr, rank, comparator, phase, lo, hi, l, h, stk>>
    BY DEF findMax
<1>4. PICK r \in {-1, 0, 1} : comp(p, max, r) /\ max' = IF r > 0 THEN p ELSE max
    BY DEF findMax
<1>5. Still /\ arr' = arr /\ N' = N
    BY <1>1, <1>3 DEF Still, Busy, N
<1>6. StackApart' /\ Room' /\ Permuted' /\ (Comparable' => Comparable /\ Ordered')
    BY <1>5, LookKeeps
<1>7. Kept' /\ terminated' \in BOOLEAN /\ raised' \in BOOLEAN
    BY <1>2, <1>4, CompKeeps DEF SortInv
<1>8. SortTypes' /\ Within'
    <2>1. max' \in 1..N /\ p' \in 1..(N + 1) /\ Within'
        BY <1>1, <1>2, <1>3, <1>4 DEF Within, Scanning
    <2> QED BY <1>3, <1>5, <1>7, <2>1 DEF SortInv, SortTypes
<1>9. ASSUME Comparable
      PROVE  Scanned'
    <2>1. \A i \in lo..(p - 1) : AtMost(i, max)
        BY <1>1, <1>9 DEF SortInv, Scanned
    <2>2. (r <= 0 => AtMost(p, max)) /\ (r >= 0 => AtMost(max, p))
        BY <1>2, <1>4, <1>9, CompTells DEF SortInv
    <2>3. rank' = rank /\ \A i \in 1..N : rank[arr[i]] \in Int
        BY <1>3, <1>9, Keys DEF SortInv
    <2>4. \A i \in lo..p : rank[arr[i]] <= rank[arr[max']]
        <3> TAKE i \in lo..p
        <3>1. i \in 1..N /\ (i = p \/ i \in lo..(p - 1))
            BY <1>2
        <3>2. CASE r > 0
            <4>1. rank[arr[max]] <= rank[arr[p]] /\ max' = p
                BY <1>4, <2>2, <3>2 DEF AtMost
            <4>2. i = p \/ rank[arr[i]] <= rank[arr[max]]
                BY <2>1, <3>1 DEF AtMost
            <4> QED BY <1>2, <2>3, <3>1, <4>1, <4>2
        <3>3. CASE r <= 0
            BY <1>4, <2>1, <2>2, <3>1, <3>3 DEF AtMost
        <3> QED BY <3>2, <3>3
    <2> QED BY <1>1, <1>2, <1>3, <2>4 DEF Scanned, Scanning, AtMost
<1> QED BY <1>6, <1>7, <1>8, <1>9 DEF SortInv

LEMMA PlaceMaxKeepsInv ==
    ASSUME SortInv, SortAssumption, placeMax
    PROVE  SortInv'
<1>1. /\ phase = "short" /\ Busy
      /\ lo <= max /\ max <= hi /\ lo < hi /\ p = hi + 1
    BY DEF SortInv, Within, placeMax, Busy, SortTypes
<1>2. /\ N \in Nat /\ lo \in 1..N /\ hi \in 1..N /\ max \in 1..N
      /\ Len(stk) \in Nat
      /\ \A k \in 1..Len(stk) : stk[k][1] \in 1..N /\ stk[k][2] \in 1..N
    BY <1>1, InRange DEF SortInv, SortTypes
<1>3. /\ arr' = Swap(arr, max, hi) /\ hi' = hi - 1 /\ max' = lo /\ p' = lo + 1
      /\ UNCHANGED <<rank, comparator, phase, lo, l, h, stk, terminated, raised>>
    BY DEF placeMax, exception
<1>4. /\ N' = N /\ arr' \in [1..N -> 1..N] /\ Permuted'
      /\ Comparable => InOrder(arr', Parts)
      /\ arr'[max] = arr[hi] /\ arr'[hi] = arr[max]
      /\ \A i \in (1..N) \ {max, hi} : arr'[i] = arr[i]
    <2>1. max \in lo..hi /\ hi \in lo..hi
        BY <1>1, <1>2
    <2> QED BY <1>1, <1>3, <2>1, Exchanged
<1>5. SortTypes' /\ Within'
    <2>1. hi' \in 1..N /\ max' \in 1..N /\ p' \in 1..(N + 1) /\ Within'
        BY <1>1, <1>2, <1>3 DEF Within, Scanning
    <2> QED BY <1>3, <1>4, <2>1 DEF SortInv, SortTypes
<1>6. StackApart'
    <2>1. \A k \in 1..Len(stk) : stk[k][2] < lo \/ hi - 1 < stk[k][1]
        <3> TAKE k \in 1..Len(stk)
        <3>1. stk[k][2] < lo \/ hi < stk[k][1]
            BY <1>1 DEF SortInv, StackApart, Apart
        <3> QED BY <1>2, <3>1
    <2> QED BY <1>3, <2>1 DEF SortInv, StackApart, Apart
<1>7. Room'
    <2>1. \A k : SizeAt(stk, k)' = SizeAt(stk, k)
        BY <1>3, <1>4 DEF SizeAt
    <2>2. \A i \in 0..Len(stk) : 2 ^ (Len(stk) - i) * (Size' + 1) <= SizeAt(stk, i) + 1
        <3> TAKE i \in 0..Len(stk)
        <3>1. Len(stk) - i \in Nat
            BY <1>2
        <3>2. PICK x \in Nat : x = 2 ^ (Len(stk) - i)
            BY <3>1, PowerIsNat
        <3>3. PICK c \in Int, d \in Int : c = Size' + 1 /\ d = Size + 1 /\ c <= d
            BY <1>2, <1>3 DEF Size
        <3>4. x * c <= x * d
            BY <3>3, Larger
        <3>5. x * d <= SizeAt(stk, i) + 1
            BY <1>1, <3>2, <3>3 DEF SortInv, Room
        <3>6. SizeAt(stk, i) \in Int
            BY <1>2 DEF SizeAt
        <3>7. x * c \in Int /\ x * d \in Int
            OBVIOUS
        <3> QED BY SMTT(60), <3>2, <3>3, <3>4, <3>5, <3>6, <3>7
    <2> QED BY <1>3, <2>1, <2>2 DEF SortInv, Room
<1>8. ASSUME Comparable
      PROVE  Ordered'
    <2>1. \A i \in 1..N : rank[arr[i]] \in Int
        BY <1>8, Keys DEF SortInv
    <2>2. \A i \in lo..hi : rank[arr'[i]] <= rank[arr'[hi]]
        <3> TAKE i \in lo..hi
        <3>1. PICK k \in lo..hi : arr'[i] = arr[k]
            <4>1. max \in lo..hi /\ hi \in lo..hi
                BY <1>1, <1>2
            <4>2. CASE i = max
                BY <1>4, <4>1, <4>2
            <4>3. CASE i = hi
                BY <1>4, <4>1, <4>3
            <4>4. CASE i \in (1..N) \ {max, hi}
                BY <1>4, <4>4
            <4> QED BY <1>2, <4>2, <4>3, <4>4
        <3>2. rank[arr[k]] <= rank[arr[max]]
            BY <1>1, <1>2, <1>8 DEF SortInv, Scanned, AtMost
        <3> QED BY <1>4, <3>1, <3>2
    <2>3. ASSUME NEW i \in 1..N, NEW j \in 1..N, i < j, Together(Parts, i, j)
          PROVE  rank[arr'[i]] <= rank[arr'[j]] \/ Together(Parts', i, j)
        <3>1. Parts = Waiting \cup {<<lo, hi>>} /\ Parts' = Waiting \cup {<<lo, hi - 1>>}
            BY <1>1, <1>3 DEF Parts, Busy, Waiting
        <3>2. CASE \E r \in Waiting : i \in r[1]..r[2] /\ j \in r[1]..r[2]
            BY <3>1, <3>2 DEF Together
        <3>3. CASE i \in lo..hi /\ j \in lo..hi
            <4>1. CASE j = hi
                BY <2>2, <3>3, <4>1
            <4>2. CASE j # hi
                <5>1. i \in lo..(hi - 1) /\ j \in lo..(hi - 1)
                    BY <1>2, <2>3, <3>3, <4>2
                <5>2. <<lo, hi - 1>> \in Parts'
                    BY <3>1
                <5>3. <<lo, hi - 1>>[1] = lo /\ <<lo, hi - 1>>[2] = hi - 1
                    OBVIOUS
                <5> QED BY ONLY <5>1, <5>2, <5>3 DEF Together
            <4> QED BY <4>1, <4>2
        <3> QED BY <2>3, <3>1, <3>2, <3>3 DEF Together
    <2>4. Len(arr') = N
        BY <1>4 DEF N
    <2>5. InOrder(arr', Parts')
        BY <1>4, <1>8, <2>3, <2>4, PartsChange
    <2> QED BY <1>3, <2>5 DEF Ordered, InOrder, Together
<1>9. ASSUME Comparable
      PROVE  Scanned'
    <2>1. rank[arr'[lo]] <= rank[arr'[lo]]
        <3>1. rank \in [1..N -> Int] /\ lo \in 1..N
            BY <1>2, <1>9 DEF SortInv, SortTypes, Comparable, SortAssumption
        <3> QED BY <1>4, <3>1
    <2> QED BY <1>1, <1>2, <1>3, <2>1 DEF Scanned, Scanning, AtMost
<1>10. Kept' /\ (Comparable' <=> Comparable)
    BY <1>3 DEF SortInv, Kept, Comparable
<1> QED BY <1>4, <1>5, <1>6, <1>7, <1>8, <1>9, <1>10 DEF SortInv

-----------------------------------------------------------------------------
(* Sort: the stack of ranges.                                              *)

\* What a range becomes: of the parts a..b and c..d on both sides of the pivot
\* the larger one waits if it has two elements, and the other is next if it has.
Halves(a, b, c, d) ==
    /\ \/ a = lo /\ b = h - 1 /\ c = l /\ d = hi
       \/ a = l /\ b = hi /\ c = lo /\ d = h - 1
    /\ d - c <= b - a
    /\ stk' = IF a < b THEN Append(stk, <<a, b>>) ELSE stk
    /\ \/ c < d /\ lo' = c /\ hi' = d /\ phase' = "recurse"
       \/ c >= d /\ phase' = "pop" /\ UNCHANGED <<lo, hi>>

LEMMA SplitHalves ==
    ASSUME SortInv, split
    PROVE  \E a, b, c, d \in Int : Halves(a, b, c, d)
<1>1. lo \in Int /\ hi \in Int /\ l \in Int /\ h \in Int
    BY DEF SortInv, SortTypes
<1>2. CASE LeftIsLarger
    <2>1. Halves(lo, h - 1, l, hi)
        BY <1>1, <1>2 DEF split, Halves, LeftIsLarger, LeftPart, RightPart
    <2> QED BY <1>1, <2>1
<1>3. CASE ~LeftIsLarger
    <2>1. (h - 1) - lo <= hi - l
        BY <1>1, <1>3 DEF LeftIsLarger
    <2>2. /\ stk' = IF l < hi THEN Append(stk, <<l, hi>>) ELSE stk
          /\ \/ lo < h - 1 /\ lo' = lo /\ hi' = h - 1 /\ phase' = "recurse"
             \/ lo >= h - 1 /\ phase' = "pop" /\ UNCHANGED <<lo, hi>>
        <3>1. /\ LeftPart[1] = lo /\ LeftPart[2] = h - 1
              /\ RightPart[1] = l /\ RightPart[2] = hi /\ RightPart = <<l, hi>>
            BY DEF LeftPart, RightPart
        <3>2. stk' = IF RightPart[1] < RightPart[2] THEN Append(stk, RightPart) ELSE stk
            BY <1>3 DEF split
        <3>3. \/ /\ LeftPart[1] < LeftPart[2]
                 /\ lo' = LeftPart[1] /\ hi' = LeftPart[2] /\ phase' = "recurse"
              \/ LeftPart[1] >= LeftPart[2] /\ phase' = "pop" /\ UNCHANGED <<lo, hi>>
            BY <1>3 DEF split
        <3> QED BY <3>1, <3>2, <3>3
    <2>3. Halves(l, hi, lo, h - 1)
        BY <2>1, <2>2 DEF Halves
    <2> QED BY <1>1, <2>3
<1> QED BY <1>2, <1>3

LEMMA Pushed ==
    ASSUME NEW S, NEW s \in Seq(S), NEW e
    PROVE  /\ Len(Append(s, e)) = Len(s) + 1
           /\ \A k \in 1..Len(s) : Append(s, e)[k] = s[k]
           /\ Append(s, e)[Len(s) + 1] = e
BY SMT

LEMMA Popped ==
    ASSUME NEW S, NEW s \in Seq(S), s # << >>
    PROVE  /\ Len(s) \in Nat \ {0}
           /\ Front(s) \in Seq(S) /\ Len(Front(s)) = Len(s) - 1
           /\ \A k \in 1..(Len(s) - 1) : Front(s)[k] = s[k]
           /\ Last(s) = s[Len(s)] /\ Last(s) \in S
<1>1. Len(s) \in Nat \ {0}
    BY SMT
<1>2. /\ SubSeq(s, 1, Len(s) - 1) \in Seq(S)
      /\ Len(SubSeq(s, 1, Len(s) - 1)) = Len(s) - 1
      /\ \A k \in 1..(Len(s) - 1) : SubSeq(s, 1, Len(s) - 1)[k] = s[k]
    <2>1. \A i \in 1..(Len(s) - 1) : s[i] \in S
        BY <1>1
    <2>2. /\ SubSeq(s, 1, Len(s) - 1) \in Seq(S)
          /\ Len(SubSeq(s, 1, Len(s) - 1))
                = IF 1 <= Len(s) - 1 THEN (Len(s) - 1) - 1 + 1 ELSE 0
          /\ \A i \in 1..((Len(s) - 1) - 1 + 1) : SubSeq(s, 1, Len(s) - 1)[i] = s[1 + i - 1]
        <3>1. 1 \in Int /\ Len(s) - 1 \in Int
            BY <1>1
        <3> QED BY ONLY <2>1, <3>1, SubSeqProperties
    <2>3. PICK n \in Nat : n = Len(s) - 1
        BY <1>1
    <2> QED BY ONLY <1>1, <2>2, <2>3
<1> QED BY <1>1, <1>2 DEF Front, Last

\* The pivot in its place divides the range.
LEMMA Divided ==
    ASSUME SortInv, SortAssumption, Comparable, phase = "meet", h < l,
           arr' \in [1..N -> 1..N],
           arr'[lo] = arr[h], arr'[h] = arr[lo],
           \A i \in (1..N) \ {lo, h} : arr'[i] = arr[i],
           NEW i \in lo..hi, NEW j \in lo..hi, i < j
    PROVE  \/ rank[arr'[i]] <= rank[arr'[j]]
           \/ i \in lo..(h - 1) /\ j \in lo..(h - 1)
           \/ i \in l..hi /\ j \in l..hi
<1>1. Busy /\ lo < l /\ l <= hi + 1 /\ lo <= h /\ h <= hi
    BY DEF SortInv, Within, Busy, Scanning
<1>2. /\ N \in Nat /\ lo \in 1..N /\ hi \in 1..N
      /\ l \in 1..(N + 1) /\ h \in 1..N
    <2>1. /\ N \in Nat /\ lo \in 1..N /\ hi \in 1..N
          /\ l \in 1..(N + 1) /\ h \in 1..(N + 1)
        BY <1>1, InRange DEF SortInv, SortTypes
    <2> QED BY <1>1, <2>1
<1>3. \A k \in 1..N : rank[arr[k]] \in Int
    BY Keys DEF SortInv
<1>4. /\ \A k \in (lo + 1)..(l - 1) : rank[arr[k]] <= rank[arr[lo]]
      /\ \A k \in (h + 1)..hi : rank[arr[lo]] <= rank[arr[k]]
    BY DEF SortInv, Scanned, Scanning, AtMost
\* To the left of the right part nothing is above the pivot
<1>5. ASSUME NEW k \in lo..hi, k < l
      PROVE  rank[arr'[k]] <= rank[arr[lo]]
    <2>1. CASE k = h
        BY <1>2, <1>3, <2>1
    <2>2. CASE k = lo /\ k # h
        <3>1. h \in (lo + 1)..(l - 1)
            BY <1>1, <1>2, <2>2
        <3> QED BY <1>4, <2>2, <3>1
    <2>3. CASE k # lo /\ k # h
        <3>1. k \in (lo + 1)..(l - 1) /\ k \in (1..N) \ {lo, h}
            BY <1>2, <1>5, <2>3
        <3> QED BY <1>4, <3>1
    <2> QED BY <2>1, <2>2, <2>3
\* To the right of the left part nothing is below it
<1>6. ASSUME NEW k \in lo..hi, h <= k
      PROVE  rank[arr[lo]] <= rank[arr'[k]]
    <2>1. CASE k = h
        BY <1>2, <1>3, <2>1
    <2>2. CASE k # h
        <3>1. k \in (h + 1)..hi /\ k \in (1..N) \ {lo, h}
            BY <1>1, <1>2, <1>6, <2>2
        <3> QED BY <1>4, <3>1
    <2> QED BY <2>1, <2>2
<1>7. rank[arr'[i]] \in Int /\ rank[arr'[j]] \in Int /\ rank[arr[lo]] \in Int
    <2>1. rank \in [1..N -> Int]
        BY DEF SortInv, SortTypes, Comparable, SortAssumption
    <2>2. i \in 1..N /\ j \in 1..N
        BY <1>2
    <2> QED BY <1>2, <1>3, <2>1, <2>2
<1>8. CASE i < l /\ h <= j
    BY <1>5, <1>6, <1>7, <1>8
<1>9. CASE l <= i \/ j < h
    BY <1>1, <1>2, <1>9
<1> QED BY <1>2, <1>8, <1>9

LEMMA SplitKeepsInv ==
    ASSUME SortInv, SortAssumption, split
    PROVE  SortInv'
<1>1. /\ phase = "meet" /\ Busy
      /\ lo < l /\ l <= hi + 1 /\ lo <= h /\ h <= hi /\ h < l
    BY DEF SortInv, Within, split, Busy, Scanning
<1>2. /\ N \in Nat /\ lo \in 1..N /\ hi \in 1..N
      /\ l \in 1..(N + 1) /\ h \in 1..(N + 1)
      /\ Len(stk) \in Nat
      /\ \A k \in 1..Len(stk) : stk[k][1] \in 1..N /\ stk[k][2] \in 1..N
    BY <1>1, InRange DEF SortInv, SortTypes
<1>3. stk \in Seq((1..N) \X (1..N))
    BY DEF SortInv, SortTypes
<1>4. /\ arr' = Swap(arr, lo, h)
      /\ UNCHANGED <<rank, comparator, l, h, p, max, terminated, raised>>
    BY DEF split, exception, scans
<1>5. /\ N' = N /\ arr' \in [1..N -> 1..N] /\ Permuted'
      /\ Comparable => InOrder(arr', Parts)
      /\ arr'[lo] = arr[h] /\ arr'[h] = arr[lo]
      /\ \A i \in (1..N) \ {lo, h} : arr'[i] = arr[i]
    <2>1. lo \in lo..hi /\ h \in lo..hi
        BY <1>1, <1>2
    <2> QED BY <1>1, <1>4, <2>1, Exchanged
<1>6. PICK a \in Int, b \in Int, c \in Int, d \in Int : Halves(a, b, c, d)
    BY SplitHalves
\* The parts inside the range
<1>7. /\ lo <= a /\ b <= hi /\ lo <= c /\ d <= hi
      /\ b < c \/ d < a
      /\ 0 <= d - c + 1 /\ d - c <= b - a
      /\ (b - a + 1) + (d - c + 1) + 1 <= Size
    BY <1>1, <1>2, <1>6 DEF Halves, Size
<1>8. stk' = IF a < b THEN Append(stk, <<a, b>>) ELSE stk
    BY <1>6 DEF Halves
\* The halves are parts, and all the others still are
<1> DEFINE NowParts ==
        /\ \A r \in Waiting : r \in Parts'
        /\ a < b => <<a, b>> \in Parts'
        /\ c < d => <<c, d>> \in Parts'
<1>9. ASSUME a < b
      PROVE  SortTypes' /\ Within' /\ StackApart' /\ Room' /\ NowParts
    <2>1. stk' = Append(stk, <<a, b>>) /\ a \in 1..N /\ b \in 1..N
        BY SMTT(60), <1>2, <1>7, <1>8, <1>9
    <2>2. /\ Len(stk') = Len(stk) + 1
          /\ \A k \in 1..Len(stk) : stk'[k] = stk[k]
          /\ stk'[Len(stk) + 1] = <<a, b>>
        BY <1>3, <2>1, Pushed
    <2>3. stk' \in Seq((1..N) \X (1..N))
        BY <1>3, <2>1
    <2>4. \/ c < d /\ lo' = c /\ hi' = d /\ phase' = "recurse"
          \/ c >= d /\ phase' = "pop" /\ UNCHANGED <<lo, hi>>
        BY <1>6 DEF Halves
    <2>5. SortTypes' /\ Within'
        <3>1. lo' \in 1..N /\ hi' \in 1..N /\ phase' \in {"recurse", "pop"}
            BY <1>2, <1>7, <2>4
        <3>2. SortTypes'
            BY <1>4, <1>5, <2>3, <3>1 DEF SortInv, SortTypes
        <3>3. Within'
            BY <2>4 DEF Within, Scanning
        <3> QED BY <3>2, <3>3
    <2>6. StackApart'
        <3>1. \A k \in 1..Len(stk) : /\ stk[k][1] < stk[k][2]
                                     /\ stk[k][2] < lo \/ hi < stk[k][1]
            BY <1>1 DEF SortInv, StackApart, Apart
        <3>2. \A i, k \in 1..Len(stk) : i # k => Apart(stk[i], stk[k])
            BY DEF SortInv, StackApart
        <3>3. \A k \in 1..Len(stk') : k \in 1..Len(stk) \/ k = Len(stk) + 1
            BY <1>2, <2>2
        <3>4. PICK r : r = <<a, b>> /\ r[1] = a /\ r[2] = b
            <4>1. <<a, b>>[1] = a /\ <<a, b>>[2] = b
                OBVIOUS
            <4> QED BY ONLY <4>1
        <3>5. ASSUME NEW k \in 1..Len(stk)
              PROVE  Apart(stk[k], r) /\ Apart(r, stk[k])
            <4>1. stk[k][2] < a \/ b < stk[k][1]
                <5>1. /\ stk[k][1] \in Int /\ stk[k][2] \in Int
                      /\ stk[k][2] < lo \/ hi < stk[k][1]
                    BY <1>2, <3>1
                <5> QED BY ONLY <1>2, <1>7, <5>1
            <4> QED BY <3>4, <4>1 DEF Apart
        <3>6. \A i, k \in 1..Len(stk') : i # k => Apart(stk'[i], stk'[k])
            BY <2>2, <3>2, <3>3, <3>4, <3>5
        <3>7. \A k \in 1..Len(stk') : stk'[k][1] < stk'[k][2]
            BY <1>9, <2>2, <3>1, <3>3, <3>4
        <3>8. ASSUME Busy', NEW k \in 1..Len(stk')
              PROVE  Apart(stk'[k], <<lo', hi'>>)
            <4>1. lo' = c /\ hi' = d
                BY <2>4, <3>8 DEF Busy
            <4>2. PICK q : q = <<lo', hi'>> /\ q[1] = c /\ q[2] = d
                <5>1. PICK q : q = <<lo', hi'>> /\ q[1] = lo' /\ q[2] = hi'
                    <6>1. <<lo', hi'>>[1] = lo' /\ <<lo', hi'>>[2] = hi'
                        OBVIOUS
                    <6> QED BY ONLY <6>1
                <5> QED BY <4>1, <5>1
            <4>3. CASE k \in 1..Len(stk)
                <5>1. stk[k][2] < c \/ d < stk[k][1]
                    <6>1. /\ stk[k][1] \in Int /\ stk[k][2] \in Int
                          /\ stk[k][2] < lo \/ hi < stk[k][1]
                        BY <1>2, <3>1, <4>3
                    <6> QED BY ONLY <1>2, <1>7, <6>1
                <5> QED BY <2>2, <4>2, <4>3, <5>1 DEF Apart
            <4>4. CASE k = Len(stk) + 1
                BY <1>7, <2>2, <3>4, <4>1, <4>2, <4>4 DEF Apart
            <4> QED BY <3>3, <3>8, <4>3, <4>4
        <3> QED BY <3>6, <3>7, <3>8 DEF StackApart
    <2>7. Room'
        <3>1. /\ \A i \in 0..Len(stk) : SizeAt(stk, i)' = SizeAt(stk, i) /\ SizeAt(stk, i) \in Int
              /\ \A k : k = Len(stk) + 1 => SizeAt(stk, k)' = b - a + 1
            <4>1. ASSUME NEW i \in 0..Len(stk)
                  PROVE  SizeAt(stk, i)' = SizeAt(stk, i) /\ SizeAt(stk, i) \in Int
                <5>1. CASE i = 0
                    BY <1>2, <1>5, <5>1 DEF SizeAt
                <5>2. CASE i # 0
                    <6>1. i \in 1..Len(stk) /\ stk'[i] = stk[i]
                        BY <1>2, <2>2, <5>2
                    <6> QED BY <1>2, <5>2, <6>1 DEF SizeAt
                <5> QED BY <5>1, <5>2
            <4>2. \A k : k = Len(stk) + 1 => SizeAt(stk, k)' = b - a + 1
                <5> TAKE k
                <5> HAVE k = Len(stk) + 1
                <5>1. k # 0 /\ stk'[k][1] = a /\ stk'[k][2] = b
                    BY <1>2, <2>2
                <5> QED BY <5>1 DEF SizeAt
            <4> QED BY <4>1, <4>2
        <3>2. ASSUME NEW i \in 0..Len(stk)
              PROVE  \E x \in Nat : /\ x = 2 ^ (Len(stk) - i)
                                    /\ 2 * x = 2 ^ (Len(stk) + 1 - i)
                                    /\ x * (Size + 1) <= SizeAt(stk, i) + 1
            <4>1. Len(stk) - i \in Nat /\ (Len(stk) - i) + 1 = Len(stk) + 1 - i
                BY <1>2
            <4>2. 2 ^ (Len(stk) - i) \in Nat /\ 2 ^ ((Len(stk) - i) + 1) = 2 * 2 ^ (Len(stk) - i)
                BY <4>1, PowerIsNat, PowerDoubles
            <4>3. 2 ^ (Len(stk) - i) * (Size + 1) <= SizeAt(stk, i) + 1
                BY <1>1 DEF SortInv, Room
            <4> QED BY <4>1, <4>2, <4>3
        <3>3. PICK w \in Int, u \in Int, v \in Int : w = Size + 1 /\ u = b - a + 1 /\ v = d - c + 1
            BY <1>2 DEF Size
        <3>4. u + 2 <= w /\ 2 * (v + 1) <= w /\ v <= u
            BY <1>2, <1>7, <3>3 DEF Size
        <3>5. ASSUME NEW k \in 1..Len(stk'), NEW i \in 0..(k - 1)
              PROVE  2 ^ (k - i - 1) * (SizeAt(stk, k)' + 2) <= SizeAt(stk, i)' + 1
            <4>1. CASE k \in 1..Len(stk)
                <5>1. i \in 0..Len(stk) /\ k \in 0..Len(stk)
                    BY <1>2, <4>1
                <5>2. 2 ^ (k - i - 1) * (SizeAt(stk, k) + 2) <= SizeAt(stk, i) + 1
                    BY <4>1 DEF SortInv, Room
                <5> QED BY <3>1, <5>1, <5>2
            <4>2. CASE k = Len(stk) + 1
                <5>1. i \in 0..Len(stk) /\ k - i - 1 = Len(stk) - i
                    BY <1>2, <4>2
                <5>2. PICK x \in Nat : x = 2 ^ (Len(stk) - i) /\ x * (Size + 1) <= SizeAt(stk, i) + 1
                    BY <3>2, <5>1
                <5>3. PICK y \in Int : y = u + 2
                    OBVIOUS
                <5>4. x * y <= x * w
                    BY <3>4, <5>3, Larger
                <5>5. x * y \in Int /\ x * w \in Int /\ SizeAt(stk, i) \in Int
                    BY <3>1, <5>1
                <5>6. x * y <= SizeAt(stk, i) + 1
                    BY <3>3, <5>2, <5>4, <5>5
                <5> QED BY <3>1, <3>3, <4>2, <5>1, <5>2, <5>3, <5>6
            <4> QED BY <1>2, <2>2, <3>5, <4>1, <4>2
        <3>6. ASSUME Busy', NEW i \in 0..Len(stk')
              PROVE  2 ^ (Len(stk') - i) * (Size' + 1) <= SizeAt(stk, i)' + 1
            <4>1. Size' = v
                BY <2>4, <3>3, <3>6 DEF Busy, Size
            <4>2. PICK y \in Int : y = v + 1
                OBVIOUS
            <4>3. CASE i \in 0..Len(stk)
                <5>1. PICK x \in Nat : /\ x = 2 ^ (Len(stk) - i)
                                       /\ 2 * x = 2 ^ (Len(stk) + 1 - i)
                                       /\ x * (Size + 1) <= SizeAt(stk, i) + 1
                    BY <3>2, <4>3
                <5>2. (2 * x) * y <= x * w
                    BY <3>4, <4>2, TwiceLarger
                <5>3. (2 * x) * y \in Int /\ x * w \in Int /\ SizeAt(stk, i) \in Int
                    BY <3>1, <4>3
                <5>4. (2 * x) * y <= SizeAt(stk, i) + 1
                    BY <3>3, <5>1, <5>2, <5>3
                <5>5. Len(stk') = Len(stk) + 1 /\ SizeAt(stk, i)' = SizeAt(stk, i)
                    BY <2>2, <3>1, <4>3
                <5>6. 2 ^ (Len(stk') - i) = 2 * x /\ Size' + 1 = y
                    BY <4>1, <4>2, <5>1, <5>5
                <5> QED BY ONLY <5>4, <5>5, <5>6
            <4>4. CASE i = Len(stk) + 1
                <5>1. Len(stk') - i = 0
                    BY <1>2, <2>2, <4>4
                <5>2. 2 ^ 0 = 1
                    BY SMT
                <5>3. SizeAt(stk, i)' = u
                    BY <3>1, <3>3, <4>4
                <5>4. 1 * (v + 1) <= u + 1
                    BY <3>4
                <5> QED BY <4>1, <5>1, <5>2, <5>3, <5>4
            <4> QED BY <1>2, <2>2, <3>6, <4>3, <4>4
        <3> QED BY <3>5, <3>6 DEF Room
    <2>8. NowParts
        <3>1. \A k \in 1..Len(stk) : k \in 1..Len(stk') /\ stk'[k] = stk[k]
            BY <1>2, <2>2
        <3>2. Len(stk) + 1 \in 1..Len(stk')
            BY <1>2, <2>2
        <3> QED BY <2>2, <2>4, <3>1, <3>2 DEF Parts, Waiting
    <2> QED BY <2>5, <2>6, <2>7, <2>8
<1>10. ASSUME b <= a
       PROVE  SortTypes' /\ Within' /\ StackApart' /\ Room' /\ NowParts
    <2>1. stk' = stk
        BY <1>8, <1>10
    <2>2. c >= d
        BY <1>7, <1>10
    <2>3. phase' = "pop" /\ UNCHANGED <<lo, hi>>
        BY <1>6, <2>2 DEF Halves
    <2>4. SortTypes' /\ Within'
        BY <1>3, <1>4, <1>5, <2>1, <2>3 DEF SortInv, SortTypes, Within, Scanning
    <2>5. StackApart'
        BY <2>1, <2>3 DEF SortInv, StackApart, Busy
    <2>6. Room'
        <3>1. \A k : SizeAt(stk, k)' = SizeAt(stk, k)
            BY <1>5, <2>1 DEF SizeAt
        <3> QED BY <2>1, <2>3, <3>1 DEF SortInv, Room, Busy
    <2>7. NowParts
        BY <1>10, <2>1, <2>2 DEF Parts, Waiting
    <2> QED BY <2>4, <2>5, <2>6, <2>7
<1>11. SortTypes' /\ Within' /\ StackApart' /\ Room' /\ NowParts
    BY <1>9, <1>10
<1>12. phase' \in {"recurse", "pop"}
    BY <1>6 DEF Halves
<1>13. Scanned' /\ Kept' /\ (Comparable' <=> Comparable)
    BY <1>4, <1>12 DEF SortInv, Scanned, Scanning, Kept, Comparable
<1>14. ASSUME Comparable
       PROVE  Ordered'
    <2>1. ASSUME NEW i \in 1..N, NEW j \in 1..N, i < j, Together(Parts, i, j)
          PROVE  rank[arr'[i]] <= rank[arr'[j]] \/ Together(Parts', i, j)
        <3>1. Parts = Waiting \cup {<<lo, hi>>}
            BY <1>1 DEF Parts, Busy
        <3>2. CASE \E r \in Waiting : i \in r[1]..r[2] /\ j \in r[1]..r[2]
            BY <1>11, <3>2 DEF Together
        <3>3. CASE i \in lo..hi /\ j \in lo..hi
            <4>1. \/ rank[arr'[i]] <= rank[arr'[j]]
                  \/ i \in lo..(h - 1) /\ j \in lo..(h - 1)
                  \/ i \in l..hi /\ j \in l..hi
                BY <1>1, <1>5, <1>14, <2>1, <3>3, Divided
            <4>2. \/ rank[arr'[i]] <= rank[arr'[j]]
                  \/ i \in a..b /\ j \in a..b
                  \/ i \in c..d /\ j \in c..d
                BY <1>6, <4>1 DEF Halves
            <4>3. CASE i \in a..b /\ j \in a..b
                <5>1. PICK r : r = <<a, b>> /\ r[1] = a /\ r[2] = b
                    <6>1. <<a, b>>[1] = a /\ <<a, b>>[2] = b
                        OBVIOUS
                    <6> QED BY ONLY <6>1
                <5>2. a < b
                    BY <2>1, <4>3
                <5> QED BY <1>11, <4>3, <5>1, <5>2 DEF Together
            <4>4. CASE i \in c..d /\ j \in c..d
                <5>1. PICK r : r = <<c, d>> /\ r[1] = c /\ r[2] = d
                    <6>1. <<c, d>>[1] = c /\ <<c, d>>[2] = d
                        OBVIOUS
                    <6> QED BY ONLY <6>1
                <5>2. c < d
                    BY <2>1, <4>4
                <5> QED BY <1>11, <4>4, <5>1, <5>2 DEF Together
            <4> QED BY <4>2, <4>3, <4>4
        <3> QED BY <2>1, <3>1, <3>2, <3>3 DEF Together
    <2>2. Len(arr') = N
        BY <1>5 DEF N
    <2>3. InOrder(arr', Parts')
        BY <1>5, <1>14, <2>1, <2>2, PartsChange
    <2> QED BY <1>4, <2>3 DEF Ordered, InOrder, Together
<1> QED BY <1>5, <1>11, <1>13, <1>14 DEF SortInv

LEMMA PopKeepsInv ==
    ASSUME SortInv, SortAssumption, pop
    PROVE  SortInv'
<1>1. \/ phase = "pop"
      \/ phase = "short" /\ hi <= lo
    BY DEF pop
<1>2. /\ N \in Nat /\ lo \in 1..N /\ hi \in 1..N /\ Len(stk) \in Nat
      /\ \A k \in 1..Len(stk) : stk[k] \in (1..N) \X (1..N)
    BY DEF SortInv, SortTypes, Lengths
<1>3. stk \in Seq((1..N) \X (1..N))
    BY DEF SortInv, SortTypes
<1>4. UNCHANGED <<arr, rank, comparator, l, h, p, max, terminated, raised>> /\ N' = N
    BY DEF pop, scans, exception, N
<1>5. Permuted' /\ Kept' /\ (Comparable' <=> Comparable)
    BY <1>4 DEF SortInv, Permuted, Kept, Comparable
\* The range that is given up has no two elements
<1>6. ASSUME NEW i \in 1..N, NEW j \in 1..N, i < j, Together(Parts, i, j)
      PROVE  Together(Waiting, i, j)
    <2>1. CASE phase = "pop"
        BY <1>6, <2>1 DEF Parts
    <2>2. CASE phase = "short" /\ hi <= lo
        <3>1. Parts = Waiting \cup {<<lo, hi>>}
            BY <2>2 DEF Parts
        <3>2. ~(i \in lo..hi /\ j \in lo..hi)
            BY <1>2, <1>6, <2>2
        <3> QED BY <1>6, <3>1, <3>2 DEF Together
    <2> QED BY <1>1, <2>1, <2>2
<1>7. CASE stk # << >>
    <2>1. PICK n \in Nat : Len(stk) = n + 1
        <3>1. Len(stk) \in Nat \ {0}
            BY ONLY <1>3, <1>7, Popped
        <3>2. Len(stk) - 1 \in Nat /\ Len(stk) = (Len(stk) - 1) + 1
            BY <3>1
        <3> QED BY <3>2
    <2>2. PICK f \in Seq((1..N) \X (1..N)) :
              /\ f = Front(stk) /\ Len(f) = n
              /\ \A k \in 1..n : f[k] = stk[k]
              /\ Last(stk) = stk[n + 1] /\ Last(stk) \in (1..N) \X (1..N)
        <3>1. /\ Front(stk) \in Seq((1..N) \X (1..N)) /\ Len(Front(stk)) = Len(stk) - 1
              /\ \A k \in 1..(Len(stk) - 1) : Front(stk)[k] = stk[k]
              /\ Last(stk) = stk[Len(stk)] /\ Last(stk) \in (1..N) \X (1..N)
            BY ONLY <1>3, <1>7, Popped
        <3>2. Len(stk) - 1 = n
            BY <2>1
        <3> QED BY ONLY <2>1, <3>1, <3>2
    <2>3. /\ stk' = f /\ lo' = stk[n + 1][1] /\ hi' = stk[n + 1][2]
          /\ phase' = "recurse"
        BY <1>7, <2>2 DEF pop
    <2>4. stk[n + 1] = <<lo', hi'>>
        BY <1>2, <2>1, <2>3
    <2>5. \A k \in 1..(n + 1) : k \in 1..n \/ k = n + 1
        OBVIOUS
    <2>6. SortTypes'
        <3>1. lo' \in 1..N /\ hi' \in 1..N
            BY <2>2, <2>3
        <3> QED BY <1>4, <2>2, <2>3, <3>1 DEF SortInv, SortTypes
    <2>7. Within'
        <3>1. lo' < hi'
            BY <2>1, <2>3 DEF SortInv, StackApart
        <3> QED BY <2>3, <3>1 DEF Within, Scanning
    <2>8. StackApart'
        <3>1. /\ \A k \in 1..n : stk[k][1] < stk[k][2]
              /\ \A i, k \in 1..n : i # k => Apart(stk[i], stk[k])
              /\ \A k \in 1..n : Apart(stk[k], stk[n + 1])
            BY <2>1 DEF SortInv, StackApart
        <3>2. \A k \in 1..Len(stk') : k \in 1..n /\ stk'[k] = stk[k]
            BY <2>2, <2>3
        <3> QED BY <2>4, <3>1, <3>2 DEF StackApart
    <2>9. Room'
        <3>1. \A i \in 0..n : SizeAt(stk, i)' = SizeAt(stk, i)
            <4> TAKE i \in 0..n
            <4>1. i = 0 \/ i \in 1..n
                OBVIOUS
            <4> QED BY <1>4, <2>2, <2>3, <4>1 DEF SizeAt
        <3>2. ASSUME NEW k \in 1..n, NEW i \in 0..(k - 1)
              PROVE  2 ^ (k - i - 1) * (SizeAt(stk, k)' + 2) <= SizeAt(stk, i)' + 1
            <4>1. k \in 1..Len(stk) /\ k \in 0..n /\ i \in 0..n
                BY <2>1
            <4> QED BY <3>1, <4>1 DEF SortInv, Room
        <3>3. ASSUME NEW i \in 0..n
              PROVE  2 ^ (n - i) * (Size' + 1) <= SizeAt(stk, i)' + 1
            <4>1. /\ n - i \in Nat /\ (n + 1) - i - 1 = n - i
                  /\ n + 1 \in 1..Len(stk) /\ i \in 0..((n + 1) - 1) /\ n + 1 # 0
                BY <2>1
            <4>2. 2 ^ (n - i) * (SizeAt(stk, n + 1) + 2) <= SizeAt(stk, i) + 1
                BY <4>1 DEF SortInv, Room
            <4>3. PICK c \in Int, d \in Int : c = Size' + 1 /\ d = SizeAt(stk, n + 1) + 2 /\ c <= d
                <5>1. stk[n + 1][1] \in 1..N /\ stk[n + 1][2] \in 1..N
                    BY <1>2, <4>1
                <5>2. Size' = stk[n + 1][2] - stk[n + 1][1] + 1
                    BY <2>3 DEF Size
                <5>3. SizeAt(stk, n + 1) = Size'
                    BY <4>1, <5>2 DEF SizeAt
                <5>4. Size' \in Int
                    BY <5>1, <5>2
                <5>5. Size' + 1 \in Int /\ SizeAt(stk, n + 1) + 2 \in Int
                      /\ Size' + 1 <= SizeAt(stk, n + 1) + 2
                    BY <5>3, <5>4
                <5> QED BY <5>5
            <4>4. PICK x \in Nat : x = 2 ^ (n - i)
                BY <4>1, PowerIsNat
            <4>5. x * c <= x * d /\ x * c \in Int /\ x * d \in Int
                BY <4>3, Larger
            <4>6. SizeAt(stk, i) \in Int
                <5>1. i = 0 \/ i \in 1..Len(stk)
                    BY <2>1
                <5>2. CASE i = 0
                    BY <1>2, <5>2 DEF SizeAt
                <5>3. CASE i \in 1..Len(stk)
                    <6>1. stk[i][1] \in Int /\ stk[i][2] \in Int /\ i # 0
                        BY <1>2, <5>3
                    <6> QED BY <6>1 DEF SizeAt
                <5> QED BY <5>1, <5>2, <5>3
            <4>7. x * c <= SizeAt(stk, i) + 1
                BY SMTT(60), <4>2, <4>3, <4>4, <4>5, <4>6
            <4> QED BY <3>1, <4>3, <4>4, <4>7
        <3> QED BY <2>2, <2>3, <3>2, <3>3 DEF Room
    <2>10. ASSUME Comparable
           PROVE  Ordered'
        <3>1. Waiting \subseteq Parts'
            <4> SUFFICES ASSUME NEW r \in Waiting
                         PROVE  r \in Parts'
                OBVIOUS
            <4>1. PICK k \in 1..(n + 1) : r = stk[k]
                BY <2>1 DEF Waiting
            <4>2. CASE k \in 1..n
                BY <2>2, <2>3, <4>1, <4>2 DEF Parts, Waiting
            <4>3. CASE k = n + 1
                BY <2>3, <2>4, <4>1, <4>3 DEF Parts
            <4> QED BY <2>5, <4>2, <4>3
        <3>2. InOrder(arr, Parts')
            BY <1>6, <2>10, <3>1 DEF SortInv, Ordered, InOrder, Together, N
        <3> QED BY <1>4, <3>2 DEF Ordered, InOrder, Together
    <2>11. Scanned'
        BY <2>3 DEF Scanned, Scanning
    <2> QED BY <1>5, <2>6, <2>7, <2>8, <2>9, <2>10, <2>11 DEF SortInv
<1>8. CASE stk = << >>
    <2>1. phase' = "done" /\ UNCHANGED <<lo, hi, stk>>
        BY <1>8 DEF pop
    <2>2. SortTypes' /\ Within'
        BY <1>4, <1>8, <2>1 DEF SortInv, SortTypes, Within, Scanning
    <2>3. StackApart'
        BY <2>1 DEF SortInv, StackApart, Busy
    <2>4. Room'
        <3>1. \A k : SizeAt(stk, k)' = SizeAt(stk, k)
            BY <1>4, <2>1 DEF SizeAt
        <3> QED BY <2>1, <3>1 DEF SortInv, Room, Busy
    <2>5. Scanned'
        BY <2>1 DEF Scanned, Scanning
    <2>6. ASSUME Comparable
          PROVE  Ordered'
        <3>1. Parts' = Waiting
            BY <2>1 DEF Parts, Waiting
        <3>2. InOrder(arr, Waiting)
            BY <1>6, <2>6 DEF SortInv, Ordered, InOrder, N
        <3> QED BY <1>4, <3>1, <3>2 DEF Ordered, InOrder, Together
    <2> QED BY <1>5, <2>2, <2>3, <2>4, <2>5, <2>6 DEF SortInv
<1> QED BY <1>7, <1>8

LEMMA SortInvInit ==
    ASSUME SortAssumption, SortInit
    PROVE  SortInv
<1>1. PICK n \in Lengths :
          /\ arr = [i \in 1..n |-> i]
          /\ rank \in [1..n -> IF comparator = "values" THEN Ranks ELSE {NoRank}]
          /\ hi = n
    BY DEF SortInit
<1>2. n \in Nat /\ 2 <= n
    BY DEF Lengths, SortAssumption
<1>3. N = n /\ arr \in [1..n -> 1..n] /\ DOMAIN arr = 1..n
    BY <1>1, <1>2 DEF N
<1>4. /\ comparator \in Comparators /\ phase = "recurse" /\ lo = 1
      /\ l = 1 /\ h = 1 /\ p = 1 /\ max = 1 /\ stk = << >>
      /\ terminated = FALSE /\ raised = FALSE
    BY DEF SortInit
<1>5. SortTypes
    <2>1. N \in Lengths /\ arr \in [1..N -> 1..N]
        BY <1>1, <1>3
    <2>2. rank \in [1..N -> IF comparator = "values" THEN Ranks ELSE {NoRank}]
        BY <1>1, <1>3
    <2>3. 1 \in 1..n /\ n \in 1..n /\ 1 \in 1..(n + 1)
        BY ONLY <1>2
    <2>4. /\ lo \in 1..N /\ hi \in 1..N /\ max \in 1..N
          /\ l \in 1..(N + 1) /\ h \in 1..(N + 1) /\ p \in 1..(N + 1)
        BY <1>1, <1>3, <1>4, <2>3
    <2>5. stk \in Seq((1..N) \X (1..N))
        <3>1. \A S : << >> \in Seq(S)
            BY ONLY EmptySeq
        <3> QED BY <1>4, <3>1
    <2>6. /\ comparator \in Comparators
          /\ phase \in {"recurse", "up", "down", "meet", "short", "pop", "done"}
          /\ terminated \in BOOLEAN /\ raised \in BOOLEAN
        BY <1>4
    <2> QED BY <2>1, <2>2, <2>4, <2>5, <2>6 DEF SortTypes
<1>6. Within
    BY <1>1, <1>2, <1>4 DEF Within, Scanning
<1>7. Len(stk) = 0
    BY <1>4
<1>8. StackApart
    BY <1>7 DEF StackApart
<1>9. Permuted
    <2>1. ToSet(arr) = {arr[i] : i \in 1..n}
        BY <1>3 DEF ToSet
    <2>2. \A x : x \in ToSet(arr) <=> x \in 1..n
        BY <1>1, <2>1
    <2> QED BY <1>3, <2>2 DEF Permuted
<1>10. Ordered /\ Scanned
    <2>1. Busy
        BY <1>4 DEF Busy
    <2>2. \A i, j \in lo..hi : Together(Parts, i, j)
        BY <1>5, <1>6, <1>8, <2>1, PartAlone
    <2>3. Ordered
        BY <1>1, <1>3, <1>4, <2>2 DEF Ordered, InOrder, N
    <2>4. Scanned
        BY <1>4 DEF Scanned, Scanning
    <2> QED BY <2>3, <2>4
<1>11. Room
    <2>1. \A i \in 0..Len(stk) : i = 0
        BY <1>7
    <2>2. 2 ^ (0 - 0) = 1
        BY SMT
    <2>3. 2 ^ (Len(stk) - 0) * (Size + 1) <= SizeAt(stk, 0) + 1
        <3>1. Size = n /\ SizeAt(stk, 0) = n
            BY <1>1, <1>2, <1>3, <1>4 DEF Size, SizeAt
        <3>2. 1 * (n + 1) <= n + 1
            BY <1>2
        <3> QED BY <1>7, <2>2, <3>1, <3>2
    <2> QED BY <1>7, <2>1, <2>3 DEF Room
<1>12. Kept
    BY <1>4 DEF Kept
<1> QED BY <1>5, <1>6, <1>8, <1>9, <1>10, <1>11, <1>12 DEF SortInv

LEMMA SortInvNext ==
    ASSUME SortInv, SortAssumption, [SortNext]_sortVars
    PROVE  SortInv'
<1>1. CASE recurse
    BY <1>1, RecurseKeepsInv
<1>2. CASE scanUp
    BY <1>2, ScanUpKeepsInv
<1>3. CASE scanDown
    BY <1>3, ScanDownKeepsInv
<1>4. CASE exchange
    BY <1>4, ExchangeKeepsInv
<1>5. CASE split
    BY <1>5, SplitKeepsInv
<1>6. CASE findMax
    BY <1>6, FindMaxKeepsInv
<1>7. CASE placeMax
    BY <1>7, PlaceMaxKeepsInv
<1>8. CASE pop
    BY <1>8, PopKeepsInv
<1>9. CASE UNCHANGED sortVars
    <2>1. UNCHANGED <<arr, rank, comparator, phase, lo, hi, l, h, p, max, stk, terminated, raised>>
        BY <1>9 DEF sortVars, scans, exception
    <2>2. N' = N /\ Parts' = Parts /\ Size' = Size /\ \A k : SizeAt(stk, k)' = SizeAt(stk, k)
        BY <2>1 DEF N, Parts, Waiting, Size, SizeAt
    <2>3. SortTypes' /\ Within' /\ Permuted' /\ Kept'
        BY <2>1, <2>2 DEF SortInv, SortTypes, Within, Scanning, Permuted, Kept
    <2>5. StackApart'
        BY <2>1 DEF SortInv, StackApart, Busy
    <2>6. Room'
        BY <2>1, <2>2 DEF SortInv, Room, Busy
    <2>4. Comparable' => Ordered' /\ Scanned'
        BY <2>1, <2>2 DEF SortInv, Comparable, Ordered, InOrder, Together, Scanned, Scanning, AtMost
    <2> QED BY <2>3, <2>4, <2>5, <2>6 DEF SortInv
<1> QED BY <1>1, <1>2, <1>3, <1>4, <1>5, <1>6, <1>7, <1>8, <1>9 DEF SortNext

-----------------------------------------------------------------------------
(* Sort: what follows from the invariant.                                  *)

\* As many parts as entries of the stack.
LEMMA PartsAreMany ==
    ASSUME SortInv
    PROVE  Cardinality(Parts) >= Len(stk)
<1>1. /\ N \in Nat /\ Len(stk) \in Nat
      /\ \A k \in 1..Len(stk) : stk[k][1] \in Int /\ stk[k][2] \in Int
    <2>1. \A k \in 1..Len(stk) : stk[k] \in (1..N) \X (1..N)
        BY DEF SortInv, SortTypes
    <2>2. \A k \in 1..Len(stk) : stk[k][1] \in Int /\ stk[k][2] \in Int
        BY ONLY <2>1
    <2>3. N \in Nat /\ stk \in Seq((1..N) \X (1..N))
        BY DEF SortInv, SortTypes, Lengths
    <2>4. Len(stk) \in Nat
        BY ONLY <2>3, LenProperties
    <2> QED BY ONLY <2>2, <2>3, <2>4
<1> DEFINE K == 1..Len(stk)
           f == [k \in K |-> stk[k]]
<1>2. IsFiniteSet(K) /\ Cardinality(K) = Len(stk)
    <2>1. PICK n \in Nat : n = Len(stk)
        BY <1>1
    <2>2. 1 \in Int /\ n \in Int /\ (IF 1 > n THEN 0 ELSE n - 1 + 1) = n
        BY ONLY <2>1
    <2>3. IsFiniteSet(1..n) /\ Cardinality(1..n) = n
        <3>1. IsFiniteSet(1..n) /\ Cardinality(1..n) = IF 1 > n THEN 0 ELSE n - 1 + 1
            BY ONLY <2>2, FS_Interval
        <3> QED BY ONLY <3>1, <2>2
    <2> QED BY <2>1, <2>3
<1>3. \A i, k \in K : stk[i] = stk[k] => i = k
    BY <1>1 DEF SortInv, StackApart, Apart
<1>4. f \in Bijection(K, Waiting)
    <2>1. f \in [K -> Waiting]
        BY DEF Waiting
    <2>2. \A i, k \in K : f[i] = f[k] => i = k
        BY <1>3
    <2>3. \A r \in Waiting : \E k \in K : f[k] = r
        BY DEF Waiting
    <2> HIDE DEF f, K
    <2> QED BY <2>1, <2>2, <2>3 DEF Bijection, Injection, Surjection, IsInjective
<1>5. IsFiniteSet(Waiting) /\ Cardinality(Waiting) = Len(stk)
    <2>1. ExistsBijection(K, Waiting)
        BY <1>4 DEF ExistsBijection
    <2> HIDE DEF K
    <2> QED BY <1>2, <2>1, FS_Bijection
<1>6. IsFiniteSet(Parts)
    <2>1. Parts = Waiting \/ Parts = Waiting \cup {<<lo, hi>>}
        BY DEF Parts
    <2> QED BY <1>5, <2>1, FS_AddElement
<1>7. Waiting \in SUBSET Parts
    BY DEF Parts
<1>8. Cardinality(Waiting) <= Cardinality(Parts) /\ Cardinality(Parts) \in Nat
    BY <1>6, <1>7, FS_Subset, FS_CardinalityType
<1> QED BY <1>1, <1>5, <1>8

LEMMA InvApart ==
    ASSUME SortInv
    PROVE  PartsApart
<1>1. /\ N \in Nat /\ lo \in 1..N /\ hi \in 1..N /\ Len(stk) \in Nat
      /\ \A k \in 1..Len(stk) : stk[k][1] \in 1..N /\ stk[k][2] \in 1..N
    <2>1. \A k \in 1..Len(stk) : stk[k] \in (1..N) \X (1..N)
        BY DEF SortInv, SortTypes
    <2>2. \A k \in 1..Len(stk) : stk[k][1] \in 1..N /\ stk[k][2] \in 1..N
        BY ONLY <2>1
    <2>3. N \in Nat /\ lo \in 1..N /\ hi \in 1..N /\ stk \in Seq((1..N) \X (1..N))
        BY DEF SortInv, SortTypes, Lengths
    <2>4. Len(stk) \in Nat
        BY ONLY <2>3, LenProperties
    <2> QED BY ONLY <2>2, <2>3, <2>4
<1>2. \A r \in Parts :
          \/ \E k \in 1..Len(stk) : r = stk[k]
          \/ Busy /\ r = <<lo, hi>>
    BY DEF Parts, Waiting, Busy
<1>3. \A r \in Parts : r[1] \in 1..N /\ r[2] \in 1..N
    BY <1>1, <1>2
<1>4. ASSUME NEW r \in Parts, NEW s \in Parts, r # s
      PROVE  Apart(r, s)
    <2>1. ASSUME NEW i \in 1..Len(stk), NEW k \in 1..Len(stk), r = stk[i], s = stk[k]
          PROVE  Apart(r, s)
        BY <1>4, <2>1 DEF SortInv, StackApart
    <2>2. ASSUME NEW k \in 1..Len(stk), r = stk[k], Busy, s = <<lo, hi>>
          PROVE  Apart(r, s)
        BY <2>2 DEF SortInv, StackApart
    <2>3. ASSUME NEW k \in 1..Len(stk), s = stk[k], Busy, r = <<lo, hi>>
          PROVE  Apart(r, s)
        <3>1. Apart(s, r)
            BY <2>3 DEF SortInv, StackApart
        <3> QED BY <3>1 DEF Apart
    <2> QED BY <1>2, <1>4, <2>1, <2>2, <2>3
<1>5. \A r, s \in Parts : r # s => r[1]..r[2] \cap s[1]..s[2] = {}
    <2> SUFFICES ASSUME NEW r \in Parts, NEW s \in Parts, r # s,
                        NEW x, x \in r[1]..r[2], x \in s[1]..s[2]
                 PROVE  FALSE
        OBVIOUS
    <2>1. Apart(r, s)
        BY <1>4
    <2> QED BY <1>3, <2>1 DEF Apart
<1>6. \A r \in Parts : 1 <= r[1] /\ r[2] <= Len(arr)
    BY <1>1, <1>3 DEF N
<1>7. ToSet(arr) = 1..Len(arr)
    BY DEF SortInv, Permuted, N
<1> QED BY <1>5, <1>6, <1>7, PartsAreMany DEF PartsApart

\* The last part that waits has two elements, which is what the first one pays for.
LEMMA InvFits ==
    ASSUME SortInv
    PROVE  StackFits
<1>1. N \in Nat /\ 2 <= N /\ N = Len(arr) /\ Len(stk) \in Nat
    BY DEF SortInv, SortTypes, Lengths, N
<1>2. CASE Len(stk) = 0
    <2>1. 2 ^ (0 + 1) - 1 = 1
        BY SMT
    <2> QED BY <1>1, <1>2, <2>1 DEF StackFits
<1>3. CASE Len(stk) # 0
    <2>1. PICK m \in Nat : Len(stk) = m + 1
        <3>1. Len(stk) - 1 \in Nat /\ Len(stk) = (Len(stk) - 1) + 1
            BY <1>1, <1>3
        <3> QED BY <3>1
    <2>2. /\ m + 1 \in 1..Len(stk) /\ 0 \in 0..((m + 1) - 1)
          /\ (m + 1) - 0 - 1 = m /\ m + 1 # 0
        BY <2>1
    <2>3. 2 ^ m * (SizeAt(stk, m + 1) + 2) <= SizeAt(stk, 0) + 1
        BY <2>2 DEF SortInv, Room
    <2>4. PICK s \in Int : s = SizeAt(stk, m + 1) /\ 2 <= s
        <3>1. stk[m + 1] \in (1..N) \X (1..N) /\ stk[m + 1][1] < stk[m + 1][2]
            BY SMTT(60), <2>2 DEF SortInv, SortTypes, StackApart
        <3>2. PICK a \in Int, b \in Int : a = stk[m + 1][1] /\ b = stk[m + 1][2] /\ a < b
            BY <3>1
        <3>3. SizeAt(stk, m + 1) = b - a + 1
            BY <2>2, <3>2 DEF SizeAt
        <3>4. b - a + 1 \in Int /\ 2 <= b - a + 1
            BY <3>2
        <3> QED BY <3>3, <3>4
    <2>5. SizeAt(stk, 0) = N
        BY DEF SizeAt
    <2>6. PICK x \in Nat : x = 2 ^ m /\ 2 * x = 2 ^ (m + 1) /\ 2 * (2 * x) = 2 ^ ((m + 1) + 1)
        BY PowerIsNat, PowerDoubles
    <2>7. PICK y \in Int : y = s + 2 /\ 4 <= y
        BY <2>4
    <2>8. x * 4 <= x * y /\ x * y \in Int
        BY <2>7, Larger
    <2>9. x * y <= N + 1
        BY <2>3, <2>4, <2>5, <2>6, <2>7
    <2>10. 2 * (2 * x) - 1 <= N
        BY <1>1, <2>8, <2>9
    <2> QED BY <1>1, <2>1, <2>6, <2>10 DEF StackFits
<1> QED BY <1>2, <1>3

LEMMA InvSound ==
    ASSUME SortInv
    PROVE  SortTypeOK /\ PartsApart /\ PartsInOrder /\ StackFits
<1>1. SortTypeOK
    <2>1. /\ N \in Lengths
          /\ arr \in [1..N -> 1..N]
          /\ {lo, hi, max} \subseteq 1..N /\ {l, h, p} \subseteq 1..(N + 1)
          /\ stk \in Seq((1..N) \X (1..N))
        BY DEF SortInv, SortTypes
    <2>2. rank \in [1..N -> Ranks \cup {NoRank}]
        BY DEF SortInv, SortTypes
    <2>3. /\ comparator \in Comparators
          /\ phase \in {"recurse", "up", "down", "meet", "short", "pop", "done"}
          /\ terminated \in BOOLEAN /\ raised \in BOOLEAN
        BY DEF SortInv, SortTypes
    <2> HIDE DEF N
    <2> QED BY <2>1, <2>2, <2>3 DEF SortTypeOK
<1>2. PartsInOrder
    <2>1. \A i, j : SamePart(i, j) <=> Together(Parts, i, j)
        BY DEF SamePart, Together
    <2> QED BY <2>1 DEF PartsInOrder, SortInv, Comparable, Ordered, InOrder
<1> QED BY <1>1, <1>2, InvApart, InvFits

\* The sort keeps its ranges apart and in order within its stack (OS::qsort),
\* whatever the comparison does, values that cannot be compared included.
THEOREM PartsAreApart ==
    ASSUME SortAssumption
    PROVE  SortSpec => [](SortTypeOK /\ PartsApart /\ PartsInOrder /\ StackFits)
<1>1. SortInit => SortInv
    BY SortInvInit
<1>2. SortInv /\ [SortNext]_sortVars => SortInv'
    BY SortInvNext
<1>3. SortInv => SortTypeOK /\ PartsApart /\ PartsInOrder /\ StackFits
    BY InvSound
<1> QED BY <1>1, <1>2, <1>3, PTL DEF SortSpec

\* If all values can be compared, an exception thrown by the comparison function of
\* OS::qsort is also still set at the end.
THEOREM PartsAreSound ==
    ASSUME SortAssumption, NoRank \notin Ranks
    PROVE  SortSpec => []PartsSound
<1>1. SortInit => SortInv
    BY SortInvInit
<1>2. SortInv /\ [SortNext]_sortVars => SortInv'
    BY SortInvNext
<1>3. SortInv => PartsSound
    BY InvSound DEF PartsSound, ExceptionKept, SortInv, Kept
<1> QED BY <1>1, <1>2, <1>3, PTL DEF SortSpec
=============================================================================
