---------------------------- MODULE FcgiServer ----------------------------
(***************************************************************************)
(* The worker threads of os-fcgi.  Each thread of doit takes the mutex,    *)
(* calls FCGX_Accept_r (which first finishes the thread's last request, if *)
(* nobody has), gives the mutex back and runs the request in a new         *)
(* interpreter.  A request whose body is too large gets its answer written *)
(* to the output buffer of the request and nothing else.                   *)
(*                                                                         *)
(* A client is a connection slot of the web server: it sends a request and *)
(* waits for the answer, over a new connection or, if it is one of Keep,   *)
(* over the one it already has.  Nobody reads the rest of a request: what  *)
(* processRequest did not take of a body is still on a kept connection when*)
(* the library looks for the next request there, which it then closes.     *)
(***************************************************************************)
EXTENDS Naturals, Sequences, SequencesExt

CONSTANTS
    Threads, Clients,
    Big,        \* clients whose requests exceed post_max_size
    Keep,       \* clients that ask to keep the connection
    Unread,     \* clients whose requests processRequest does not read to the end
    Nil

ASSUME FcgiAssumption ==
    /\ Big \subseteq Unread /\ Unread \subseteq Clients /\ Keep \subseteq Clients
    /\ Nil \notin Threads \cup Clients

VARIABLES
    client,         \* "idle", "waiting" for an answer, or "reset": its connection was
                    \* closed and its request is lost
    queue,          \* connections nobody accepted yet, oldest first
    accept_mutex,   \* the thread that has it
    pc,
    ipcFd,          \* the open connection of each thread's FCGX_Request
    open,           \* whether the request of that connection is unfinished (in # NULL)
    sent,           \* whether a request came over the connection and was not read yet
    dirty,          \* whether it holds the rest of an earlier request
    up              \* the process runs

vars == <<client, queue, accept_mutex, pc, ipcFd, open, sent, dirty, up>>

Init ==
    /\ client = [c \in Clients |-> "idle"]
    /\ queue = << >>
    /\ accept_mutex = Nil
    /\ pc = [t \in Threads |-> "lock"]
    /\ ipcFd = [t \in Threads |-> Nil]
    /\ open = [t \in Threads |-> FALSE]
    /\ sent = {}
    /\ dirty = {}
    /\ up = TRUE

at(t, l) == up /\ pc[t] = l

goto(t, l) == pc' = [pc EXCEPT ![t] = l]

-----------------------------------------------------------------------------
(* The web server.                                                         *)

send(c) ==
    /\ up /\ client[c] \in {"idle", "reset"}
    /\ client' = [client EXCEPT ![c] = "waiting"]
    /\ sent' = sent \cup {c}
    /\ queue' = IF \E t \in Threads : ipcFd[t] = c THEN queue ELSE Append(queue, c)
    /\ UNCHANGED <<accept_mutex, pc, ipcFd, open, dirty, up>>

-----------------------------------------------------------------------------
(* The FastCGI library.                                                    *)

\* Mutant: the streams are freed and nothing is sent
badFinish(t) ==
    /\ open' = [open EXCEPT ![t] = FALSE]
    /\ ipcFd' = [ipcFd EXCEPT ![t] = IF @ \in Keep THEN @ ELSE Nil]
    /\ UNCHANGED <<client, dirty>>

\* FCGX_Finish_r: the output reaches the client, the connection is closed unless it
\* is kept; nothing happens to a request that is finished already.  Bytes of the
\* request that were not read stay on the kept connection, unless they had come with
\* the last bytes read or name a request the library skips
finish(t) ==
    /\ client' = IF open[t] THEN [client EXCEPT ![ipcFd[t]] = "idle"] ELSE client
    /\ open' = [open EXCEPT ![t] = FALSE]
    /\ ipcFd' = [ipcFd EXCEPT ![t] = IF @ \in Keep THEN @ ELSE Nil]
    /\ \/ UNCHANGED dirty
       \/ open[t] /\ ipcFd[t] \in Keep \cap Unread /\ dirty' = dirty \cup {ipcFd[t]}

\* FCGX_Accept_r, first step
acceptFinish(t) ==
    /\ at(t, "finish")
    /\ finish(t)
    /\ goto(t, "accept")
    /\ UNCHANGED <<queue, accept_mutex, sent, up>>

\* OS_Accept: the oldest connection
acceptConnection(t) ==
    /\ at(t, "accept") /\ ipcFd[t] = Nil /\ queue # << >>
    /\ ipcFd' = [ipcFd EXCEPT ![t] = Head(queue)]
    /\ queue' = Tail(queue)
    /\ UNCHANGED <<client, accept_mutex, pc, open, sent, dirty, up>>

\* The request is read from the connection, new or kept
readRequest(t) ==
    /\ at(t, "accept") /\ ipcFd[t] \in sent \ dirty
    /\ open' = [open EXCEPT ![t] = TRUE]
    /\ sent' = sent \ {ipcFd[t]}
    /\ goto(t, "unlock")
    /\ UNCHANGED <<client, queue, accept_mutex, ipcFd, dirty, up>>

\* The rest of the earlier request is read where a request must begin: the library closes
\* the connection and goes on accepting.  What the client sent over it meanwhile is lost
protocolError(t) ==
    /\ at(t, "accept") /\ ipcFd[t] \in dirty
    /\ ipcFd' = [ipcFd EXCEPT ![t] = Nil]
    /\ client' = IF ipcFd[t] \in sent THEN [client EXCEPT ![ipcFd[t]] = "reset"] ELSE client
    /\ sent' = sent \ {ipcFd[t]}
    /\ dirty' = dirty \ {ipcFd[t]}
    /\ UNCHANGED <<queue, accept_mutex, pc, open, up>>

\* The web server closes a kept connection while no request is under way on it
dropConnection(t) ==
    /\ at(t, "accept") /\ ipcFd[t] \in Keep \ dirty /\ client[ipcFd[t]] = "idle"
    /\ ipcFd' = [ipcFd EXCEPT ![t] = Nil]
    /\ UNCHANGED <<client, queue, accept_mutex, pc, open, sent, dirty, up>>

-----------------------------------------------------------------------------
(* doit and processRequest.                                                *)

lock(t) ==
    /\ at(t, "lock") /\ accept_mutex = Nil
    /\ accept_mutex' = t
    /\ goto(t, "finish")
    /\ UNCHANGED <<client, queue, ipcFd, open, sent, dirty, up>>

unlock(t) ==
    /\ at(t, "unlock")
    /\ accept_mutex' = Nil
    /\ goto(t, "process")
    /\ UNCHANGED <<client, queue, ipcFd, open, sent, dirty, up>>

\* processRequest up to the end of the script and its shutdown functions; too large a
\* body ends it at once
process(t) ==
    /\ at(t, "process")
    /\ goto(t, IF ipcFd[t] \in Big THEN "release" ELSE "answer")
    /\ UNCHANGED <<client, queue, accept_mutex, ipcFd, open, sent, dirty, up>>


\* The call of FCGX_Finish_r, then the cleanup functions
answer(t) ==
    /\ at(t, "answer")
    /\ finish(t)
    /\ goto(t, "release")
    /\ UNCHANGED <<queue, accept_mutex, sent, up>>

\* The cleanup functions ran, the interpreter goes
release(t) ==
    /\ at(t, "release")
    /\ goto(t, "lock")
    /\ UNCHANGED <<client, queue, accept_mutex, ipcFd, open, sent, dirty, up>>

\* FCGX_Accept_r fails, or a signal arrives: the process exits with all its threads
exit ==
    /\ up
    /\ up' = FALSE
    /\ UNCHANGED <<client, queue, accept_mutex, pc, ipcFd, open, sent, dirty>>

run(t) == process(t) \/ answer(t) \/ release(t) \/ unlock(t) \/ acceptFinish(t)
          \/ acceptConnection(t) \/ readRequest(t) \/ protocolError(t)

Next ==
    \/ \E c \in Clients : send(c)
    \/ \E t \in Threads : lock(t) \/ run(t) \/ dropConnection(t)
    \/ exit

\* A thread that can go on does, and the mutex does not pass over one thread for ever.
\* Nothing is assumed of the web server
Fairness == \A t \in Threads : WF_vars(run(t)) /\ SF_vars(lock(t))

Spec == Init /\ [][Next]_vars /\ Fairness

-----------------------------------------------------------------------------
(* Properties.                                                             *)

\* Threads, connections and the mutex have values of their kinds
TypeOK ==
    /\ client \in [Clients -> {"idle", "waiting", "reset"}]
    /\ accept_mutex \in Threads \cup {Nil}
    /\ pc \in [Threads -> {"lock", "finish", "accept", "unlock", "process", "answer", "release"}]
    /\ ipcFd \in [Threads -> Clients \cup {Nil}]
    /\ open \in [Threads -> BOOLEAN]
    /\ queue \in Seq(Clients) /\ up \in BOOLEAN
    /\ sent \subseteq Clients /\ dirty \subseteq Clients

\* One thread at a time is in FCGX_Accept_r, and it is the one that has the mutex
OneAccepts ==
    \A t \in Threads : pc[t] \in {"finish", "accept", "unlock"} <=> accept_mutex = t

\* A client has one connection: it waits in the queue or belongs to one thread
OneConnection ==
    /\ \A t, u \in Threads : t # u /\ ipcFd[t] # Nil => ipcFd[t] # ipcFd[u]
    /\ \A i, j \in DOMAIN queue : i # j => queue[i] # queue[j]
    /\ \A t \in Threads : ipcFd[t] \notin ToSet(queue)

\* A client waits exactly while its request is unread or unfinished: no request is
\* forgotten between the queue, the kept connection and the thread, and none is answered
\* twice
WaitingIsPending ==
    \A c \in Clients : client[c] = "waiting" <=>
        c \in sent \/ \E t \in Threads : ipcFd[t] = c /\ open[t]

\* A request that was sent and not read waits on a connection that is in the queue or
\* belongs to a thread
NothingLost ==
    /\ ToSet(queue) \subseteq sent
    /\ \A c \in sent : c \in ToSet(queue) \/ \E t \in Threads : ipcFd[t] = c

\* A thread has an unfinished request from FCGX_Accept_r to FCGX_Finish_r, which for a
\* request that is too large is the one of the next FCGX_Accept_r; between requests it
\* has a connection only if that is kept
RequestOpen ==
    \A t \in Threads :
        /\ open[t] => ipcFd[t] \in Clients \ sent
        /\ pc[t] \in {"unlock", "process", "answer"} => open[t]
        /\ pc[t] = "accept" => ~open[t]
        /\ ~open[t] /\ pc[t] # "accept" => ipcFd[t] \in Keep \cup {Nil}

\* The library closes a connection under a request only if the connection was kept after
\* a request that was not read to its end.  A request over a new connection, the one
\* after such a loss included, is never lost, and the rest of an old request is never on
\* the connection of a request that is being answered
OnlyKeptAreReset ==
    /\ \A c \in dirty : c \in Keep \cap Unread /\ \E t \in Threads : ipcFd[t] = c /\ ~open[t]
    /\ \A c \in Clients : client[c] = "reset" =>
          c \in Keep \cap Unread /\ \A t \in Threads : ipcFd[t] # c

\* The thread with the mutex waits for the next request on a connection that was kept
WaitsOnKept ==
    \E t \in Threads : pc[t] = "accept" /\ ipcFd[t] \in Keep \ (sent \cup dirty)

\* The client's request was answered, or lost with a kept connection that held the rest
\* of its last request
Settled(c) == client[c] = "idle" \/ (client[c] = "reset" /\ c \in Keep \cap Unread)

\* A request of acceptable size over a connection of its own is answered, unless the
\* thread in FCGX_Accept_r waits for its kept connection, which keeps all other threads
\* from accepting, or the process ends
RegularAnswered ==
    \A c \in Clients \ (Big \cup Keep) :
        client[c] = "waiting" ~> client[c] = "idle" \/ WaitsOnKept \/ ~up

\* processRequest returns from a request that is too large without FCGX_Finish_r: its
\* answer leaves when its thread enters FCGX_Accept_r again.  A request over a kept
\* connection is read there too, or lost if the rest of the last one is still before it.
\* Both may have to wait for the mutex until another client's request makes the thread
\* that has it leave, but no longer
AnsweredThroughOthers ==
    \A c \in Big \cup Keep :
        ([]<>(\E d \in Clients \ {c} : client[d] = "waiting"))
            => (client[c] = "waiting" ~> Settled(c) \/ WaitsOnKept \/ ~up)

\* No request is forgotten or answered twice, only a kept connection is closed under a
\* request, and threads accept one at a time.
RequestsExact ==
    TypeOK /\ OneAccepts /\ OneConnection /\ WaitingIsPending /\ NothingLost /\ RequestOpen
    /\ OnlyKeptAreReset

=============================================================================
