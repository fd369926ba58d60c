------------------------------- MODULE WebUi -------------------------------
(***************************************************************************)
(* WebUiService: the table of websocket clients, and the frames that       *)
(* events and log lines send to all of them.  broadcast() runs on the      *)
(* event bus's dispatcher, and through the log hook on every task that     *)
(* ends a log line; it holds mutex_ while it hands one piece of work per   *)
(* client to the HTTP server, whose single task sends the frames, handles  *)
(* the clients' requests and closes their sockets.                         *)
(*                                                                         *)
(* The server is external: a socket's number is used again after it was    *)
(* closed, a socket may go without a call of wsHandler(), and              *)
(* httpd_queue_work() may lose the work when its queue is full or refuse   *)
(* it, and logs that.  addClient() and removeClient() call nothing while   *)
(* they hold mutex_ and are one step each.  What a frame says, and how a   *)
(* line is put together of its parts, is left out.                         *)
(***************************************************************************)
EXTENDS Naturals, SequencesExt

CONSTANTS Others,     \* the tasks that broadcast, besides the HTTP server's
          Fds,        \* socket numbers
          MaxClients, \* kMaxClients
          MaxWorks,   \* how much work the server's queue holds
          None        \* no task, no socket

ASSUME WebUiAssumption ==
  /\ "httpd" \notin Others /\ None \notin Others \cup Fds \cup {"httpd"}
  /\ MaxClients \in Nat \ {0} /\ MaxWorks \in Nat \ {0}

VARIABLES
  clients,  \* clients_
  mutex,    \* who holds mutex_
  pc,       \* where each task is
  next,     \* broadcast(): the client each task comes to next
  fd,       \* the socket the server's task works for
  socket,   \* the server's sockets: closed, http or ws
  works,    \* the server's queue: the socket each piece of work is for
  gone,     \* history: listed sockets that went without a call of wsHandler()
  unheard,  \* history: websockets the table had no room for, or a send to failed
  served    \* history: the clients each task has come past in its loop over them

serverVars  == <<fd, socket, works>>
historyVars == <<gone, unheard, served>>
webUiVars == <<clients, mutex, pc, next, serverVars, historyVars>>

WebTasks == Others \cup {"httpd"}

WebUiInit ==
  /\ clients = <<>> /\ mutex = None
  /\ pc = [t \in WebTasks |-> "idle"] /\ next = [t \in WebTasks |-> 1]
  /\ fd = None /\ socket = [f \in Fds |-> "closed"] /\ works = <<>>
  /\ gone = {} /\ unheard = {} /\ served = [t \in WebTasks |-> <<>>]

Listed   == Range(clients)
Moves(t, from, to) == pc[t] = from /\ pc' = [pc EXCEPT ![t] = to]

\* A line in the log: the hook, pushLogLine() and broadcastLogLine() come to broadcast().
Logs(t, from) == Moves(t, from, "lock")

-----------------------------------------------------------------------------
(* broadcast().                                                              *)

BroadcastOnly == UNCHANGED <<clients, fd, socket, gone, unheard>>

\* onEvent() on the dispatcher; the log hook on any task.
Begins(t) == t # "httpd" /\ Moves(t, "idle", "lock") /\ UNCHANGED <<mutex, next, works, served>>

LockClients(t) ==
  /\ mutex = None /\ mutex' = t
  /\ Moves(t, "lock", "send")
  /\ next' = [next EXCEPT ![t] = 1]
  /\ UNCHANGED <<works, served>>

\* One client's work: queued, lost with a full queue, or without memory for it.
QueueWork(t) ==
  /\ pc[t] = "send" /\ next[t] <= Len(clients)
  /\ works' \in {works} \cup IF Len(works) < MaxWorks THEN {Append(works, clients[next[t]])} ELSE {}
  /\ next' = [next EXCEPT ![t] = @ + 1]
  /\ served' = [served EXCEPT ![t] = Append(@, clients[next[t]])]
  /\ UNCHANGED <<pc, mutex>>

\* The server refuses the work, and says so in the log: its line comes back
\* through the hook to broadcast(), and waits there for the mutex.
Refused(t) ==
  /\ next[t] <= Len(clients)
  /\ Logs(t, "send")
  /\ UNCHANGED <<mutex, next, works, served>>

UnlockClients(t) ==
  /\ next[t] > Len(clients)
  /\ Moves(t, "send", "idle")
  /\ mutex' = None
  /\ next' = [next EXCEPT ![t] = 1] /\ served' = [served EXCEPT ![t] = <<>>]
  /\ UNCHANGED works

Broadcast(t) ==
  /\ Begins(t) \/ LockClients(t) \/ QueueWork(t) \/ Refused(t) \/ UnlockClients(t)
  /\ BroadcastOnly

-----------------------------------------------------------------------------
(* The HTTP server's task.                                                   *)

\* A websocket's handshake: with a bad token the socket is closed again, with a line
\* in the log.
WsConnects(f) ==
  /\ socket[f] = "closed"
  /\ \/ /\ Moves("httpd", "idle", "add")
        /\ fd' = f /\ socket' = [socket EXCEPT ![f] = "ws"]
     \/ /\ Logs("httpd", "idle")
        /\ UNCHANGED <<fd, socket>>
  /\ UNCHANGED <<clients, mutex, next, works, historyVars>>

\* addClient(), and a line in the log: a socket that is listed already, since it went
\* unseen and its number came back, stays where it is.
AddClient ==
  /\ mutex = None
  /\ Logs("httpd", "add") /\ fd' = None
  /\ clients' = IF fd \notin Listed /\ Len(clients) < MaxClients THEN Append(clients, fd)
                ELSE clients
  /\ unheard' = IF fd \in Range(clients') THEN unheard ELSE unheard \cup {fd}
  /\ gone' = gone \ {fd}
  /\ UNCHANGED <<mutex, next, socket, works, served>>

\* A fault: the path of a frame that is too long forgets removeClient().
WsEndsUnseen(f) ==
  /\ socket[f] = "ws" /\ pc["httpd"] = "idle"
  /\ \/ pc' = [pc EXCEPT !["httpd"] = "remove and log"] /\ fd' = f /\ UNCHANGED socket
     \/ socket' = [socket EXCEPT ![f] = "closed"] /\ UNCHANGED <<pc, fd>>
  /\ UNCHANGED <<clients, mutex, next, works, historyVars>>

\* wsHandler() on a close frame, a frame it cannot receive or one that is too long:
\* only the first says so in the log.  The server closes the socket afterwards.
WsEnds(f) ==
  /\ socket[f] = "ws" /\ pc["httpd"] = "idle"
  /\ \E then \in {"remove and log", "remove"} : pc' = [pc EXCEPT !["httpd"] = then]
  /\ fd' = f
  /\ UNCHANGED <<clients, mutex, next, socket, works, historyVars>>

\* removeClient() fills the gap with the last client.
Without(s, f) ==
  IF f \notin Range(s) THEN s
  ELSE Front([s EXCEPT ![CHOOSE i \in DOMAIN s : s[i] = f] = Last(s)])

\* A fault: removeClient() does not wait for the mutex.
RemoveClientAtOnce ==
  /\ \/ Logs("httpd", "remove and log") /\ socket' = [socket EXCEPT ![fd] = "closed"]
     \/ Moves("httpd", "remove", "idle") /\ socket' = [socket EXCEPT ![fd] = "closed"]
     \/ Moves("httpd", "remove only", "idle") /\ UNCHANGED socket
  /\ clients' = Without(clients, fd)
  /\ gone' = gone \ {fd}
  /\ unheard' = IF socket'[fd] = "ws" THEN unheard \cup {fd} ELSE unheard \ {fd}
  /\ fd' = None
  /\ UNCHANGED <<mutex, next, works, served>>

RemoveClient ==
  /\ mutex = None
  /\ \/ Logs("httpd", "remove and log") /\ socket' = [socket EXCEPT ![fd] = "closed"]
     \/ Moves("httpd", "remove", "idle") /\ socket' = [socket EXCEPT ![fd] = "closed"]
     \/ Moves("httpd", "remove only", "idle") /\ UNCHANGED socket
  /\ clients' = Without(clients, fd)
  /\ gone' = gone \ {fd}
  /\ unheard' = IF socket'[fd] = "ws" THEN unheard \cup {fd} ELSE unheard \ {fd}
  /\ fd' = None
  /\ UNCHANGED <<mutex, next, works, served>>

\* A request that is no handshake, on a socket of its own.
HttpConnects(f) ==
  /\ socket[f] = "closed" /\ pc["httpd"] = "idle"
  /\ socket' = [socket EXCEPT ![f] = "http"]
  /\ UNCHANGED <<clients, mutex, pc, next, fd, works, historyVars>>

\* The peer is gone, or the server makes room for another: no handler is called.
SocketGoes(f) ==
  /\ socket[f] # "closed" /\ pc["httpd"] = "idle"
  /\ socket' = [socket EXCEPT ![f] = "closed"]
  /\ gone' = IF f \in Listed THEN gone \cup {f} ELSE gone
  /\ unheard' = unheard \ {f}
  /\ UNCHANGED <<clients, mutex, pc, next, fd, works, served>>

\* wsSendWorker(): without a socket of this number the send fails, with one it may.
WsSendWorker ==
  /\ pc["httpd"] = "idle" /\ works # <<>>
  /\ works' = Tail(works)
  /\ \/ socket[Head(works)] # "closed" /\ UNCHANGED <<pc, fd>>
     \/ pc' = [pc EXCEPT !["httpd"] = "remove only"] /\ fd' = Head(works)
  /\ UNCHANGED <<clients, mutex, next, socket, historyVars>>

Server ==
  \/ \E f \in Fds : WsConnects(f) \/ WsEnds(f) \/ HttpConnects(f) \/ SocketGoes(f)
  \/ AddClient \/ RemoveClient \/ WsSendWorker

WebUiNext == Server \/ \E t \in WebTasks : Broadcast(t)

WebUiSpec == WebUiInit /\ [][WebUiNext]_webUiVars

-----------------------------------------------------------------------------
(* Properties.                                                               *)

WebUiTypeOK ==
  /\ clients \in SeqOf(Fds, MaxClients)
  /\ mutex \in WebTasks \cup {None}
  /\ pc \in [WebTasks -> {"idle", "lock", "send", "add", "remove", "remove and log", "remove only"}]
  /\ next \in [WebTasks -> 1 .. MaxClients + 1]
  /\ fd \in Fds \cup {None} /\ socket \in [Fds -> {"closed", "http", "ws"}]
  /\ works \in SeqOf(Fds, MaxWorks)
  /\ gone \subseteq Fds /\ unheard \subseteq Fds
  /\ served \in [WebTasks -> SeqOf(Fds, MaxClients)]

\* The table lists the open websockets: one that is not listed found the table full or
\* failed a send, and a number that is listed and is no websocket's went without a call
\* of the handler.  None is listed twice: removeClient() would leave the second entry,
\* and every frame would be sent twice.
TableMatchesSockets ==
  /\ IsInjective(clients)
  /\ \A f \in Fds :
       /\ f \in Listed => socket[f] = "ws" \/ f \in gone
       /\ socket[f] = "ws" => f \in Listed \cup unheard \/ (pc["httpd"] = "add" /\ fd = f)

\* broadcast() comes to every client of the table once: while it is in its loop nobody
\* adds a client, and nobody removes one, whose gap the last client would fill where the
\* loop has been already.
EachClientOnce ==
  \A t \in WebTasks : pc[t] = "send" =>
    /\ Len(served[t]) = next[t] - 1 /\ Len(served[t]) <= Len(clients)
    /\ \A i \in 1 .. Len(served[t]) : served[t][i] = clients[i]

\* What webui_service.hpp says of the event handlers: they hand the socket writes to the
\* HTTP server, "so no framework task ever blocks on a slow client".  A task blocks for
\* ever when it comes to wait for the mutex it holds itself.
NoTaskBlocks ==
  \A t \in Others : ~(pc[t] = "lock" /\ mutex = t)
=============================================================================
