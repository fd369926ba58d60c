------------------------------ MODULE Config ------------------------------
(***************************************************************************)
(* ConfigService, its files on StorageService, and the API token that      *)
(* RestService keeps of it.  A write loads its namespace's file, changes   *)
(* one key and saves it, under the service's mutex, and then publishes     *)
(* ConfigChanged.  RestService reloads the token when such an event is     *)
(* delivered, and the config PUT handler does when all its writes worked.  *)
(*                                                                         *)
(* A file is what a load makes of it: a value for each key, or, when it is *)
(* cut short or longer than kMaxFileBytes, an empty document.  The file    *)
(* system is external: a save that fails leaves the old file or a cut one, *)
(* and when it fails as late as fclose() writeFile() does not see it.  So  *)
(* is the event bus, which may lose an event (EventBus has its details).   *)
(***************************************************************************)
EXTENDS Naturals, Sequences, FiniteSets

CONSTANTS Tasks,      \* the tasks that write the configuration
          Spaces,     \* the namespaces
          Keys,       \* the keys of a namespace
          Values,     \* what they can be set to
          NoValue,    \* a key that is not there
          System,     \* the namespace "system"
          Token,      \* its key "api_token"
          MaxKeys,    \* bound: the most keys a file of kMaxFileBytes has
          ListMax,    \* the entries resetAll() lists
          QueueDepth, \* ConfigChanged events the bus holds
          NoTask

ASSUME ConfigAssumption ==
  /\ System \in Spaces /\ Token \in Keys
  /\ NoValue \notin Values /\ NoTask \notin Tasks
  /\ MaxKeys \in Nat /\ ListMax \in Nat /\ QueueDepth \in Nat \ {0}

VARIABLES
  files,     \* the document in each namespace's file
  readable,  \* whether it loads
  mutex,     \* the task that holds it
  token,     \* token_ of RestService
  queue,     \* ConfigChanged events, oldest first
  reloading, \* RestService::onConfigChanged() is about to reload the token
  call,      \* the call each task makes (see Idle for its fields)
  lapse      \* history: the first thing that went wrong since the token was read

fileVars  == <<files, readable>>
tokenVars == <<token, reloading>>
vars == <<fileVars, tokenVars, lapse, queue, mutex, call>>

\* What can go wrong: a file is cut, a file becomes too long to load, the bus loses
\* an event about the token, resetAll() removes the token.
Lapses == {"cut", "size", "bus", "reset"}

Lapse(l) == lapse' = IF lapse = "none" THEN l ELSE lapse

Empty  == [k \in Keys |-> NoValue]
Size(d) == Cardinality({k \in Keys : d[k] # NoValue})

\* A call: where it stands, its kind, the namespace it is about, the writes that
\* are still to do (<<key, value>>), the document it has loaded, and the files it
\* has still to remove.
Idle == [at |-> "idle", kind |-> "none", space |-> System, writes |-> <<>>,
         doc |-> Empty, listed |-> {}]

\* loadNamespace()
Load(s) == IF readable[s] THEN files[s] ELSE Empty

Init ==
  /\ files = [s \in Spaces |-> Empty] /\ readable = [s \in Spaces |-> TRUE]
  /\ token = NoValue /\ reloading = FALSE /\ lapse = "none"
  /\ queue = <<>> /\ mutex = NoTask
  /\ call = [t \in Tasks |-> Idle]

-----------------------------------------------------------------------------
(* The calls: a single set or erase, a config PUT of one or two keys, and a  *)
(* factory reset.                                                            *)

At(t, here) == call[t].at = here

GoTo(t, there) == call' = [call EXCEPT ![t].at = there]
Return(t)      == call' = [call EXCEPT ![t] = Idle]

Begin(t, at, k, s, ws) ==
  /\ At(t, "idle")
  /\ call' = [call EXCEPT ![t] =
                [Idle EXCEPT !.at = at, !.kind = k, !.space = s, !.writes = ws]]
  /\ UNCHANGED <<fileVars, tokenVars, lapse, queue, mutex>>

Set(t) ==
  \E s \in Spaces, k \in Keys, v \in Values : Begin(t, "load", "set", s, <<<<k, v>>>>)

Erase(t) ==
  \E s \in Spaces, k \in Keys : Begin(t, "load", "erase", s, <<<<k, NoValue>>>>)

Put(t) ==
  \E s \in Spaces, k, l \in Keys, v, w \in Values :
    k # l /\ Begin(t, "load", "put", s, <<<<k, v>>, <<l, w>>>>)

Reset(t) == Begin(t, "list", "reset", System, <<>>)

-----------------------------------------------------------------------------
(* set(), erase() and the PUT handler's loop over them.                      *)

Space(t)   == call[t].space
Key(t)     == Head(call[t].writes)[1]
Value(t)   == Head(call[t].writes)[2]
Changed(t) == [call[t].doc EXCEPT ![Key(t)] = Value(t)]

\* The load of erase(), when the key is not there.
Nothing(t) == call[t].kind = "erase" /\ Load(Space(t))[Key(t)] = NoValue

ToSave(t) == call' = [call EXCEPT ![t].at = "save", ![t].doc = Load(Space(t))]

\* A fault: the mutex is not taken.
LoadDocUnlocked(t) ==
  /\ At(t, "load")
  /\ \/ Nothing(t) /\ Return(t)
     \/ ~Nothing(t) /\ ToSave(t)
  /\ UNCHANGED <<fileVars, tokenVars, lapse, queue, mutex>>

\* A fault: erase() of a key that is not there returns with the mutex.
LoadDocLeaks(t) ==
  /\ At(t, "load") /\ mutex = NoTask
  /\ mutex' = t
  /\ \/ Nothing(t) /\ Return(t)
     \/ ~Nothing(t) /\ ToSave(t)
  /\ UNCHANGED <<fileVars, tokenVars, lapse, queue>>

LoadDoc(t) ==
  /\ At(t, "load") /\ mutex = NoTask
  /\ \/ Nothing(t) /\ Return(t) /\ UNCHANGED mutex
     \/ ~Nothing(t) /\ ToSave(t) /\ mutex' = t
  /\ UNCHANGED <<fileVars, tokenVars, lapse, queue>>

\* What a failed save leaves: the file that was there, or a cut one.
SaveFails(t) ==
  /\ \/ UNCHANGED <<readable, lapse>>
     \/ readable' = [readable EXCEPT ![Space(t)] = FALSE] /\ Lapse("cut")
  /\ UNCHANGED files

\* saveNamespace(); the mutex is released when it returns.
Save(t) ==
  /\ At(t, "save")
  /\ mutex' = NoTask
  /\ LET fits == Size(Changed(t)) <= MaxKeys IN
     \/ /\ files' = [files EXCEPT ![Space(t)] = Changed(t)]
        /\ readable' = [readable EXCEPT ![Space(t)] = fits]
        /\ IF fits THEN UNCHANGED lapse ELSE Lapse("size")
        /\ GoTo(t, "publish")
     \/ SaveFails(t) /\ (GoTo(t, "publish") \/ Return(t))   \* unseen, or seen
     \/ Return(t) /\ UNCHANGED <<fileVars, lapse>>          \* out of memory
  /\ UNCHANGED <<tokenVars, queue>>

\* After publishChanged(): the next write of a PUT, or the end of the call.
NextWrite(t) ==
  \/ /\ Len(call[t].writes) > 1
     /\ call' = [call EXCEPT ![t].at = "load", ![t].writes = Tail(@), ![t].doc = Empty]
  \/ /\ Len(call[t].writes) = 1
     /\ IF call[t].kind = "put" /\ Space(t) = System THEN GoTo(t, "reload") ELSE Return(t)

\* A fault: the bus takes an event more than it has room for.
PublishPastFull(t) ==
  /\ At(t, "publish")
  /\ queue' = Append(queue, <<Space(t), Key(t)>>)
  /\ NextWrite(t)
  /\ UNCHANGED <<fileVars, tokenVars, lapse, mutex>>

Publish(t) ==
  /\ At(t, "publish")
  /\ \/ /\ Len(queue) < QueueDepth
        /\ queue' = Append(queue, <<Space(t), Key(t)>>)
        /\ UNCHANGED lapse
     \/ /\ IF <<Space(t), Key(t)>> = <<System, Token>>
           THEN Lapse("bus") ELSE UNCHANGED lapse
        /\ UNCHANGED queue
  /\ NextWrite(t)
  /\ UNCHANGED <<fileVars, tokenVars, mutex>>

-----------------------------------------------------------------------------
(* The token.                                                                *)

\* getString() into token_, under the mutex.
ReloadToken == mutex = NoTask /\ token' = Load(System)[Token] /\ lapse' = "none"

PutReloads(t) ==
  /\ At(t, "reload")
  /\ ReloadToken
  /\ Return(t)
  /\ UNCHANGED <<fileVars, reloading, queue, mutex>>

\* A fault: the event's key is not the one RestService looks for.
DeliverUnheeded ==
  /\ queue # <<>> /\ ~reloading
  /\ queue' = Tail(queue)
  /\ UNCHANGED <<fileVars, tokenVars, lapse, mutex, call>>

\* The dispatcher calls onConfigChanged().
Deliver ==
  /\ queue # <<>> /\ ~reloading
  /\ queue' = Tail(queue)
  /\ reloading' = (Head(queue) = <<System, Token>>)
  /\ UNCHANGED <<fileVars, token, lapse, mutex, call>>

EventReloads ==
  /\ reloading
  /\ ReloadToken
  /\ reloading' = FALSE
  /\ UNCHANGED <<fileVars, queue, mutex, call>>

-----------------------------------------------------------------------------
(* resetAll(), and a restart.                                                *)

Present == {s \in Spaces : ~readable[s] \/ files[s] # Empty}

\* The files are listed before the mutex is taken.
List(t) ==
  /\ At(t, "list")
  /\ \E l \in SUBSET Present :
       /\ l = Present \/ Cardinality(l) = ListMax
       /\ Cardinality(l) <= ListMax
       /\ call' = [call EXCEPT ![t].at = "wipe", ![t].listed = l]
  /\ UNCHANGED <<fileVars, tokenVars, lapse, queue, mutex>>

Wipe(t) ==
  /\ At(t, "wipe") /\ mutex = NoTask
  /\ mutex' = t
  /\ GoTo(t, "remove")
  /\ UNCHANGED <<fileVars, tokenVars, lapse, queue>>

Remove(t) ==
  /\ At(t, "remove")
  /\ \E s \in call[t].listed :
       /\ files' = [files EXCEPT ![s] = Empty]
       /\ readable' = [readable EXCEPT ![s] = TRUE]
       /\ IF s = System THEN Lapse("reset") ELSE UNCHANGED lapse
       /\ call' = [call EXCEPT ![t].listed = @ \ {s}]
  /\ UNCHANGED <<tokenVars, queue, mutex>>

Wiped(t) ==
  /\ At(t, "remove") /\ call[t].listed = {}
  /\ mutex' = NoTask
  /\ Return(t)
  /\ UNCHANGED <<fileVars, tokenVars, lapse, queue>>

\* A restart, which a reset asks for and which may come at any other time:
\* init() of RestService reads the token.
Restart ==
  /\ token' = Load(System)[Token]
  /\ reloading' = FALSE /\ lapse' = "none"
  /\ queue' = <<>> /\ mutex' = NoTask
  /\ call' = [t \in Tasks |-> Idle]
  /\ UNCHANGED fileVars

Proceed(t) ==
  \/ LoadDoc(t) \/ Save(t) \/ Publish(t) \/ PutReloads(t)
  \/ List(t) \/ Wipe(t) \/ Remove(t) \/ Wiped(t)

Rest == Deliver \/ EventReloads

Next ==
  \/ \E t \in Tasks : Set(t) \/ Erase(t) \/ Put(t) \/ Reset(t) \/ Proceed(t)
  \/ Rest
  \/ Restart

Spec == Init /\ [][Next]_vars

-----------------------------------------------------------------------------
(* Properties.                                                               *)

Document == [Keys -> Values \cup {NoValue}]
Writes   == Keys \X (Values \cup {NoValue})

TypeOK ==
  /\ files \in [Spaces -> Document] /\ readable \in [Spaces -> BOOLEAN]
  /\ token \in Values \cup {NoValue}
  /\ reloading \in BOOLEAN /\ lapse \in Lapses \cup {"none"}
  /\ queue \in Seq(Spaces \X Keys) /\ Len(queue) <= QueueDepth
  /\ mutex \in Tasks \cup {NoTask}
  /\ call \in [Tasks ->
       [at : {"idle", "load", "save", "publish", "reload", "list", "wipe", "remove"},
        kind : {"none", "set", "erase", "put", "reset"}, space : Spaces,
        writes : {<<>>} \cup {<<x>> : x \in Writes} \cup (Writes \X Writes),
        doc : Document, listed : SUBSET Spaces]]

\* No update is lost, in whatever order tasks write: a step that changes a file
\* changes one key of what was stored, and leaves the keys others wrote, unless
\* the file is being removed.
KeepsWrites ==
  [][\A s \in Spaces :
       \/ \E k \in Keys : files'[s] = [Load(s) EXCEPT ![k] = files'[s][k]]
       \/ files'[s] = files[s]
       \/ \E t \in Tasks : At(t, "remove") /\ s \in call[t].listed]_files

\* Nothing is under way, and no event about the token waits.
Settled ==
  /\ \A t \in Tasks : At(t, "idle")
  /\ ~reloading
  /\ \A i \in 1 .. Len(queue) : queue[i] # <<System, Token>>

\* The token that is enforced is the one that is stored, also after a PUT that
\* failed half way or was overtaken by another.  Four things break that, each until
\* token_ is next read, by an event, a PUT or a restart: a save cut the file, a
\* document grew too long to load, the bus lost the event, a factory reset removed
\* the file.  The last one RestService claims to follow (TokenFollowsReset).
TokenInSync == Settled /\ lapse = "none" => token = Load(System)[Token]

\* What rest_service.cpp says of its subscription: "Keep token_ in sync with config
\* writes from any source (config API, factory reset, provisioning) so a saved token
\* is enforced immediately, without waiting for a reboot."  resetAll() publishes
\* nothing, and the token it removed is enforced until a reboot.
TokenFollowsReset ==
  Settled /\ lapse \in {"none", "reset"} => token = Load(System)[Token]

\* The mutex is held by the one task that is about to save or to remove, so that
\* it is handed back, and by nobody else.
MutexHasHolder ==
  \A t \in Tasks : mutex = t <=> At(t, "save") \/ At(t, "remove")
=============================================================================
