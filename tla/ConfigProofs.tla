--------------------------- MODULE ConfigProofs ---------------------------
(***************************************************************************)
(* Proofs about Config for any tasks, namespaces, keys, values and bounds. *)
(*                                                                         *)
(* The inductive invariant has three ideas: who is between a load and its  *)
(* save, or removes files, holds the mutex; what it loaded is therefore    *)
(* still what is stored; and while nothing went wrong, a token that        *)
(* differs from the stored one has its news under way, as a write about to *)
(* be published, as an event that waits or as a reload that is due.        *)
(***************************************************************************)
EXTENDS Config, TLAPS

Places    == {"idle", "load", "save", "publish", "reload", "list", "wipe", "remove"}
Kinds     == {"none", "set", "erase", "put", "reset"}
WriteList == {<<>>} \cup {<<x>> : x \in Writes} \cup (Writes \X Writes)

CallRecord ==
  [at : Places, kind : Kinds, space : Spaces, writes : WriteList,
   doc : Document, listed : SUBSET Spaces]

CallTypes == call \in [Tasks -> CallRecord]

\* The file and event types; with CallTypes they make TypeOK.
StoreTypes ==
  /\ files \in [Spaces -> Document] /\ readable \in [Spaces -> BOOLEAN]
  /\ token \in Values \cup {NoValue}
  /\ reloading \in BOOLEAN /\ lapse \in Lapses \cup {"none"}
  /\ queue \in Seq(Spaces \X Keys) /\ Len(queue) <= QueueDepth
  /\ mutex \in Tasks \cup {NoTask}

WritesLeft ==
  \A t \in Tasks : call[t].at \in {"load", "save", "publish"} => call[t].writes # <<>>

\* Between its load and its save a task knows the file as it is stored.
LoadedIsStored == \A t \in Tasks : At(t, "save") => call[t].doc = Load(Space(t))

NewsUnderWay ==
  \/ reloading
  \/ \E i \in 1 .. Len(queue) : queue[i] = <<System, Token>>
  \/ \E t \in Tasks : At(t, "publish") /\ Space(t) = System /\ Key(t) = Token

NewsArrives == lapse = "none" => NewsUnderWay \/ token = Load(System)[Token]

Inv ==
  /\ StoreTypes /\ CallTypes /\ WritesLeft /\ MutexHasHolder /\ LoadedIsStored
  /\ NewsArrives
LEMMA WriteFacts ==
  /\ \A w \in Writes : <<w>> \in WriteList /\ <<w>> # <<>>
  /\ \A w, x \in Writes : <<w, x>> \in WriteList /\ <<w, x>> # <<>>
  /\ \A ws \in WriteList : ws # <<>> => Head(ws) \in Writes /\ Len(ws) \in {1, 2}
  /\ \A ws \in WriteList : Len(ws) > 1 => Tail(ws) \in WriteList /\ Tail(ws) # <<>>
<1>1. \A w, x \in Writes : <<w, x>> \in Writes \X Writes /\ <<w, x>> # <<>> /\ <<w>> # <<>>
  OBVIOUS
<1>2. ASSUME NEW ws \in Writes \X Writes
      PROVE  /\ Head(ws) \in Writes /\ Len(ws) = 2
             /\ Tail(ws) \in {<<x>> : x \in Writes} /\ Tail(ws) # <<>>
  <2>1. PICK w \in Writes, x \in Writes : ws = <<w, x>>
    OBVIOUS
  <2>2. Head(ws) = w /\ Len(ws) = 2 /\ Tail(ws) = <<x>>
    BY <2>1
  <2> QED
    BY <2>2
<1>3. ASSUME NEW ws \in {<<x>> : x \in Writes}
      PROVE  Head(ws) \in Writes /\ Len(ws) = 1
  <2>1. PICK x \in Writes : ws = <<x>>
    OBVIOUS
  <2> QED
    BY <2>1
<1>4. Len(<<>>) = 0
  OBVIOUS
<1>5. ASSUME NEW ws \in WriteList
      PROVE  /\ ws # <<>> => Head(ws) \in Writes /\ Len(ws) \in {1, 2}
             /\ Len(ws) > 1 => Tail(ws) \in WriteList /\ Tail(ws) # <<>>
  <2>1. CASE ws = <<>>
    BY <2>1, <1>4
  <2>2. CASE ws \in {<<x>> : x \in Writes}
    BY <2>2, <1>3
  <2>3. CASE ws \in Writes \X Writes
    BY <2>3, <1>2 DEF WriteList
  <2> QED
    BY <2>1, <2>2, <2>3 DEF WriteList
<1>6. \A w \in Writes : <<w>> \in WriteList /\ <<w>> # <<>>
  BY <1>1 DEF WriteList
<1>7. \A w, x \in Writes : <<w, x>> \in WriteList /\ <<w, x>> # <<>>
  BY <1>1 DEF WriteList
<1> QED
  BY <1>5, <1>6, <1>7

LEMMA DocumentFacts ==
  /\ Empty \in Document
  /\ \A d \in Document, k \in Keys, v \in Values \cup {NoValue} :
       [d EXCEPT ![k] = v] \in Document
  BY DEF Empty, Document

LEMMA LoadFacts ==
  ASSUME StoreTypes, NEW s \in Spaces
  PROVE  Load(s) \in Document
  BY DocumentFacts DEF StoreTypes, Load

LEMMA IdleFacts == Idle \in CallRecord /\ Idle.at = "idle"
  BY DocumentFacts, ConfigAssumption DEF Idle, CallRecord, Places, Kinds, WriteList

\* What a step of one task does to the calls of the others: nothing.
Moves(t) == CallTypes' /\ \A u \in Tasks \ {t} : call'[u] = call[u]

LEMMA GoToEffect ==
  ASSUME CallTypes, NEW t \in Tasks, NEW there \in Places, GoTo(t, there)
  PROVE  /\ Moves(t)
         /\ call'[t].at = there
         /\ call'[t].space = call[t].space /\ call'[t].writes = call[t].writes
         /\ call'[t].doc = call[t].doc /\ call'[t].listed = call[t].listed
<1>1. PICK r \in CallRecord : r = call[t]
  BY DEF CallTypes
<1>2. PICK q \in CallRecord : q = [r EXCEPT !.at = there]
  BY DEF CallRecord
<1>3. /\ q.at = there /\ q.space = r.space /\ q.writes = r.writes
      /\ q.doc = r.doc /\ q.listed = r.listed
  BY <1>2 DEF CallRecord
<1>4. call' = [call EXCEPT ![t] = q]
  BY <1>1, <1>2 DEF GoTo
<1> QED
  BY <1>1, <1>3, <1>4 DEF CallTypes, Moves

LEMMA ReturnEffect ==
  ASSUME CallTypes, NEW t \in Tasks, Return(t)
  PROVE  Moves(t) /\ call'[t].at = "idle"
  BY IdleFacts DEF CallTypes, Return, Moves

LEMMA ToSaveEffect ==
  ASSUME StoreTypes, CallTypes, NEW t \in Tasks, ToSave(t)
  PROVE  /\ Moves(t)
         /\ call'[t].at = "save"
         /\ call'[t].space = call[t].space /\ call'[t].writes = call[t].writes
         /\ call'[t].doc = Load(Space(t))
<1>1. PICK r \in CallRecord : r = call[t]
  BY DEF CallTypes
<1>2. PICK d \in Document : d = Load(Space(t))
  BY <1>1, LoadFacts DEF CallRecord, Space
<1>3. PICK q \in CallRecord : q = [r EXCEPT !.at = "save", !.doc = d]
  BY DEF CallRecord, Places
<1>4. q.at = "save" /\ q.space = r.space /\ q.writes = r.writes /\ q.doc = d
  BY <1>3 DEF CallRecord
<1>5. call' = [call EXCEPT ![t] = q]
  BY <1>1, <1>2, <1>3 DEF ToSave
<1> QED
  BY <1>1, <1>2, <1>4, <1>5 DEF CallTypes, Moves

\* After a publication a PUT goes on to its next write or to the reload.
LEMMA NextWriteEffect ==
  ASSUME CallTypes, NEW t \in Tasks, NextWrite(t)
  PROVE  /\ Moves(t)
         /\ call'[t].at \in {"load", "reload", "idle"}
         /\ call'[t].at = "load" => call'[t].writes # <<>>
<1>1. CASE /\ Len(call[t].writes) > 1
           /\ call' = [call EXCEPT ![t].at = "load", ![t].writes = Tail(@), ![t].doc = Empty]
  <2>1. PICK r \in CallRecord : r = call[t]
    BY DEF CallTypes
  <2>2. PICK ws \in WriteList : ws = Tail(r.writes) /\ ws # <<>>
    BY <2>1, <1>1, WriteFacts DEF CallRecord
  <2>3. PICK q \in CallRecord : q = [r EXCEPT !.at = "load", !.writes = ws, !.doc = Empty]
    BY DocumentFacts DEF CallRecord, Places
  <2>4. q.at = "load" /\ q.writes = ws
    BY <2>3 DEF CallRecord
  <2>5. call' = [call EXCEPT ![t] = q]
    BY <2>1, <2>2, <2>3, <1>1
  <2> QED
    BY <2>2, <2>4, <2>5 DEF CallTypes, Moves
<1>2. CASE GoTo(t, "reload")
  BY <1>2, GoToEffect DEF Places
<1>3. CASE Return(t)
  BY <1>3, ReturnEffect
<1> QED
  BY <1>1, <1>2, <1>3 DEF NextWrite

LEMMA TypesAreTypeOK == TypeOK <=> StoreTypes /\ CallTypes
  BY DEF TypeOK, StoreTypes, CallTypes, CallRecord, Places, Kinds, WriteList

\* What is left to show of a step of one task.
LEMMA OneTaskMoves ==
  ASSUME Inv, NEW t \in Tasks, Moves(t), StoreTypes', NewsArrives',
         call'[t].at \in {"load", "save", "publish"} => call'[t].writes # <<>>,
         mutex' = t <=> call'[t].at \in {"save", "remove"},
         \A u \in Tasks \ {t} : mutex' = u <=> mutex = u,
         call'[t].at = "save" => call'[t].doc = Load(Space(t))',
         \A u \in Tasks \ {t} : At(u, "save") => files' = files /\ readable' = readable
  PROVE  Inv'
<1>0. WritesLeft /\ MutexHasHolder /\ LoadedIsStored
  BY DEF Inv
<1>1. CallTypes' /\ \A u \in Tasks \ {t} : call'[u] = call[u]
  BY DEF Moves
<1>2. WritesLeft' /\ MutexHasHolder'
  BY <1>0, <1>1 DEF WritesLeft, MutexHasHolder, At
<1>3. LoadedIsStored'
  BY <1>0, <1>1 DEF LoadedIsStored, At, Space, Load
<1> QED
  BY <1>1, <1>2, <1>3 DEF Inv

\* A step that leaves the files, the queue and the token alone and publishes
\* nothing leaves the news where it is.
LEMMA NewsStay ==
  ASSUME NewsArrives, NEW t \in Tasks, Moves(t), call[t].at # "publish",
         UNCHANGED <<files, readable, token, reloading, queue>>,
         lapse' = "none" => lapse = "none"
  PROVE  NewsArrives'
<1>1. \A u \in Tasks : At(u, "publish") =>
         call'[u] = call[u]
  BY DEF At, Moves
<1>2. NewsUnderWay => NewsUnderWay'
  BY <1>1 DEF NewsUnderWay, At, Space, Key
<1>3. Load(System)[Token]' = Load(System)[Token]
  BY DEF Load
<1> QED
  BY <1>2, <1>3 DEF NewsArrives

LEMMA LapseEffect ==
  ASSUME StoreTypes, NEW l \in Lapses, Lapse(l)
  PROVE  lapse' \in Lapses \cup {"none"} /\ lapse' # "none"
  BY DEF StoreTypes, Lapse, Lapses

LEMMA InitInv == Init => Inv
<1> SUFFICES ASSUME Init PROVE Inv
  OBVIOUS
<1>0. Idle \in CallRecord /\ Empty \in Document
  BY IdleFacts, DocumentFacts
<1>1. StoreTypes /\ CallTypes
  <2>1. CallTypes
    BY <1>0 DEF Init, CallTypes
  <2>2. /\ files \in [Spaces -> Document] /\ readable \in [Spaces -> BOOLEAN]
        /\ token \in Values \cup {NoValue} /\ reloading \in BOOLEAN
        /\ lapse \in Lapses \cup {"none"} /\ mutex \in Tasks \cup {NoTask}
    BY <1>0 DEF Init
  <2>3. queue \in Seq(Spaces \X Keys) /\ Len(queue) <= QueueDepth
    BY ConfigAssumption DEF Init
  <2> QED
    BY <2>1, <2>2, <2>3 DEF StoreTypes
<1>2. \A t \in Tasks : call[t].at = "idle"
  BY IdleFacts DEF Init
<1>3. token = Load(System)[Token]
  BY ConfigAssumption DEF Init, Load, Empty
<1>4. MutexHasHolder
  BY <1>2, ConfigAssumption DEF Init, MutexHasHolder, At
<1> QED
  BY <1>1, <1>2, <1>3, <1>4 DEF Inv, WritesLeft, LoadedIsStored, NewsArrives, At

LEMMA InvParts ==
  Inv => /\ StoreTypes /\ CallTypes /\ WritesLeft /\ MutexHasHolder /\ LoadedIsStored
         /\ NewsArrives
  BY DEF Inv

LEMMA StepBegin ==
  ASSUME Inv, NEW t \in Tasks, Set(t) \/ Erase(t) \/ Put(t) \/ Reset(t)
  PROVE  Inv'
<1> USE InvParts
<1>1. PICK at \in {"load", "list"}, k \in Kinds, s \in Spaces, ws \in WriteList :
        (at = "load" => ws # <<>>) /\ Begin(t, at, k, s, ws)
  <2>1. CASE Set(t)
    <3>1. PICK s \in Spaces, k \in Keys, v \in Values : Begin(t, "load", "set", s, <<<<k, v>>>>)
      BY <2>1 DEF Set
    <3>2. <<k, v>> \in Writes
      BY DEF Writes
    <3> QED
      BY <3>1, <3>2, WriteFacts DEF Kinds
  <2>2. CASE Erase(t)
    <3>1. PICK s \in Spaces, k \in Keys : Begin(t, "load", "erase", s, <<<<k, NoValue>>>>)
      BY <2>2 DEF Erase
    <3>2. <<k, NoValue>> \in Writes
      BY DEF Writes
    <3> QED
      BY <3>1, <3>2, WriteFacts DEF Kinds
  <2>3. CASE Put(t)
    <3>1. PICK s \in Spaces, k \in Keys, l \in Keys, v \in Values, w \in Values :
            Begin(t, "load", "put", s, <<<<k, v>>, <<l, w>>>>)
      BY <2>3 DEF Put
    <3>2. <<k, v>> \in Writes /\ <<l, w>> \in Writes
      BY DEF Writes
    <3> QED
      BY <3>1, <3>2, WriteFacts DEF Kinds
  <2>4. CASE Reset(t)
    BY <2>4, ConfigAssumption DEF Reset, Kinds, WriteList
  <2> QED
    BY <2>1, <2>2, <2>3, <2>4
<1> DEFINE begun == [Idle EXCEPT !.at = at, !.kind = k, !.space = s, !.writes = ws]
<1>2. begun \in CallRecord /\ begun.at = at /\ begun.writes = ws
  <2>1. at \in Places
    BY DEF Places
  <2> QED
    BY <2>1, IdleFacts DEF Idle, CallRecord
<1>3. /\ call[t].at = "idle"
      /\ call' = [call EXCEPT ![t] = begun]
      /\ UNCHANGED <<files, readable, token, reloading, lapse, queue, mutex>>
  BY <1>1 DEF Begin, At, fileVars, tokenVars
<1> HIDE DEF begun
<1>4. Moves(t) /\ call'[t] = begun
  BY <1>2, <1>3 DEF Moves, CallTypes
<1>5. mutex # t
  BY <1>3 DEF MutexHasHolder, At
<1>6. NewsArrives'
  BY <1>3, <1>4, NewsStay
<1>7. StoreTypes'
  BY <1>3 DEF StoreTypes
<1> QED
  BY <1>1, <1>2, <1>3, <1>4, <1>5, <1>6, <1>7, OneTaskMoves

LEMMA StepLoadDoc ==
  ASSUME Inv, NEW t \in Tasks, LoadDoc(t)
  PROVE  Inv'
<1> USE InvParts
<1>1. /\ call[t].at = "load" /\ mutex = NoTask
      /\ UNCHANGED <<files, readable, token, reloading, lapse, queue>>
      /\ \/ Return(t) /\ UNCHANGED mutex
         \/ ToSave(t) /\ mutex' = t
  BY DEF LoadDoc, At, fileVars, tokenVars
<1>2. /\ Moves(t)
      /\ \/ call'[t].at = "idle" /\ mutex' = NoTask
         \/ /\ call'[t].at = "save" /\ mutex' = t
            /\ call'[t].space = call[t].space /\ call'[t].writes = call[t].writes
            /\ call'[t].doc = Load(Space(t))
  BY <1>1, ReturnEffect, ToSaveEffect
<1>3. NewsArrives'
  BY <1>1, <1>2, NewsStay
<1>4. StoreTypes'
  BY <1>1, <1>2 DEF StoreTypes
<1>5. call'[t].at = "save" => call'[t].doc = Load(Space(t))'
  BY <1>1, <1>2 DEF Load, Space
<1>6. call[t].writes # <<>> /\ NoTask # t
  BY <1>1, ConfigAssumption DEF WritesLeft
<1> QED
  BY <1>1, <1>2, <1>3, <1>4, <1>5, <1>6, ConfigAssumption, OneTaskMoves

LEMMA ChangedFacts ==
  ASSUME CallTypes, WritesLeft, NEW t \in Tasks, call[t].at \in {"save", "publish"}
  PROVE  /\ Space(t) \in Spaces /\ Key(t) \in Keys /\ Value(t) \in Values \cup {NoValue}
         /\ call[t].doc \in Document
         /\ Changed(t) \in Document
         /\ \A k \in Keys \ {Key(t)} : Changed(t)[k] = call[t].doc[k]
<1>1. Space(t) \in Spaces /\ call[t].doc \in Document /\ call[t].writes \in WriteList
  BY DEF CallTypes, CallRecord, Space
<1>2. Head(call[t].writes) \in Writes
  BY <1>1, WriteFacts DEF WritesLeft
<1>3. Key(t) \in Keys /\ Value(t) \in Values \cup {NoValue}
  BY <1>2 DEF Key, Value, Writes
<1> QED
  BY <1>1, <1>3 DEF Changed, Document

LEMMA StepSave ==
  ASSUME Inv, NEW t \in Tasks, Save(t)
  PROVE  Inv'
<1> USE InvParts
<1>1. /\ call[t].at = "save" /\ mutex' = NoTask
      /\ UNCHANGED <<token, reloading, queue>>
  BY DEF Save, At, tokenVars
<1>2. mutex = t /\ \A u \in Tasks \ {t} : ~At(u, "save")
  BY <1>1 DEF MutexHasHolder, At
<1>3. call[t].doc = Load(Space(t)) /\ call[t].writes # <<>>
  BY <1>1 DEF LoadedIsStored, At, WritesLeft
<1>4. /\ Space(t) \in Spaces /\ Key(t) \in Keys /\ Changed(t) \in Document
      /\ \A k \in Keys \ {Key(t)} : Changed(t)[k] = Load(Space(t))[k]
  BY <1>1, <1>3, ChangedFacts
<1> DEFINE fits == Size(Changed(t)) <= MaxKeys
<1>5. ASSUME files' = [files EXCEPT ![Space(t)] = Changed(t)],
             readable' = [readable EXCEPT ![Space(t)] = fits],
             IF fits THEN UNCHANGED lapse ELSE Lapse("size"),
             GoTo(t, "publish")
      PROVE  Inv'
  <2> HIDE DEF fits
  <2>1. /\ Moves(t) /\ call'[t].at = "publish" /\ call'[t].space = call[t].space
        /\ call'[t].writes = call[t].writes
    BY <1>5, GoToEffect DEF Places
  <2>2. lapse' \in Lapses \cup {"none"} /\ (lapse' = "none" => fits /\ lapse = "none")
    BY <1>5, LapseEffect DEF StoreTypes, Lapses
  <2>3. fits \in BOOLEAN
    BY DEF fits
  <2>4. StoreTypes'
    BY <2>2, <2>3, <1>1, <1>4, <1>5 DEF StoreTypes
  <2>5. ASSUME lapse' = "none", ~(Space(t) = System /\ Key(t) = Token)
        PROVE  Load(System)[Token]' = Load(System)[Token]
    <3>1. CASE Space(t) # System
      BY <3>1, <1>5, ConfigAssumption DEF Load, StoreTypes
    <3>2. CASE Space(t) = System
      <4>1. Token \in Keys \ {Key(t)}
        BY <3>2, <2>5, ConfigAssumption
      <4>2. files'[System] = Changed(t) /\ readable'[System]
        BY <3>2, <2>5, <2>2, <1>4, <1>5 DEF StoreTypes
      <4>3. Load(System)' = Changed(t)
        BY <4>2 DEF Load
      <4> QED
        BY <4>1, <4>3, <1>4, <3>2
    <3> QED
      BY <3>1, <3>2
  <2>6. ASSUME Space(t) = System, Key(t) = Token PROVE NewsUnderWay'
    BY <2>1, <2>6 DEF NewsUnderWay, At, Space, Key
  <2>7. NewsUnderWay => NewsUnderWay'
    <3>1. \A u \in Tasks : At(u, "publish") => call'[u] = call[u]
      BY <2>1, <1>1 DEF Moves, At
    <3> QED
      BY <3>1, <1>1 DEF NewsUnderWay, At, Space, Key
  <2>8. NewsArrives'
    BY <2>2, <2>5, <2>6, <2>7, <1>1 DEF NewsArrives
  <2> QED
    BY <2>1, <2>4, <2>8, <1>1, <1>2, <1>3, ConfigAssumption, OneTaskMoves
<1>6. ASSUME SaveFails(t), GoTo(t, "publish") \/ Return(t)
      PROVE  Inv'
  <2>1. /\ Moves(t) /\ call'[t].at \in {"publish", "idle"}
        /\ call'[t].at = "publish" => call'[t].writes = call[t].writes
    BY <1>6, GoToEffect, ReturnEffect DEF Places
  <2>2. /\ lapse' \in Lapses \cup {"none"} /\ files' = files
        /\ readable' \in [Spaces -> BOOLEAN]
        /\ lapse' # "none" \/ UNCHANGED <<readable, lapse>>
    BY <1>6, LapseEffect DEF SaveFails, StoreTypes, Lapses
  <2>3. StoreTypes'
    BY <2>2, <1>1 DEF StoreTypes
  <2>4. NewsArrives'
    <3>1. CASE lapse' # "none"
      BY <3>1 DEF NewsArrives
    <3>2. CASE UNCHANGED <<readable, lapse>>
      BY <2>1, <2>2, <3>2, <1>1, NewsStay
    <3> QED
      BY <2>2, <3>1, <3>2
  <2> QED
    BY <2>1, <2>3, <2>4, <1>1, <1>2, <1>3, ConfigAssumption, OneTaskMoves
<1>7. ASSUME Return(t), UNCHANGED <<fileVars, lapse>> PROVE Inv'
  <2>1. Moves(t) /\ call'[t].at = "idle"
    BY <1>7, ReturnEffect
  <2>2. StoreTypes' /\ NewsArrives'
    BY <2>1, <1>1, <1>7, NewsStay DEF StoreTypes, fileVars
  <2> QED
    BY <2>1, <2>2, <1>1, <1>2, ConfigAssumption, OneTaskMoves
<1> QED
  BY <1>5, <1>6, <1>7 DEF Save

LEMMA StepPublish ==
  ASSUME Inv, NEW t \in Tasks, Publish(t)
  PROVE  Inv'
<1> USE InvParts
<1>1. /\ call[t].at = "publish"
      /\ NextWrite(t)
      /\ UNCHANGED <<files, readable, token, reloading, mutex>>
  BY DEF Publish, At, fileVars, tokenVars
<1>2. /\ Moves(t) /\ call'[t].at \in {"load", "reload", "idle"}
      /\ call'[t].at = "load" => call'[t].writes # <<>>
  BY <1>1, NextWriteEffect
<1>3. Space(t) \in Spaces /\ Key(t) \in Keys
  BY <1>1, ChangedFacts
<1>4. mutex # t
  BY <1>1 DEF MutexHasHolder, At
<1>5. Load(System)[Token]' = Load(System)[Token]
  BY <1>1 DEF Load
<1>6. \A u \in Tasks : u # t => call'[u] = call[u]
  BY <1>2 DEF Moves
<1>7. CASE /\ Len(queue) < QueueDepth
           /\ queue' = Append(queue, <<Space(t), Key(t)>>)
           /\ UNCHANGED lapse
  <2>1. StoreTypes'
    BY <1>1, <1>3, <1>7, ConfigAssumption DEF StoreTypes
  <2>2. /\ Len(queue') = Len(queue) + 1 /\ Len(queue) \in Nat
        /\ \A i \in 1 .. Len(queue) : queue'[i] = queue[i]
        /\ queue'[Len(queue) + 1] = <<Space(t), Key(t)>>
    BY <1>3, <1>7 DEF StoreTypes
  <2>3. NewsUnderWay => NewsUnderWay'
    <3>1. CASE reloading
      BY <3>1, <1>1 DEF NewsUnderWay
    <3>2. ASSUME NEW i \in 1 .. Len(queue), queue[i] = <<System, Token>>
          PROVE  NewsUnderWay'
      BY <3>2, <2>2 DEF NewsUnderWay
    <3>3. ASSUME NEW u \in Tasks, At(u, "publish"), Space(u) = System, Key(u) = Token
          PROVE  NewsUnderWay'
      <4>1. CASE u = t
        BY <4>1, <3>3, <2>2 DEF NewsUnderWay
      <4>2. CASE u # t
        BY <4>2, <3>3, <1>6 DEF NewsUnderWay, At, Space, Key
      <4> QED
        BY <4>1, <4>2
    <3> QED
      BY <3>1, <3>2, <3>3 DEF NewsUnderWay
  <2>4. NewsArrives'
    BY <2>3, <1>1, <1>5, <1>7 DEF NewsArrives
  <2> QED
    BY <2>1, <2>4, <1>1, <1>2, <1>4, OneTaskMoves
<1>8. CASE /\ IF <<Space(t), Key(t)>> = <<System, Token>>
              THEN Lapse("bus") ELSE UNCHANGED lapse
           /\ UNCHANGED queue
  <2>1. /\ lapse' \in Lapses \cup {"none"}
        /\ lapse' = "none" => lapse = "none" /\ ~(Space(t) = System /\ Key(t) = Token)
    BY <1>8, LapseEffect DEF StoreTypes, Lapses
  <2>2. StoreTypes'
    BY <2>1, <1>1, <1>8 DEF StoreTypes
  <2>3. lapse' = "none" /\ NewsUnderWay => NewsUnderWay'
    BY <2>1, <1>1, <1>6, <1>8 DEF NewsUnderWay, At, Space, Key
  <2>4. NewsArrives'
    BY <2>1, <2>3, <1>1, <1>5 DEF NewsArrives
  <2> QED
    BY <2>2, <2>4, <1>1, <1>2, <1>4, OneTaskMoves
<1> QED
  BY <1>7, <1>8 DEF Publish

LEMMA StoredToken ==
  ASSUME StoreTypes
  PROVE  Load(System)[Token] \in Values \cup {NoValue}
  BY LoadFacts, ConfigAssumption DEF Document

LEMMA StepPutReloads ==
  ASSUME Inv, NEW t \in Tasks, PutReloads(t)
  PROVE  Inv'
<1> USE InvParts
<1>1. /\ call[t].at = "reload" /\ token' = Load(System)[Token]
      /\ Return(t)
      /\ lapse' = "none" /\ UNCHANGED <<files, readable, reloading, queue, mutex>>
  BY DEF PutReloads, ReloadToken, At, fileVars
<1>2. Moves(t) /\ call'[t].at = "idle"
  BY <1>1, ReturnEffect
<1>3. StoreTypes' /\ NewsArrives'
  BY <1>1, StoredToken DEF StoreTypes, NewsArrives, Load
<1>4. mutex # t
  BY <1>1 DEF MutexHasHolder, At
<1> QED
  BY <1>1, <1>2, <1>3, <1>4, OneTaskMoves

LEMMA StepList ==
  ASSUME Inv, NEW t \in Tasks, List(t)
  PROVE  Inv'
<1> USE InvParts
<1>1. PICK l \in SUBSET Present :
        call' = [call EXCEPT ![t].at = "wipe", ![t].listed = l]
  BY DEF List
<1>2. /\ call[t].at = "list"
      /\ UNCHANGED <<files, readable, token, reloading, lapse, queue, mutex>>
  BY DEF List, At, fileVars, tokenVars
<1>3. PICK r \in CallRecord : r = call[t]
  BY DEF CallTypes
<1>4. PICK q \in CallRecord : q = [r EXCEPT !.at = "wipe", !.listed = l]
  BY DEF CallRecord, Places, Present
<1>5. q.at = "wipe" /\ call' = [call EXCEPT ![t] = q]
  BY <1>1, <1>3, <1>4 DEF CallRecord
<1>6. Moves(t) /\ call'[t].at = "wipe"
  BY <1>5 DEF Moves, CallTypes
<1>7. StoreTypes' /\ NewsArrives'
  BY <1>2, <1>6, NewsStay DEF StoreTypes
<1>8. mutex # t
  BY <1>2 DEF MutexHasHolder, At
<1> QED
  BY <1>2, <1>6, <1>7, <1>8, OneTaskMoves

LEMMA StepWipe ==
  ASSUME Inv, NEW t \in Tasks, Wipe(t)
  PROVE  Inv'
<1> USE InvParts
<1>1. /\ call[t].at = "wipe" /\ mutex = NoTask /\ mutex' = t
      /\ GoTo(t, "remove")
      /\ UNCHANGED <<files, readable, token, reloading, lapse, queue>>
  BY DEF Wipe, At, fileVars, tokenVars
<1>2. Moves(t) /\ call'[t].at = "remove"
  BY <1>1, GoToEffect DEF Places
<1>3. StoreTypes' /\ NewsArrives'
  BY <1>1, <1>2, NewsStay DEF StoreTypes
<1> QED
  BY <1>1, <1>2, <1>3, ConfigAssumption, OneTaskMoves

LEMMA StepRemove ==
  ASSUME Inv, NEW t \in Tasks, Remove(t)
  PROVE  Inv'
<1> USE InvParts
<1>1. PICK s \in call[t].listed :
        /\ files' = [files EXCEPT ![s] = Empty]
        /\ readable' = [readable EXCEPT ![s] = TRUE]
        /\ IF s = System THEN Lapse("reset") ELSE UNCHANGED lapse
        /\ call' = [call EXCEPT ![t].listed = @ \ {s}]
  BY DEF Remove
<1>2. call[t].at = "remove" /\ UNCHANGED <<token, reloading, queue, mutex>>
  BY DEF Remove, At, tokenVars
<1>3. mutex = t /\ \A u \in Tasks \ {t} : ~At(u, "save")
  BY <1>2 DEF MutexHasHolder, At
<1>4. PICK r \in CallRecord : r = call[t]
  BY DEF CallTypes
<1>5. s \in Spaces
  BY <1>4 DEF CallRecord
<1>6. PICK q \in CallRecord : q = [r EXCEPT !.listed = r.listed \ {s}]
  BY DEF CallRecord
<1>7. q.at = "remove" /\ call' = [call EXCEPT ![t] = q]
  BY <1>1, <1>2, <1>4, <1>6 DEF CallRecord
<1>8. Moves(t) /\ call'[t].at = "remove"
  BY <1>7 DEF Moves, CallTypes
<1>9. /\ lapse' \in Lapses \cup {"none"}
      /\ lapse' = "none" => lapse = "none" /\ s # System
  BY <1>1, LapseEffect DEF StoreTypes, Lapses
<1>10. StoreTypes'
  BY <1>1, <1>2, <1>5, <1>9, DocumentFacts DEF StoreTypes
<1>11. s # System => Load(System)[Token]' = Load(System)[Token]
  BY <1>1, ConfigAssumption DEF Load, StoreTypes
<1>12. NewsUnderWay => NewsUnderWay'
  <2>1. \A u \in Tasks : At(u, "publish") => call'[u] = call[u]
    BY <1>2, <1>8 DEF Moves, At
  <2> QED
    BY <2>1, <1>2 DEF NewsUnderWay, At, Space, Key
<1>13. NewsArrives'
  BY <1>2, <1>9, <1>11, <1>12 DEF NewsArrives
<1> QED
  BY <1>2, <1>3, <1>8, <1>10, <1>13, OneTaskMoves

LEMMA StepWiped ==
  ASSUME Inv, NEW t \in Tasks, Wiped(t)
  PROVE  Inv'
<1> USE InvParts
<1>1. /\ call[t].at = "remove" /\ mutex' = NoTask
      /\ Return(t)
      /\ UNCHANGED <<files, readable, token, reloading, lapse, queue>>
  BY DEF Wiped, At, fileVars, tokenVars
<1>2. Moves(t) /\ call'[t].at = "idle"
  BY <1>1, ReturnEffect
<1>3. StoreTypes' /\ NewsArrives'
  BY <1>1, <1>2, NewsStay DEF StoreTypes
<1>4. mutex = t
  BY <1>1 DEF MutexHasHolder, At
<1> QED
  BY <1>1, <1>2, <1>3, <1>4, ConfigAssumption, OneTaskMoves

LEMMA StepDeliver ==
  ASSUME Inv, Deliver
  PROVE  Inv'
<1> USE InvParts
<1>1. /\ queue # <<>> /\ ~reloading /\ queue' = Tail(queue)
      /\ reloading' = (Head(queue) = <<System, Token>>)
      /\ UNCHANGED <<files, readable, token, lapse, mutex, call>>
  BY DEF Deliver, fileVars
<1>2. /\ queue' \in Seq(Spaces \X Keys) /\ Head(queue) = queue[1]
      /\ Len(queue') = Len(queue) - 1 /\ Len(queue) \in Nat
      /\ \A i \in 1 .. Len(queue') : queue'[i] = queue[i + 1]
  BY <1>1 DEF StoreTypes
<1>3. StoreTypes'
  BY <1>1, <1>2, ConfigAssumption DEF StoreTypes
<1>4. NewsUnderWay => NewsUnderWay'
  <2>1. ASSUME NEW i \in 1 .. Len(queue), queue[i] = <<System, Token>>
        PROVE  NewsUnderWay'
    <3>1. CASE i = 1
      BY <3>1, <2>1, <1>1, <1>2 DEF NewsUnderWay
    <3>2. CASE i # 1
      <4>1. i - 1 \in 1 .. Len(queue') /\ queue'[i - 1] = queue[i]
        BY <3>2, <1>2
      <4> QED
        BY <4>1, <2>1 DEF NewsUnderWay
    <3> QED
      BY <3>1, <3>2
  <2>2. (\E t \in Tasks : At(t, "publish") /\ Space(t) = System /\ Key(t) = Token)
        => NewsUnderWay'
    BY <1>1 DEF NewsUnderWay, At, Space, Key
  <2> QED
    BY <2>1, <2>2, <1>1 DEF NewsUnderWay
<1>5. NewsArrives'
  BY <1>1, <1>4 DEF NewsArrives, Load
<1> QED
  BY <1>1, <1>3, <1>5
     DEF Inv, CallTypes, WritesLeft, MutexHasHolder, LoadedIsStored, At, Space, Load

LEMMA StepEventReloads ==
  ASSUME Inv, EventReloads
  PROVE  Inv'
<1> USE InvParts
<1>1. /\ token' = Load(System)[Token] /\ reloading' = FALSE /\ lapse' = "none"
      /\ UNCHANGED <<files, readable, queue, mutex, call>>
  BY DEF EventReloads, ReloadToken, fileVars
<1>2. StoreTypes' /\ NewsArrives'
  BY <1>1, StoredToken DEF StoreTypes, NewsArrives, Load
<1> QED
  BY <1>1, <1>2
     DEF Inv, CallTypes, WritesLeft, MutexHasHolder, LoadedIsStored, At, Space, Load

LEMMA StepRestart ==
  ASSUME Inv, Restart
  PROVE  Inv'
<1> USE InvParts
<1>1. /\ token' = Load(System)[Token] /\ reloading' = FALSE /\ lapse' = "none"
      /\ queue' = <<>> /\ mutex' = NoTask /\ call' = [t \in Tasks |-> Idle]
      /\ UNCHANGED <<files, readable>>
  BY DEF Restart, fileVars
<1>2. queue' \in Seq(Spaces \X Keys) /\ Len(queue') <= QueueDepth
  BY <1>1, ConfigAssumption
<1>3. StoreTypes' /\ NewsArrives'
  BY <1>1, <1>2, StoredToken DEF StoreTypes, NewsArrives, Load
<1>4. CallTypes' /\ \A t \in Tasks : call'[t].at = "idle"
  BY <1>1, IdleFacts DEF CallTypes
<1>5. WritesLeft' /\ LoadedIsStored'
  BY <1>4 DEF WritesLeft, LoadedIsStored, At
<1>6. MutexHasHolder'
  BY <1>1, <1>4, ConfigAssumption DEF MutexHasHolder, At
<1> QED
  BY <1>3, <1>4, <1>5, <1>6 DEF Inv

LEMMA StepInv == Inv /\ [Next]_vars => Inv'
<1>1. ASSUME Inv, UNCHANGED vars PROVE Inv'
  BY <1>1 DEF Inv, vars, fileVars, tokenVars, StoreTypes, CallTypes, WritesLeft, MutexHasHolder,
              LoadedIsStored, NewsArrives, NewsUnderWay, At, Space, Key, Load
<1>2. ASSUME Inv, NEW t \in Tasks, Proceed(t) PROVE Inv'
  BY <1>2, StepLoadDoc, StepSave, StepPublish, StepPutReloads, StepList, StepWipe, StepRemove,
     StepWiped DEF Proceed
<1> QED
  BY <1>1, <1>2, StepBegin, StepDeliver, StepEventReloads, StepRestart DEF Next, Rest

\* The inductive invariant of ConfigService, its files and the enforced token.
THEOREM ConfigInvariant == Spec => []Inv
  BY InitInv, StepInv, PTL DEF Spec

\* The state keeps its types and the bus its bound.
THEOREM ConfigTypes == Spec => []TypeOK
<1>1. Inv => TypeOK
  BY InvParts, TypesAreTypeOK
<1> QED
  BY <1>1, ConfigInvariant, PTL

\* The mutex is held by the one task that is about to save or to remove, and is
\* handed back on every path through a call.
THEOREM MutexIsHandedBack == Spec => []MutexHasHolder
<1>1. Inv => MutexHasHolder
  BY DEF Inv
<1> QED
  BY <1>1, ConfigInvariant, PTL

\* When nothing is under way the token that is enforced is the one that is stored,
\* unless since token_ was last read a file was cut or grew too long, the bus lost an
\* event about the token, or a factory reset removed it: so also after any of these,
\* once the token is read again.
THEOREM TokenIsInSync == Spec => []TokenInSync
<1>1. Inv => TokenInSync
  BY DEF Inv, TokenInSync, Settled, NewsArrives, NewsUnderWay, At
<1> QED
  BY <1>1, ConfigInvariant, PTL

\* A step that changes a file changes one key of what was stored, unless the file
\* is being removed.
THEOREM NoUpdateIsLost == Spec => KeepsWrites
<1> DEFINE Kept(s) ==
      \/ \E k \in Keys : files'[s] = [Load(s) EXCEPT ![k] = files'[s][k]]
      \/ files'[s] = files[s]
      \/ \E t \in Tasks : At(t, "remove") /\ s \in call[t].listed
<1>1. ASSUME Inv, [Next]_vars, NEW s \in Spaces PROVE Kept(s) \/ UNCHANGED files
  <2>0. StoreTypes /\ CallTypes /\ WritesLeft /\ LoadedIsStored
    BY <1>1, InvParts
  <2>1. ASSUME NEW t \in Tasks, Save(t) PROVE Kept(s)
    <3>1. call[t].at = "save" /\ call[t].doc = Load(Space(t))
      BY <2>0, <2>1 DEF Save, At, LoadedIsStored
    <3>2. Key(t) \in Keys /\ Value(t) \in Values \cup {NoValue}
      BY <2>0, <3>1, ChangedFacts
    <3>3. CASE UNCHANGED files
      BY <3>3
    <3>4. CASE files' = [files EXCEPT ![Space(t)] = Changed(t)]
      <4>1. CASE s # Space(t)
        BY <2>0, <4>1, <3>4 DEF StoreTypes
      <4>2. CASE s = Space(t)
        <5>1. files'[s] = [Load(s) EXCEPT ![Key(t)] = Value(t)]
          BY <2>0, <4>2, <3>1, <3>4 DEF StoreTypes, Changed
        <5>2. files'[s][Key(t)] = Value(t)
          BY <2>0, <5>1, <3>2, LoadFacts DEF Document
        <5>3. files'[s] = [Load(s) EXCEPT ![Key(t)] = files'[s][Key(t)]]
          BY <5>1, <5>2
        <5> QED
          BY <5>3, <3>2
      <4> QED
        BY <4>1, <4>2
    <3> QED
      BY <2>1, <3>3, <3>4 DEF Save, SaveFails, fileVars
  <2>2. ASSUME NEW t \in Tasks, Remove(t) PROVE Kept(s)
    <3>1. PICK l \in call[t].listed : files' = [files EXCEPT ![l] = Empty]
      BY <2>2 DEF Remove
    <3>2. At(t, "remove")
      BY <2>2 DEF Remove
    <3>3. CASE s = l
      BY <3>1, <3>2, <3>3
    <3>4. CASE s # l
      BY <2>0, <3>1, <3>4 DEF StoreTypes
    <3> QED
      BY <3>3, <3>4
  <2>3. ASSUME NEW t \in Tasks, Set(t) \/ Erase(t) \/ Put(t) \/ Reset(t)
        PROVE  UNCHANGED files
    BY <2>3 DEF Set, Erase, Put, Reset, Begin, fileVars
  <2>4. ASSUME NEW t \in Tasks, Proceed(t) PROVE Kept(s) \/ UNCHANGED files
    <3> HIDE DEF Kept
    <3> QED
      BY <2>1, <2>2, <2>4
         DEF Proceed, LoadDoc, Publish, PutReloads, List, Wipe, Wiped, fileVars
  <2>5. Deliver \/ EventReloads \/ Restart \/ UNCHANGED vars => UNCHANGED files
    BY DEF Deliver, EventReloads, Restart, vars, fileVars
  <2> HIDE DEF Kept
  <2> QED
    BY <1>1, <2>3, <2>4, <2>5 DEF Next, Rest
<1>2. ASSUME Inv, [Next]_vars PROVE [\A s \in Spaces : Kept(s)]_files
  BY <1>1, <1>2
<1> QED
  BY <1>2, ConfigInvariant, PTL DEF Spec, KeepsWrites
=============================================================================
