----------------------- MODULE PropagationSync_proofs -----------------------
(***************************************************************************)
(* Proofs about PropagationSync, for any number of copies, messages and    *)
(* overlapping exchanges and any number of faults and restarts.             *)
(***************************************************************************)
EXTENDS PropagationSync, TLAPS

\* Handler s has marked message m and is about to call the application.
Calls(s, m) == session[s].phase = "calling" /\ MessageIn[session[s].hand] = m

\* Handler s has taken a copy of m for itself.
Holds(s, m) == /\ session[s].phase \in {"holding", "calling"}
               /\ MessageIn[session[s].hand] = m

\* The application got m, or is about to, or the process stopped just before, or
\* m is ignored.
Settled(m) == \/ m \in Ignored \/ calls[m] > 0 \/ m \in abandoned
              \/ \E s \in Sessions : Calls(s, m)

\* ... or m is at least in somebody's hands.
Good(m) == Settled(m) \/ \E s \in Sessions : Holds(s, m)

SettledIDs(ids) == /\ \A m \in ids \intersect Messages : Settled(m)
                   /\ \A c \in ids \intersect Copies : Settled(MessageIn[c])

GoodCopies(cs) == \A c \in (cs \intersect Copies) \ Undecryptable : Good(MessageIn[c])

\* The types the argument needs.
Types ==
    /\ calls \in [Messages -> Nat]
    /\ crashes \in Nat
    /\ stored \subseteq Copies
    /\ session = [s \in Sessions |-> session[s]]
    /\ \A s \in Sessions :
         session[s].phase \in {"holding", "calling", "told"} => session[s].hand \in Copies

\* Whatever is remembered as processed is good, and whatever is remembered as
\* delivered settled, in memory, on disk and on the way there.
SafeInv ==
    /\ GoodCopies(processed)
    /\ GoodCopies(processedFile)
    /\ SettledIDs(delivered)
    /\ SettledIDs(deliveredFile)
    /\ \A s \in Sessions :
         /\ session[s].phase = "saving" => SettledIDs(session[s].todo)
         /\ \A m \in Messages :
              session[s].phase = "told" /\ MessageIn[session[s].hand] = m => Settled(m)
         /\ GoodCopies(session[s].haves)
    /\ \A haves \in acks : GoodCopies(haves)
    /\ GoodCopies(stored \ (dropped \union entries \union files))

\* A message not remembered as delivered was called once per crash at most,
\* and nobody is about to call it; the marking handler is alone.
CallInv ==
    /\ \A m \in Messages :
         /\ calls[m] <= 1 + crashes
         /\ m \notin delivered => /\ calls[m] <= crashes
                                  /\ \A s \in Sessions : ~Calls(s, m)
         /\ \A s \in Sessions : Calls(s, m) => calls[m] <= crashes
         /\ \A s, t \in Sessions : Calls(s, m) /\ Calls(t, m) => s = t

USE SyncAssumption

\* Init establishes the types, and every step keeps them.
LEMMA TypesHold ==
    /\ Init => Types
    /\ Types /\ [Next]_vars => Types'
<1>1. Init => Types
  BY DEF Init, NodeInit, Types, Idle, Exchange
<1>2. ASSUME Types, [Next]_vars PROVE Types'
  <2> USE <1>2 DEF Types, nodeVars, cacheVars, appVars, Become, Exchange, Idle
  <2>1. CASE NodeNext /\ ClientUnchanged
    BY <2>1, Zenon DEF NodeNext, Upload, Cull, NodeCrash, NodeRestart, StartFrom, ClientUnchanged
  <2>2. ASSUME NEW s \in Sessions, Begin(s) PROVE Types'
    BY <2>2, Zenon DEF Begin
  <2>3. CASE LinkLost
    BY <2>3 DEF LinkLost
  <2>4. ASSUME NEW s \in Sessions, NodeLists(s) PROVE Types'
    BY <2>4, Zenon DEF NodeLists
  <2>5. ASSUME NEW s \in Sessions, NEW served \in SUBSET Copies, NEW removed \in BOOLEAN,
               NodeServes(s, served, removed)
        PROVE Types'
    BY <2>5, Zenon DEF NodeServes, Purge
  <2>6. ASSUME NEW haves \in acks, NEW removed \in BOOLEAN, NodePurges(haves, removed)
        PROVE Types'
    BY <2>6 DEF NodePurges, Purge
  <2>7. ASSUME NEW s \in Sessions, Handler(s) PROVE Types'
    <3>1. CASE ListEmpty(s)
      BY <3>1, Zenon DEF ListEmpty
    <3>2. ASSUME NEW r \in BOOLEAN, AskForMessages(s, r) PROVE Types'
      BY <3>2, Zenon DEF AskForMessages
    <3>3. ASSUME NEW c \in Copies, TakePayload(s, c) PROVE Types'
      BY <3>3, Zenon DEF TakePayload
    <3>4. CASE MarkMessage(s)
      BY <3>4 DEF MarkMessage
    <3>5. CASE Callback(s)
      BY <3>5 DEF Callback
    <3>6. CASE MarkCopy(s)
      BY <3>6, Zenon DEF MarkCopy
    <3>7. CASE Complete(s)
      BY <3>7, Zenon DEF Complete, Reported
    <3>8. CASE Save(s)
      BY <3>8, Zenon DEF Save
    <3> QED
      BY <2>7, <3>1, <3>2, <3>3, <3>4, <3>5, <3>6, <3>7, <3>8 DEF Handler
  <2>8. CASE Crash
    BY <2>8 DEF Crash, StartAgain
  <2>9. CASE CloseAndStart
    BY <2>9 DEF CloseAndStart, SavedOr, StartAgain
  <2>10. CASE UNCHANGED vars
    BY <2>10 DEF vars
  <2> HIDE <1>2 DEF Types, nodeVars, cacheVars, appVars, Become, Exchange, Idle
  <2> QED
    BY <1>2, <2>1, <2>2, <2>3, <2>4, <2>5, <2>6, <2>7, <2>8, <2>9, <2>10 DEF Next
<1> QED
  BY <1>1, <1>2

\* The messages in hand are those some handler holds.
LEMMA InHandFacts ==
    \A m : m \in AllInHand <=> \E s \in Sessions : Holds(s, m)
BY DEF AllInHand, InHand, Holds

\* What is settled stays settled, and what is good stays good: the callback
\* settles what it takes out of a handler's hands, and a stop records it.
LEMMA Persistence ==
    ASSUME Types, SettledIDs(delivered), [Next]_vars, NEW m \in Messages
    PROVE  /\ Settled(m) => Settled(m)'
           /\ Good(m) => Good(m)'
<1> DEFINE Kept == /\ Settled(m) => Settled(m)'
                   /\ Good(m) => Good(m)'
<1> SUFFICES Kept
  OBVIOUS
<1> USE DEF Types, nodeVars, cacheVars, appVars, Become, Exchange, Idle, Settled, Good,
            Calls, Holds
<1>1. CASE NodeNext /\ ClientUnchanged
  BY <1>1 DEF ClientUnchanged
<1>2. ASSUME NEW s \in Sessions, Begin(s) PROVE Kept
  BY <1>2, Zenon DEF Begin
<1>3. CASE LinkLost
  BY <1>3 DEF LinkLost
<1>4. ASSUME NEW s \in Sessions, NodeLists(s) PROVE Kept
  BY <1>4, Zenon DEF NodeLists
<1>5. ASSUME NEW s \in Sessions, NEW served \in SUBSET Copies, NEW removed \in BOOLEAN,
             NodeServes(s, served, removed)
      PROVE Kept
  BY <1>5, Zenon DEF NodeServes
<1>6. ASSUME NEW haves \in acks, NEW removed \in BOOLEAN, NodePurges(haves, removed)
      PROVE Kept
  BY <1>6 DEF NodePurges
<1>7. ASSUME NEW s \in Sessions, Handler(s) PROVE Kept
  <2>1. CASE ListEmpty(s)
    BY <2>1, Zenon DEF ListEmpty
  <2>2. ASSUME NEW r \in BOOLEAN, AskForMessages(s, r) PROVE Kept
    BY <2>2, Zenon DEF AskForMessages
  <2>3. ASSUME NEW c \in Copies, TakePayload(s, c) PROVE Kept
    BY <2>3, Zenon DEF TakePayload
  <2>4. CASE MarkMessage(s)
    <3> DEFINE own == MessageIn[session[s].hand]
    <3>1. own \in Messages /\ session[s].phase = "holding"
      BY <2>4 DEF MarkMessage
    <3>2. \A t \in Sessions : t # s => session'[t] = session[t]
      BY <2>4 DEF MarkMessage
    <3>3. calls' = calls /\ abandoned' = abandoned /\ Sessions = Sessions
      BY <2>4 DEF MarkMessage
    <3>4. Settled(m) => Settled(m)'
      BY <3>1, <3>2, <3>3
    <3>5. CASE own \in delivered \union Ignored
      <4>1. Settled(own)
        BY <3>1, <3>5 DEF SettledIDs
      <4>2. m # own => (Good(m) => Good(m)')
        BY <3>1, <3>2, <3>3
      <4> QED
        BY <3>4, <4>1, <4>2
    <3>6. CASE own \notin delivered \union Ignored
      <4>1. session'[s].phase = "calling" /\ session'[s].hand = session[s].hand
        BY <2>4, <3>6 DEF MarkMessage
      <4> QED
        BY <3>1, <3>2, <3>3, <3>4, <4>1
    <3> QED
      BY <3>5, <3>6
  <2>5. CASE Callback(s)
    <3> DEFINE own == MessageIn[session[s].hand]
    <3>1. own \in Messages
      BY <2>5 DEF Callback
    <3>2. \A t \in Sessions : t # s => session'[t] = session[t]
      BY <2>5 DEF Callback
    <3>3. calls' = [calls EXCEPT ![own] = @ + 1] /\ abandoned' = abandoned
      BY <2>5 DEF Callback
    <3>4. m # own => calls'[m] = calls[m]
      BY <3>1, <3>3
    <3>5. m = own => calls'[m] > 0
      BY <3>1, <3>3
    <3> QED
      BY <3>2, <3>3, <3>4, <3>5
  <2>6. CASE MarkCopy(s)
    BY <2>6, Zenon DEF MarkCopy
  <2>7. CASE Complete(s)
    BY <2>7, Zenon DEF Complete
  <2>8. CASE Save(s)
    BY <2>8, Zenon DEF Save
  <2> HIDE DEF Kept
  <2> QED
    BY <1>7, <2>1, <2>2, <2>3, <2>4, <2>5, <2>6, <2>7, <2>8 DEF Handler
<1>8. CASE Crash
  BY <1>8, InHandFacts DEF Crash, StartAgain
<1>9. CASE CloseAndStart
  BY <1>9, InHandFacts DEF CloseAndStart, StartAgain
<1>10. CASE UNCHANGED vars
  BY <1>10 DEF vars
<1> HIDE DEF Types, nodeVars, cacheVars, appVars, Become, Exchange, Idle, Settled, Good,
             Calls, Holds, Kept
<1> QED
  BY <1>1, <1>2, <1>3, <1>4, <1>5, <1>6, <1>7, <1>8, <1>9, <1>10 DEF Next

\* Every step keeps the safety invariant.
LEMMA SafeStep ==
    ASSUME Types, Types', SafeInv, [Next]_vars
    PROVE  SafeInv'
<1>1. \A m \in Messages : (Settled(m) => Settled(m)') /\ (Good(m) => Good(m)')
  BY Persistence DEF SafeInv
<1>2. \A m \in Messages : Settled(m)' => Good(m)'
  BY DEF Good
<1>3. \A c \in Copies : MessageIn[c] \in Messages
  OBVIOUS
<1> USE <1>1, <1>2, <1>3 DEF SafeInv, GoodCopies, SettledIDs, nodeVars, cacheVars, appVars, Become,
            Exchange, Idle
<1>4. CASE NodeNext /\ ClientUnchanged
  <2>1. ASSUME NEW c \in Copies, NEW w \in BOOLEAN, Upload(c, w) PROVE SafeInv'
    BY <1>4, <2>1 DEF Upload, ClientUnchanged
  <2>2. ASSUME NEW c \in Copies, NEW w \in BOOLEAN, Cull(c, w) PROVE SafeInv'
    BY <1>4, <2>2 DEF Cull, ClientUnchanged
  <2>3. CASE NodeCrash \/ NodeRestart
    BY <1>4, <2>3, Zenon DEF NodeCrash, NodeRestart, StartFrom, ClientUnchanged
  <2> HIDE DEF SafeInv
  <2> QED
    BY <1>4, <2>1, <2>2, <2>3 DEF NodeNext
<1>5. ASSUME NEW s \in Sessions, Begin(s) PROVE SafeInv'
  BY <1>5 DEF Begin, Types
<1>6. CASE LinkLost
  BY <1>6 DEF LinkLost, Types
<1>7. ASSUME NEW s \in Sessions, NodeLists(s) PROVE SafeInv'
  BY <1>7 DEF NodeLists, Types
<1>8. ASSUME NEW s \in Sessions, NEW served \in SUBSET Copies, NEW removed \in BOOLEAN,
             NodeServes(s, served, removed)
      PROVE SafeInv'
  BY <1>8 DEF NodeServes, Purge, Types
<1>9. ASSUME NEW haves \in acks, NEW removed \in BOOLEAN, NodePurges(haves, removed)
      PROVE SafeInv'
  BY <1>9 DEF NodePurges, Purge, Types
<1>10. ASSUME NEW s \in Sessions, Handler(s) PROVE SafeInv'
  <2>1. CASE ListEmpty(s)
    BY <2>1 DEF ListEmpty, Types
  <2>2. ASSUME NEW r \in BOOLEAN, AskForMessages(s, r) PROVE SafeInv'
    BY <2>2 DEF AskForMessages, Types, Good
  <2>3. ASSUME NEW c \in Copies, TakePayload(s, c) PROVE SafeInv'
    <3>1. c \notin Undecryptable => Good(MessageIn[c])'
      <4>1. CASE c \in processed
        BY <4>1
      <4>2. CASE c \notin processed /\ c \notin Undecryptable
        <5>1. session'[s].phase = "holding" /\ session'[s].hand = c
          BY <2>3, <4>2 DEF TakePayload, Unprocessed, Types
        <5> QED
          BY <5>1 DEF Good, Holds
      <4> QED
        BY <4>1, <4>2
    <3> QED
      BY <2>3, <3>1 DEF TakePayload, Types
  <2>4. CASE MarkMessage(s)
    <3>1. PICK own \in Messages : own = MessageIn[session[s].hand]
      BY <2>4 DEF MarkMessage, Types
    <3>2. Settled(own)'
      <4>1. CASE own \in delivered
        BY <4>1
      <4>2. CASE own \in Ignored
        BY <4>2 DEF Settled
      <4>3. CASE own \notin delivered \union Ignored
        <5>1. session'[s].phase = "calling" /\ session'[s].hand = session[s].hand
          BY <2>4, <3>1, <4>3 DEF MarkMessage, Types
        <5> QED
          BY <3>1, <5>1 DEF Settled, Calls
      <4> QED
        BY <4>1, <4>2, <4>3
    <3>3. delivered' \subseteq delivered \union {own} /\ own \notin Copies
      BY <2>4, <3>1 DEF MarkMessage
    <3>4. session' = [session EXCEPT ![s] = session'[s]]
      BY <2>4 DEF MarkMessage, Types
    <3>5. /\ session'[s].phase \in {"told", "calling"}
          /\ session'[s].haves = session[s].haves
          /\ session'[s].hand = session[s].hand
      BY <2>4 DEF MarkMessage, Types
    <3>6. UNCHANGED <<nodeVars, processed, processedFile, deliveredFile, acks>>
      BY <2>4 DEF MarkMessage
    <3> QED
      BY <3>1, <3>2, <3>3, <3>4, <3>5, <3>6 DEF Types
  <2>5. CASE Callback(s)
    <3>1. PICK own \in Messages : own = MessageIn[session[s].hand]
      BY <2>5 DEF Callback, Types
    <3>2. Settled(own)'
      BY <2>5, <3>1, SMTT(60) DEF Callback, Settled, Types
    <3>3. session' = [session EXCEPT ![s] = session'[s]]
      BY <2>5 DEF Callback, Types
    <3>4. /\ session'[s].phase = "told"
          /\ session'[s].haves = session[s].haves
          /\ session'[s].hand = session[s].hand
      BY <2>5 DEF Callback, Types
    <3>5. UNCHANGED <<nodeVars, cacheVars, acks>>
      BY <2>5 DEF Callback
    <3> QED
      BY <3>1, <3>2, <3>3, <3>4, <3>5 DEF Types
  <2>6. CASE MarkCopy(s)
    BY <2>6 DEF MarkCopy, Types
  <2>7. CASE Complete(s)
    BY <2>7 DEF Complete, Reported, Types
  <2>8. CASE Save(s)
    BY <2>8 DEF Save, Types
  <2> HIDE DEF SafeInv
  <2> QED
    BY <1>10, <2>1, <2>2, <2>3, <2>4, <2>5, <2>6, <2>7, <2>8 DEF Handler
<1>11. CASE Crash
  BY <1>11 DEF Crash, StartAgain, Types
<1>12. CASE CloseAndStart
  BY <1>12 DEF CloseAndStart, SavedOr, StartAgain, Types
<1>13. CASE UNCHANGED vars
  BY <1>13 DEF vars
<1> HIDE <1>1, <1>2, <1>3 DEF SafeInv, GoodCopies, SettledIDs, nodeVars, cacheVars, appVars,
         Become, Exchange, Idle
<1> QED
  BY <1>4, <1>5, <1>6, <1>7, <1>8, <1>9, <1>10, <1>11, <1>12, <1>13 DEF Next

\* Every step keeps the invariant on calls: only MarkMessage lets a handler
\* call, only if the message was not marked, and only a crash unmarks it.
LEMMA CallStep ==
    ASSUME Types, Types', CallInv, [Next]_vars
    PROVE  CallInv'
<1> USE DEF Types, CallInv, nodeVars, cacheVars, appVars, Become, Exchange, Idle, Calls
<1>1. CASE NodeNext /\ ClientUnchanged
  BY <1>1 DEF ClientUnchanged
<1>2. ASSUME NEW s \in Sessions, Begin(s) PROVE CallInv'
  BY <1>2 DEF Begin
<1>3. CASE LinkLost
  BY <1>3 DEF LinkLost
<1>4. ASSUME NEW s \in Sessions, NodeLists(s) PROVE CallInv'
  BY <1>4 DEF NodeLists
<1>5. ASSUME NEW s \in Sessions, NEW served \in SUBSET Copies, NEW removed \in BOOLEAN,
             NodeServes(s, served, removed)
      PROVE CallInv'
  BY <1>5 DEF NodeServes
<1>6. ASSUME NEW haves \in acks, NEW removed \in BOOLEAN, NodePurges(haves, removed)
      PROVE CallInv'
  BY <1>6 DEF NodePurges
<1>7. ASSUME NEW s \in Sessions, Handler(s) PROVE CallInv'
  <2>1. CASE ListEmpty(s)
    BY <2>1 DEF ListEmpty
  <2>2. ASSUME NEW r \in BOOLEAN, AskForMessages(s, r) PROVE CallInv'
    BY <2>2 DEF AskForMessages
  <2>3. ASSUME NEW c \in Copies, TakePayload(s, c) PROVE CallInv'
    BY <2>3 DEF TakePayload
  <2>4. CASE MarkMessage(s)
    BY <2>4 DEF MarkMessage
  <2>5. CASE Callback(s)
    <3>1. PICK own \in Messages : own = MessageIn[session[s].hand]
      BY <2>5 DEF Callback
    <3>2. calls[own] <= crashes /\ own \in delivered
      BY <2>5, <3>1 DEF Callback
    <3>3. /\ calls' = [calls EXCEPT ![own] = calls[own] + 1]
          /\ crashes' = crashes
          /\ delivered' = delivered
      BY <2>5, <3>1 DEF Callback
    <3>4. \A t \in Sessions, m \in Messages : Calls(t, m)' => t # s /\ Calls(t, m)
      BY <2>5 DEF Callback
    <3>5. \A t \in Sessions : t # s => ~Calls(t, own)
      BY <2>5, <3>1 DEF Callback
    <3>6. \A m \in Messages : calls'[m] = IF m = own THEN calls[m] + 1 ELSE calls[m]
      BY <3>1, <3>3
    <3> HIDE DEF Calls
    <3> QED
      BY <3>2, <3>3, <3>4, <3>5, <3>6
  <2>6. CASE MarkCopy(s)
    BY <2>6 DEF MarkCopy
  <2>7. CASE Complete(s)
    BY <2>7 DEF Complete
  <2>8. CASE Save(s)
    BY <2>8 DEF Save
  <2> HIDE DEF CallInv
  <2> QED
    BY <1>7, <2>1, <2>2, <2>3, <2>4, <2>5, <2>6, <2>7, <2>8 DEF Handler
<1>8. CASE Crash
  BY <1>8 DEF Crash, StartAgain
<1>9. CASE CloseAndStart
  BY <1>9 DEF CloseAndStart, SavedOr, StartAgain
<1>10. CASE UNCHANGED vars
  BY <1>10 DEF vars
<1> HIDE DEF Types, CallInv, nodeVars, cacheVars, appVars, Become, Exchange, Idle, Calls
<1> QED
  BY <1>1, <1>2, <1>3, <1>4, <1>5, <1>6, <1>7, <1>8, <1>9, <1>10 DEF Next

SyncInv == Types /\ SafeInv /\ CallInv

\* The inductive invariant holds in every reachable state of the node and the
\* client, however exchanges overlap and whatever stops or fails.
THEOREM SyncInvariant == Spec => []SyncInv
<1>1. Init => SyncInv
  <2>1. Init => Types
    BY TypesHold
  <2>2. Init => SafeInv
    BY DEF Init, NodeInit, SafeInv, GoodCopies, SettledIDs, Idle, Exchange
  <2>3. Init => CallInv
    BY DEF Init, CallInv, Calls, Idle, Exchange
  <2> QED
    BY <2>1, <2>2, <2>3 DEF SyncInv
<1>2. SyncInv /\ [Next]_vars => SyncInv'
  BY TypesHold, SafeStep, CallStep DEF SyncInv
<1> QED
  BY <1>1, <1>2, PTL DEF Spec

\* NothingIsLost, for every set of copies, messages and overlapping exchanges:
\* no purge (lxmf/router.go:1568) deletes a message the application was not
\* given, unless a stop of the process took it out of a handler's hands.
THEOREM MessagesAreKept == Spec => []NothingIsLost
<1>1. SyncInv => NothingIsLost
  <2> SUFFICES ASSUME SyncInv, NEW c \in stored \ (dropped \union Undecryptable \union IgnoredCopies)
               PROVE  \/ c \in entries \union files
                      \/ calls[MessageIn[c]] > 0
                      \/ MessageIn[c] \in AllInHand \union abandoned
    BY DEF NothingIsLost
  <2>1. c \in Copies
    BY DEF SyncInv, Types
  <2>2. c \in entries \union files \/ Good(MessageIn[c])
    BY <2>1 DEF SyncInv, SafeInv, GoodCopies
  <2>3. Good(MessageIn[c]) => \/ calls[MessageIn[c]] > 0
                              \/ MessageIn[c] \in AllInHand \union abandoned
    <3>1. MessageIn[c] \notin Ignored
      BY <2>1 DEF IgnoredCopies
    <3> QED
      BY <3>1, InHandFacts DEF Good, Settled, Calls, Holds
  <2> QED
    BY <2>2, <2>3
<1> QED
  BY <1>1, SyncInvariant, PTL

\* RepeatedOnlyAfterCrash, likewise: handleInboundMessage's check and mark
\* under the lock (lxmf/router.go:4623) calls the application once per message
\* and crash.
THEOREM CalledOncePerCrash == Spec => []RepeatedOnlyAfterCrash
<1>1. SyncInv => RepeatedOnlyAfterCrash
  BY DEF SyncInv, CallInv, RepeatedOnlyAfterCrash
<1> QED
  BY <1>1, SyncInvariant, PTL
-----------------------------------------------------------------------------
(***************************************************************************)
(* The type invariant.  It is not inductive alone: that the copies a        *)
(* client reports are copies, and that the node gives up only what it had,  *)
(* rests on where they come from, the store of the node.                    *)
(***************************************************************************)
HoldingPhases == {"holding", "calling", "told"}

\* An exchange has its type; until it saves, it is about copies the node stored, and
\* it holds one only if it could be decrypted.
ExchangeOK(x, st) ==
    /\ x \in SessionType
    /\ x.phase \in HoldingPhases <=> x.hand # NoCopy
    /\ x.phase # "saving" => x.todo \subseteq st
    /\ x.hand # NoCopy => x.hand \in st \ Undecryptable
    /\ x.phase = "calling" => MessageIn[x.hand] \notin Ignored

StoreInv == NodeTypeOK /\ entries \subseteq stored /\ files \subseteq stored

ClientTypes ==
    /\ processed \subseteq Copies /\ processedFile \subseteq Copies
    /\ delivered \subseteq Copies \union Messages
    /\ deliveredFile \subseteq Copies \union Messages
    /\ calls \in [Messages -> Nat]
    /\ abandoned \subseteq Messages
    /\ crashes \in Nat /\ closes \in Nat /\ crashes + closes <= MaxStops
    /\ acks \subseteq SUBSET Copies

ExchangesOK == /\ session = [s \in Sessions |-> session[s]]
               /\ \A s \in Sessions : ExchangeOK(session[s], stored)

TypeInv == StoreInv /\ ClientTypes /\ ExchangesOK /\ OnlyWhatWasStored

\* Whatever the node does, its entries and files are copies it has stored.
LEMMA StoreStep ==
    ASSUME StoreInv, NodeNext
    PROVE  StoreInv' /\ stored \subseteq stored'
<1> USE NodeAssumption DEF StoreInv, NodeTypeOK
<1>f. ASSUME NEW b \in BOOLEAN, FaultIf(b) PROVE faults' \in 0 .. MaxNodeFaults
  BY <1>f DEF FaultIf
<1>1. ASSUME NEW c \in Copies, NEW w \in BOOLEAN, Upload(c, w)
      PROVE  StoreInv' /\ stored \subseteq stored'
  <2>1. faults' \in 0 .. MaxNodeFaults
    BY <1>1, <1>f, Zenon DEF Upload
  <2> QED
    BY <1>1, <2>1 DEF Upload, Unprocessed
<1>2. ASSUME NEW c \in Copies, NEW r \in BOOLEAN, Cull(c, r)
      PROVE  StoreInv' /\ stored \subseteq stored'
  <2>1. faults' \in 0 .. MaxNodeFaults
    BY <1>2, <1>f, Zenon DEF Cull
  <2> QED
    BY <1>2, <2>1 DEF Cull
<1>3. ASSUME NEW saved \in SUBSET Copies, StartFrom(saved)
      PROVE  StoreInv' /\ stored \subseteq stored'
  <2>1. faults' \in 0 .. MaxNodeFaults
    BY <1>3, <1>f, Zenon DEF StartFrom
  <2> QED
    BY <1>3, <2>1 DEF StartFrom
<1>4. nodeFile \in SUBSET Copies /\ nodeProcessed \in SUBSET Copies
  OBVIOUS
<1> HIDE DEF StoreInv
<1> QED
  BY <1>1, <1>2, <1>3, <1>4 DEF NodeNext, NodeCrash, NodeRestart

\* A report makes the node give up copies, never store one.
LEMMA PurgeStep ==
    ASSUME StoreInv, NEW haves, NEW removed \in BOOLEAN, Purge(haves, removed)
    PROVE  StoreInv' /\ stored' = stored
<1>1. faults' \in 0 .. MaxNodeFaults
  BY NodeAssumption DEF StoreInv, NodeTypeOK, Purge, FaultIf
<1> QED
  BY <1>1 DEF Purge, StoreInv, NodeTypeOK

\* A step of one exchange leaves the others as they are.
LEMMA ExchangeStep ==
    ASSUME ExchangesOK, NEW s \in Sessions, NEW x, session' = [session EXCEPT ![s] = x],
           stored \subseteq stored', ExchangeOK(x, stored')
    PROVE  ExchangesOK'
<1>1. \A t \in Sessions : session'[t] = IF t = s THEN x ELSE session[t]
  BY DEF ExchangesOK
<1>2. session' = [t \in Sessions |-> session'[t]]
  BY DEF ExchangesOK
<1>3. \A t \in Sessions : ExchangeOK(session[t], stored')
  BY DEF ExchangesOK, ExchangeOK
<1>4. \A t \in Sessions : ExchangeOK(session'[t], stored')
  BY <1>1, <1>3
<1> QED
  BY <1>2, <1>4 DEF ExchangesOK

LEMMA IdleOK == \A st : ExchangeOK(Idle, st)
BY DEF ExchangeOK, Idle, Exchange, SessionType, Phases, HoldingPhases

\* A step of exchange s that leaves the node, the calls and the stops alone.
LEMMA ExchangeMoves ==
    ASSUME TypeInv, NEW s \in Sessions, NEW x, Become(s, x), ExchangeOK(x, stored),
           UNCHANGED <<nodeVars, appVars>>,
           processed' \subseteq Copies, processedFile' \subseteq Copies,
           delivered' \subseteq Copies \union Messages,
           deliveredFile' \subseteq Copies \union Messages,
           acks' \subseteq SUBSET Copies
    PROVE  TypeInv'
<1>1. stored' = stored /\ StoreInv'
  BY DEF TypeInv, StoreInv, NodeTypeOK, nodeVars
<1>2. ExchangesOK'
  BY <1>1, ExchangeStep, Zenon DEF TypeInv, Become
<1>3. ClientTypes'
  BY DEF TypeInv, ClientTypes, appVars
<1>4. OnlyWhatWasStored'
  BY <1>1 DEF TypeInv, OnlyWhatWasStored, appVars
<1> QED
  BY <1>1, <1>2, <1>3, <1>4 DEF TypeInv

\* What an exchange knows of the copies it is about.
LEMMA ExchangeFacts ==
    ASSUME TypeInv, NEW s \in Sessions
    PROVE  /\ session[s].todo \subseteq Copies \union Messages
           /\ session[s].haves \subseteq Copies /\ stored \subseteq Copies
           /\ session[s].phase # "saving" => session[s].todo \subseteq stored
           /\ session[s].phase \in HoldingPhases =>
                /\ session[s].hand \in stored \ Undecryptable
                /\ session[s].hand \in Copies /\ MessageIn[session[s].hand] \in Messages
           /\ session[s].phase = "calling" => MessageIn[session[s].hand] \notin Ignored
<1>1. ExchangeOK(session[s], stored) /\ stored \subseteq Copies
  BY DEF TypeInv, ExchangesOK, StoreInv, NodeTypeOK
<1>2. session[s].todo \subseteq Copies \union Messages /\ session[s].haves \subseteq Copies
  BY <1>1 DEF ExchangeOK, SessionType
<1> QED
  BY <1>1, <1>2 DEF ExchangeOK

\* An exchange is well formed when its fields are.
LEMMA ExchangeTyped ==
    ASSUME NEW st \in SUBSET Copies, NEW ph \in Phases, NEW todo \in SUBSET (Copies \union Messages),
           NEW haves \in SUBSET Copies, NEW hand \in Copies \union {NoCopy},
           ph \in HoldingPhases <=> hand # NoCopy,
           ph # "saving" => todo \subseteq st,
           hand # NoCopy => hand \in st \ Undecryptable,
           ph = "calling" => MessageIn[hand] \notin Ignored
    PROVE  ExchangeOK(Exchange(ph, todo, haves, hand), st)
<1>1. ASSUME NEW x, x = Exchange(ph, todo, haves, hand)
      PROVE  /\ x \in SessionType /\ x.phase = ph /\ x.todo = todo /\ x.hand = hand
  BY <1>1 DEF Exchange, SessionType
<1> QED
  BY <1>1 DEF ExchangeOK

\* Every step of a handler keeps the type invariant.
LEMMA HandlerTyped ==
    ASSUME TypeInv, NEW s \in Sessions, Handler(s)
    PROVE  TypeInv'
<1> DEFINE x == session[s]
<1>x. /\ x.todo \subseteq Copies \union Messages /\ x.haves \subseteq Copies
      /\ stored \in SUBSET Copies
      /\ x.phase # "saving" => x.todo \subseteq stored
      /\ x.phase \in HoldingPhases =>
           /\ x.hand \in stored \ Undecryptable
           /\ x.hand \in Copies /\ MessageIn[x.hand] \in Messages
      /\ x.phase = "calling" => MessageIn[x.hand] \notin Ignored
  BY ExchangeFacts
<1>c. /\ processed \subseteq Copies /\ processedFile \subseteq Copies
      /\ delivered \subseteq Copies \union Messages
      /\ deliveredFile \subseteq Copies \union Messages
      /\ acks \subseteq SUBSET Copies
  BY DEF TypeInv, ClientTypes
<1> USE DEF Phases, HoldingPhases
<1>1. CASE ListEmpty(s)
  <2>1. Become(s, Idle) /\ UNCHANGED <<nodeVars, cacheVars, appVars, acks>>
    BY <1>1 DEF ListEmpty
  <2> QED
    BY <1>c, <2>1, IdleOK, ExchangeMoves DEF cacheVars
<1>2. ASSUME NEW r \in BOOLEAN, AskForMessages(s, r) PROVE TypeInv'
  <2> DEFINE had == IF r THEN {} ELSE x.todo \intersect delivered
  <2>1. /\ x.phase = "listed" /\ Become(s, Exchange("getting", x.todo \ delivered, had, NoCopy))
        /\ UNCHANGED <<nodeVars, cacheVars, appVars, acks>>
    BY <1>2 DEF AskForMessages
  <2>2. x.todo \ delivered \subseteq stored /\ had \in SUBSET Copies
    BY <1>x, <2>1
  <2> HIDE DEF had, x
  <2>3. ExchangeOK(Exchange("getting", x.todo \ delivered, had, NoCopy), stored)
    BY <1>x, <2>2, ExchangeTyped, Zenon
  <2> QED
    BY <1>c, <2>1, <2>3, ExchangeMoves DEF cacheVars
<1>3. ASSUME NEW c \in Copies, TakePayload(s, c) PROVE TypeInv'
  <2> DEFINE left == x.todo \ {c}
             y == IF c \in Undecryptable \/ Unprocessed({c}, {}, processed) = {}
                  THEN Exchange("working", left, x.haves \union {c}, NoCopy)
                  ELSE Exchange("holding", left, x.haves, c)
  <2>1. /\ x.phase = "working" /\ c \in x.todo /\ Become(s, y)
        /\ processed' = processed \union {c}
        /\ UNCHANGED <<nodeVars, delivered, processedFile, deliveredFile, appVars, acks>>
    BY <1>3 DEF TakePayload
  <2>2. /\ left \subseteq stored /\ left \in SUBSET (Copies \union Messages) /\ c \in stored
        /\ x.haves \union {c} \in SUBSET Copies /\ x.haves \in SUBSET Copies /\ c # NoCopy
    BY <1>x, <2>1
  <2> HIDE DEF left, x
  <2>3. ExchangeOK(Exchange("working", left, x.haves \union {c}, NoCopy), stored)
    BY <1>x, <2>2, ExchangeTyped, Zenon
  <2>4. c \notin Undecryptable => ExchangeOK(Exchange("holding", left, x.haves, c), stored)
    BY <1>x, <2>2, ExchangeTyped, Zenon
  <2>5. ExchangeOK(y, stored)
    BY <2>3, <2>4
  <2> HIDE DEF y
  <2> QED
    BY <1>c, <2>1, <2>5, ExchangeMoves
<1>4. CASE MarkMessage(s)
  <2> DEFINE m == MessageIn[x.hand]
             ph == IF m \in delivered \union Ignored THEN "told" ELSE "calling"
  <2>1. /\ x.phase = "holding" /\ Become(s, Exchange(ph, x.todo, x.haves, x.hand))
        /\ delivered' = delivered \union ({m} \ Ignored)
        /\ UNCHANGED <<nodeVars, processed, processedFile, deliveredFile, appVars, acks>>
    BY <1>4 DEF MarkMessage
  <2>2. /\ x.todo \subseteq stored /\ x.hand \in stored \ Undecryptable /\ x.hand \in Copies
        /\ m \in Messages /\ ph \in {"told", "calling"} /\ (ph = "calling" => m \notin Ignored)
    BY <1>x, <2>1
  <2> HIDE DEF ph, x
  <2>3. ExchangeOK(Exchange(ph, x.todo, x.haves, x.hand), stored)
    BY <1>x, <2>2, ExchangeTyped
  <2> HIDE DEF m
  <2> QED
    BY <1>c, <2>1, <2>2, <2>3, ExchangeMoves
<1>5. CASE Callback(s)
  <2> DEFINE m == MessageIn[x.hand]
  <2>1. /\ x.phase = "calling" /\ Become(s, Exchange("told", x.todo, x.haves, x.hand))
        /\ calls' = [calls EXCEPT ![m] = @ + 1]
        /\ UNCHANGED <<nodeVars, cacheVars, abandoned, crashes, closes, acks>>
    BY <1>5 DEF Callback
  <2>2. /\ x.todo \subseteq stored /\ x.hand \in stored \ Undecryptable /\ x.hand \in Copies
        /\ m \in Messages \ Ignored
    BY <1>x, <2>1
  <2> HIDE DEF x
  <2>3. ExchangeOK(Exchange("told", x.todo, x.haves, x.hand), stored)
    BY <1>x, <2>2, ExchangeTyped, Zenon
  <2>4. stored' = stored /\ StoreInv'
    BY <2>1 DEF TypeInv, StoreInv, NodeTypeOK, nodeVars
  <2>5. ExchangesOK'
    BY <2>1, <2>3, <2>4, ExchangeStep, Zenon DEF TypeInv, Become
  <2>6. ClientTypes'
    BY <2>1, <2>2 DEF TypeInv, ClientTypes, cacheVars
  <2>7. OnlyWhatWasStored'
    <3>1. \A k \in Messages : k # m => calls'[k] = calls[k]
      BY <2>1 DEF TypeInv, ClientTypes
    <3>2. m \notin Ignored /\ \E c \in stored \ Undecryptable : MessageIn[c] = m
      BY <2>2
    <3> HIDE DEF m
    <3> QED
      BY <2>4, <3>1, <3>2 DEF TypeInv, OnlyWhatWasStored
  <2> QED
    BY <2>4, <2>5, <2>6, <2>7 DEF TypeInv
<1>6. CASE MarkCopy(s)
  <2>1. /\ x.phase = "told" /\ delivered' = delivered \union {x.hand}
        /\ Become(s, Exchange("working", x.todo, x.haves \union {x.hand}, NoCopy))
        /\ UNCHANGED <<nodeVars, processed, processedFile, deliveredFile, appVars, acks>>
    BY <1>6 DEF MarkCopy
  <2>2. x.todo \subseteq stored /\ x.hand \in Copies /\ x.haves \union {x.hand} \in SUBSET Copies
    BY <1>x, <2>1
  <2> HIDE DEF x
  <2>3. ExchangeOK(Exchange("working", x.todo, x.haves \union {x.hand}, NoCopy), stored)
    BY <1>x, <2>2, ExchangeTyped, Zenon
  <2> QED
    BY <1>c, <2>1, <2>2, <2>3, ExchangeMoves
<1>7. CASE Complete(s)
  <2>1. /\ Become(s, Exchange("saving", delivered, {}, NoCopy))
        /\ acks' \subseteq acks \union {x.haves}
        /\ UNCHANGED <<nodeVars, cacheVars, appVars>>
    BY <1>7 DEF Complete, Reported
  <2> HIDE DEF x
  <2>2. ExchangeOK(Exchange("saving", delivered, {}, NoCopy), stored)
    BY <1>x, <1>c, ExchangeTyped, Zenon
  <2>3. acks' \subseteq SUBSET Copies
    BY <1>x, <1>c, <2>1
  <2> QED
    BY <1>c, <2>1, <2>2, <2>3, ExchangeMoves DEF cacheVars
<1>8. CASE Save(s)
  <2>1. /\ Become(s, Idle) /\ deliveredFile' \in {deliveredFile, x.todo}
        /\ UNCHANGED <<nodeVars, processed, delivered, processedFile, appVars, acks>>
    BY <1>8 DEF Save
  <2>2. deliveredFile' \subseteq Copies \union Messages
    BY <1>x, <1>c, <2>1
  <2> QED
    BY <1>c, <2>1, <2>2, IdleOK, ExchangeMoves
<1> QED
  BY <1>1, <1>2, <1>3, <1>4, <1>5, <1>6, <1>7, <1>8 DEF Handler

\* A stop of the client: its exchanges are gone, what they held is recorded.
LEMMA StopTyped ==
    ASSUME TypeInv, StartAgain, crashes' \in Nat, closes' \in Nat,
           crashes' + closes' = crashes + closes + 1,
           processedFile' \subseteq Copies, deliveredFile' \subseteq Copies \union Messages
    PROVE  TypeInv'
<1>1. /\ processed' = processedFile' /\ delivered' = deliveredFile'
      /\ abandoned' = abandoned \union AllInHand /\ session' = [s \in Sessions |-> Idle]
      /\ UNCHANGED <<nodeVars, calls, acks>> /\ crashes + closes < MaxStops
  BY DEF StartAgain
<1>2. AllInHand \subseteq Messages
  <2>1. ASSUME NEW s \in Sessions PROVE InHand(s) \subseteq Messages
    <3>1. session[s].phase \in {"holding", "calling"} => MessageIn[session[s].hand] \in Messages
      BY ExchangeFacts DEF HoldingPhases
    <3> QED
      BY <3>1 DEF InHand
  <2> QED
    BY <2>1 DEF AllInHand
<1>3. crashes' + closes' <= MaxStops
  <2>1. crashes \in Nat /\ closes \in Nat /\ MaxStops \in Nat
    BY DEF TypeInv, ClientTypes
  <2>2. crashes + closes < MaxStops
    BY <1>1
  <2> QED
    BY ONLY <2>1, <2>2, crashes' + closes' = crashes + closes + 1
<1>4. ClientTypes'
  BY <1>1, <1>2, <1>3, Zenon DEF TypeInv, ClientTypes
<1>5. stored' = stored /\ StoreInv'
  BY <1>1 DEF TypeInv, StoreInv, NodeTypeOK, nodeVars
<1>6. ExchangesOK'
  <2>1. \A s \in Sessions : session'[s] = Idle
    BY <1>1
  <2>2. session' = [s \in Sessions |-> session'[s]]
    BY <1>1
  <2> QED
    BY <2>1, <2>2, IdleOK DEF ExchangesOK
<1>7. OnlyWhatWasStored'
  BY <1>1, <1>5 DEF TypeInv, OnlyWhatWasStored
<1> QED
  BY <1>4, <1>5, <1>6, <1>7 DEF TypeInv

\* Every step of the node and the client keeps the type invariant.
LEMMA TypeStep ==
    ASSUME TypeInv, [Next]_vars
    PROVE  TypeInv'
<1>c. /\ processed \subseteq Copies /\ processedFile \subseteq Copies
      /\ delivered \subseteq Copies \union Messages
      /\ deliveredFile \subseteq Copies \union Messages
      /\ crashes \in Nat /\ closes \in Nat
      /\ acks \subseteq SUBSET Copies /\ stored \in SUBSET Copies /\ entries \subseteq stored
  BY DEF TypeInv, ClientTypes, StoreInv, NodeTypeOK
<1>1. CASE NodeNext /\ ClientUnchanged
  <2>1. StoreInv' /\ stored \subseteq stored'
    BY <1>1, StoreStep DEF TypeInv
  <2>2. UNCHANGED <<cacheVars, appVars, session, acks>>
    BY <1>1 DEF ClientUnchanged
  <2>3. ClientTypes'
    BY <2>2 DEF TypeInv, ClientTypes, cacheVars, appVars
  <2>4. ExchangesOK'
    <3>1. \A t \in Sessions : ExchangeOK(session[t], stored')
      BY <2>1 DEF TypeInv, ExchangesOK, ExchangeOK
    <3> QED
      BY <2>2, <3>1 DEF TypeInv, ExchangesOK
  <2>5. OnlyWhatWasStored'
    BY <2>1, <2>2 DEF TypeInv, OnlyWhatWasStored, appVars
  <2> QED
    BY <2>1, <2>3, <2>4, <2>5 DEF TypeInv
<1>2. ASSUME NEW s \in Sessions, Begin(s) PROVE TypeInv'
  <2>1. /\ Become(s, Exchange("listing", {}, {}, NoCopy))
        /\ UNCHANGED <<nodeVars, cacheVars, appVars, acks>>
    BY <1>2 DEF Begin
  <2>2. ExchangeOK(Exchange("listing", {}, {}, NoCopy), stored)
    BY <1>c, ExchangeTyped, Zenon DEF Phases, HoldingPhases
  <2> QED
    BY <1>c, <2>1, <2>2, ExchangeMoves DEF cacheVars
<1>3. CASE LinkLost
  <2>1. UNCHANGED <<nodeVars, cacheVars, appVars, acks>>
    BY <1>3 DEF LinkLost
  <2>2. StoreInv' /\ stored' = stored
    BY <2>1 DEF TypeInv, StoreInv, NodeTypeOK, nodeVars
  <2>3. ClientTypes' /\ OnlyWhatWasStored'
    BY <2>1, <2>2 DEF TypeInv, ClientTypes, OnlyWhatWasStored, cacheVars, appVars
  <2>4. \A s \in Sessions : session'[s] \in {Idle, session[s]}
    BY <1>3 DEF LinkLost
  <2>5. session' = [s \in Sessions |-> session'[s]]
    BY <1>3 DEF LinkLost
  <2>6. \A s \in Sessions : ExchangeOK(session[s], stored)
    BY DEF TypeInv, ExchangesOK
  <2>7. ExchangesOK'
    BY <2>2, <2>4, <2>5, <2>6, IdleOK DEF ExchangesOK
  <2> QED
    BY <2>2, <2>3, <2>7 DEF TypeInv
<1>4. ASSUME NEW s \in Sessions, NodeLists(s) PROVE TypeInv'
  <2>1. /\ Become(s, Exchange("listed", entries, {}, NoCopy))
        /\ UNCHANGED <<nodeVars, cacheVars, appVars, acks>>
    BY <1>4 DEF NodeLists
  <2>2. entries \in SUBSET (Copies \union Messages)
    BY <1>c
  <2>3. ExchangeOK(Exchange("listed", entries, {}, NoCopy), stored)
    BY <1>c, <2>2, ExchangeTyped, Zenon DEF Phases, HoldingPhases
  <2> QED
    BY <1>c, <2>1, <2>3, ExchangeMoves DEF cacheVars
<1>5. ASSUME NEW s \in Sessions, NEW served \in SUBSET Copies, NEW removed \in BOOLEAN,
             NodeServes(s, served, removed)
      PROVE TypeInv'
  <2>1. /\ Purge(session[s].haves, removed) /\ served \subseteq entries
        /\ session' = [session EXCEPT ![s] = Exchange("working", served, {}, NoCopy)]
        /\ UNCHANGED <<cacheVars, appVars, acks>>
    BY <1>5 DEF NodeServes, Become
  <2>2. StoreInv' /\ stored' = stored
    BY <2>1, PurgeStep DEF TypeInv
  <2>3. served \subseteq stored /\ served \in SUBSET (Copies \union Messages)
    BY <1>c, <2>1
  <2>4. ExchangeOK(Exchange("working", served, {}, NoCopy), stored)
    BY <1>c, <2>3, ExchangeTyped, Zenon DEF Phases, HoldingPhases
  <2>5. ExchangesOK'
    BY <2>1, <2>2, <2>4, ExchangeStep, Zenon DEF TypeInv
  <2>6. ClientTypes' /\ OnlyWhatWasStored'
    BY <2>1, <2>2 DEF TypeInv, ClientTypes, OnlyWhatWasStored, cacheVars, appVars
  <2> QED
    BY <2>2, <2>5, <2>6 DEF TypeInv
<1>6. ASSUME NEW haves \in acks, NEW removed \in BOOLEAN, NodePurges(haves, removed)
      PROVE TypeInv'
  <2>1. /\ Purge(haves, removed) /\ acks' \subseteq acks
        /\ UNCHANGED <<cacheVars, appVars, session>>
    BY <1>6 DEF NodePurges
  <2>2. StoreInv' /\ stored' = stored
    BY <2>1, PurgeStep DEF TypeInv
  <2>3. ClientTypes' /\ OnlyWhatWasStored'
    BY <2>1, <2>2 DEF TypeInv, ClientTypes, OnlyWhatWasStored, cacheVars, appVars
  <2>4. ExchangesOK'
    BY <2>1, <2>2 DEF TypeInv, ExchangesOK
  <2> QED
    BY <2>2, <2>3, <2>4 DEF TypeInv
<1>7. ASSUME NEW s \in Sessions, Handler(s) PROVE TypeInv'
  BY <1>7, HandlerTyped
<1>8. CASE Crash
  <2>1. /\ StartAgain /\ crashes' = crashes + 1
        /\ UNCHANGED <<processedFile, deliveredFile, closes>>
    BY <1>8 DEF Crash
  <2> QED
    BY <1>c, <2>1, StopTyped
<1>9. CASE CloseAndStart
  <2>1. /\ StartAgain /\ closes' = closes + 1 /\ crashes' = crashes
        /\ processedFile' \in {processed, processedFile}
        /\ deliveredFile' \in {delivered, deliveredFile}
    BY <1>9 DEF CloseAndStart, SavedOr
  <2>2. processedFile' \subseteq Copies /\ deliveredFile' \subseteq Copies \union Messages
    BY <1>c, <2>1
  <2> QED
    BY <1>c, <2>1, <2>2, StopTyped
<1>10. CASE UNCHANGED vars
  <2>1. UNCHANGED <<nodeVars, cacheVars, appVars, session, acks>>
    BY <1>10 DEF vars
  <2>2. StoreInv' /\ stored' = stored
    BY <2>1 DEF TypeInv, StoreInv, NodeTypeOK, nodeVars
  <2>3. ClientTypes' /\ OnlyWhatWasStored'
    BY <2>1, <2>2 DEF TypeInv, ClientTypes, OnlyWhatWasStored, cacheVars, appVars
  <2>4. ExchangesOK'
    BY <2>1, <2>2 DEF TypeInv, ExchangesOK
  <2> QED
    BY <2>2, <2>3, <2>4 DEF TypeInv
<1> QED
  BY <1>1, <1>2, <1>3, <1>4, <1>5, <1>6, <1>7, <1>8, <1>9, <1>10 DEF Next

LEMMA TypeInvariant == Spec => []TypeInv
<1>1. Init => TypeInv
  <2> SUFFICES ASSUME Init PROVE TypeInv
    OBVIOUS
  <2>1. StoreInv
    BY NodeAssumption DEF Init, NodeInit, StoreInv, NodeTypeOK
  <2>2. ClientTypes /\ OnlyWhatWasStored
    BY DEF Init, ClientTypes, OnlyWhatWasStored
  <2>3. ExchangesOK
    BY IdleOK DEF Init, ExchangesOK
  <2> QED
    BY <2>1, <2>2, <2>3 DEF TypeInv
<1> QED
  BY <1>1, TypeStep, PTL DEF Spec

\* The type invariant of the node and the client, for any number of copies, messages,
\* exchanges, faults and stops.
THEOREM SyncTypeCorrect == Spec => []TypeOK
<1>1. TypeInv => TypeOK
  <2> SUFFICES ASSUME TypeInv PROVE TypeOK
    OBVIOUS
  <2>1. \A s \in Sessions : session[s] \in SessionType
    BY DEF TypeInv, ExchangesOK, ExchangeOK
  <2>2. session \in [Sessions -> SessionType]
    BY <2>1 DEF TypeInv, ExchangesOK
  <2>3. \A s \in Sessions : session[s].phase \in {"holding", "calling", "told"}
                             <=> session[s].hand # NoCopy
    BY DEF TypeInv, ExchangesOK, ExchangeOK, HoldingPhases
  <2>4. crashes + closes \in 0 .. MaxStops
    BY DEF TypeInv, ClientTypes
  <2> QED
    BY <2>2, <2>3, <2>4 DEF TypeInv, ClientTypes, StoreInv, TypeOK
<1> QED
  BY <1>1, TypeInvariant, PTL

\* The application is only ever given messages of decryptable copies that
\* storePropagationMessageStamped had stored, and none of an ignored source.
THEOREM NothingElseIsHandedOver == Spec => []OnlyWhatWasStored
<1>1. TypeInv => OnlyWhatWasStored
  BY DEF TypeInv
<1> QED
  BY <1>1, TypeInvariant, PTL
=============================================================================
