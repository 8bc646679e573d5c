---------------------------- MODULE SignalProofs ----------------------------
(***************************************************************************)
(* Signal for any connections and any number of concurrent emissions: what *)
(* emit() owes its listeners, that a disconnected callback is not called   *)
(* again, and that a pending single shot is consumed once.                 *)
(***************************************************************************)
EXTENDS Signal, FiniteSetTheorems, TLAPS

Types ==
    /\ connections \in Seq(Conns) /\ IsInjective(connections)
    /\ connected \in [Conns -> BOOLEAN] /\ claimed \in [Conns -> BOOLEAN]
    /\ owner \in Conns \cup Emissions \cup {Mutex, All}
    /\ stage \in Stages /\ subject \subseteq Conns
    /\ kpc \in [Conns -> {"new", "connecting", "on", "disconnecting", "off", "rejected"}]
    /\ epc \in [Emissions -> {"idle", "snapshot", "mode", "walk", "remove", "call", "done", "skipped"}]
    /\ snap \in [Emissions -> Seq(Conns)] /\ idx \in [Emissions -> Nat \ {0}]
    /\ slow \in [Emissions -> BOOLEAN]
    /\ fired \in [Conns -> SUBSET Emissions]
    /\ on \in [Emissions -> SUBSET Conns] /\ off \in [Emissions -> SUBSET Conns]

(* What the owner of writeMutex is doing.                                    *)
Holder ==
    /\ owner = Mutex <=> stage = "none"
    /\ owner = Mutex => subject = {}
    /\ stage # "none" => alive
    /\ stage \in {"connect_publish", "connect_count"} =>
          owner \in Conns /\ subject = {owner} /\ kpc[owner] = "connecting" /\ connected[owner]
    /\ stage = "connect_publish" => owner \notin Listed
    /\ stage = "connect_count" => owner \in Listed
    /\ stage \in {"count", "single", "flag"} => \E c \in Conns : subject = {c} /\ Asks(owner, c)
    /\ stage \in {"all_count", "all_single", "all_flag"} => owner = All
    /\ stage \notin {"none", "connect_publish", "connect_count"} => subject \cap Listed = {}

(* How the list, the handles' flags and the clients agree, at every step of  *)
(* every store: an entry is connected and its client has not let go of it;   *)
(* a flag without an entry belongs to whoever holds the mutex.               *)
ListSound ==
    /\ ~alive => connections = << >>
    /\ \A c \in Conns : kpc[c] = "connecting" => owner = c
    /\ \A c \in Listed : connected[c] /\ kpc[c] \notin {"new", "rejected", "off"}
    /\ \A c \in Conns : connected[c] => c \in Listed \cup subject

(* An emission before, during and after its walk.                            *)
Walks ==
    \A e \in Emissions :
        /\ epc[e] = "idle" => on[e] = {} /\ off[e] = {}
        /\ epc[e] \in {"idle", "snapshot"} => snap[e] = << >>
        /\ epc[e] \in {"idle", "snapshot", "mode"} => idx[e] = 1 /\ \A c \in Conns : e \notin fired[c]
        /\ epc[e] \in {"remove", "call"} => ~AtEnd(e) /\ ToClaim(e)
        /\ \A c \in Range(snap[e]) : kpc[c] \notin {"new", "rejected"}

(* What was disconnected before an emission began is out of its reach.       *)
OutOfReach ==
    \A e \in Emissions : \A c \in off[e] :
        kpc[c] = "off" /\ c \notin Range(snap[e]) /\ e \notin fired[c]

(* An emission on the single-shot path that called c, or is about to.        *)
Won(e, c) == slow[e] /\ (e \in fired[c] \/ (epc[e] \in {"remove", "call"} /\ At(e) = c))

OneWinner ==
    /\ \A c \in Single : \A e \in Emissions : Won(e, c) => claimed[c]
    /\ \A c \in Single : \A e, f \in Emissions : Won(e, c) /\ Won(f, c) => e = f
    /\ \A e \in Emissions : epc[e] = "call" => ~connected[At(e)]

(* connectionCount, at every step of every store.                            *)
Counted ==
    /\ connectionCount \in Nat
    /\ stage \notin {"connect_count", "count", "all_count"} => connectionCount = Len(connections)
    /\ stage = "connect_count" => connectionCount = Len(connections) - 1
    /\ stage = "count" => connectionCount = Len(connections) + 1
    /\ stage \in {"all_count", "all_single", "all_flag"} => connections = << >>

(* Up to its position an emission has called every ordinary callback of its  *)
(* snapshot, and the snapshot has all that were connected before and still are. *)
SoFar ==
    \A e \in Emissions :
        /\ \A c \in on[e] : kpc[c] \notin {"new", "connecting", "rejected"}
        /\ epc[e] \in {"mode", "walk", "remove", "call"} => on[e] \cap Listed \subseteq Range(snap[e])
        /\ idx[e] <= Len(snap[e]) + 1
        /\ \A i \in 1..(idx[e] - 1) : snap[e][i] \in Single \/ e \in fired[snap[e][i]]

SignalInv ==
    Types /\ Holder /\ ListSound /\ Walks /\ OutOfReach /\ OneWinner /\ Counted /\ SoFar /\ Delivered

-----------------------------------------------------------------------------
(* Facts about the list *)

(* push_back(): one more entry, at the end.                                  *)
LEMMA AppendIs ==
    ASSUME connections \in Seq(Conns), IsInjective(connections), NEW c \in Conns, c \notin Listed
    PROVE  LET l == Append(connections, c) IN
           /\ l \in Seq(Conns) /\ IsInjective(l) /\ Range(l) = Listed \cup {c}
           /\ Len(l) = Len(connections) + 1
<1> DEFINE l == Append(connections, c)
           n == Len(connections)
<1>1. n \in Nat /\ DOMAIN connections = 1..n /\ l \in Seq(Conns) /\ Len(l) = n + 1 /\ DOMAIN l = 1..(n + 1)
  OBVIOUS
<1>2. \A i \in 1..n : l[i] = connections[i] /\ l[i] # c
  BY <1>1 DEF Listed, Range
<1>3. l[n + 1] = c
  BY <1>1
<1>4. IsInjective(l)
  <2> SUFFICES ASSUME NEW a \in 1..(n + 1), NEW b \in 1..(n + 1), l[a] = l[b] PROVE a = b
    BY <1>1 DEF IsInjective
  <2> (a \in 1..n \/ a = n + 1) /\ (b \in 1..n \/ b = n + 1)
    BY <1>1
  <2> QED
    BY <1>1, <1>2, <1>3 DEF IsInjective
<1>5. Range(l) = Listed \cup {c}
  <2> \A i \in 1..(n + 1) : i \in 1..n \/ i = n + 1
    BY <1>1
  <2> 1..n \subseteq 1..(n + 1) /\ n + 1 \in 1..(n + 1)
    BY <1>1
  <2> QED
    BY <1>1, <1>2, <1>3 DEF Range, Listed
<1> QED
  BY <1>1, <1>4, <1>5

(* disconnectState() publishes the list without the entry it found.          *)
LEMMA NotItIs ==
    ASSUME connections \in Seq(Conns), IsInjective(connections), NEW c \in Listed
    PROVE  /\ NotIt(c) \in Seq(Conns) /\ IsInjective(NotIt(c)) /\ Range(NotIt(c)) = Listed \ {c}
           /\ Len(NotIt(c)) = Len(connections) - 1
<1> DEFINE k == CHOOSE j \in DOMAIN connections : connections[j] = c
           n == Len(connections)
           l == NotIt(c)
<1>1. n \in Nat /\ DOMAIN connections = 1..n
  OBVIOUS
<1>2. k \in 1..n /\ connections[k] = c
  BY <1>1 DEF Listed, Range
<1>3. l = [j \in 1..(n - 1) |-> connections[IF j < k THEN j ELSE j + 1]]
  BY DEF NotIt
<1> HIDE DEF k, l
<1>4. n - 1 \in Nat /\ \A i \in 1..(n - 1) : l[i] = connections[IF i < k THEN i ELSE i + 1] /\ l[i] \in Conns
  BY <1>1, <1>2, <1>3
<1>5. l \in Seq(Conns) /\ Len(l) = n - 1 /\ DOMAIN l = 1..(n - 1)
  BY <1>3, <1>4
<1>6. IsInjective(l)
  BY <1>1, <1>2, <1>4, <1>5 DEF IsInjective
<1>7. Range(l) = Listed \ {c}
  <2>1. ASSUME NEW d \in Range(l) PROVE d \in Listed \ {c}
    <3> PICK i \in 1..(n - 1) : d = l[i]
      BY <1>5 DEF Range
    <3> DEFINE m == IF i < k THEN i ELSE i + 1
    <3> m \in 1..n /\ m # k /\ d = connections[m]
      BY <1>1, <1>2, <1>4
    <3> QED
      BY <1>1, <1>2 DEF IsInjective, Listed, Range
  <2>2. ASSUME NEW d \in Listed, d # c PROVE d \in Range(l)
    <3> PICK m \in 1..n : d = connections[m]
      BY <1>1 DEF Listed, Range
    <3> DEFINE i == IF m < k THEN m ELSE m - 1
    <3> m # k
      BY <1>2, <2>2
    <3> i \in 1..(n - 1) /\ d = l[i]
      BY <1>1, <1>2, <1>4
    <3> QED
      BY <1>5 DEF Range
  <2> QED
    BY <2>1, <2>2
<1> QED
  BY <1>5, <1>6, <1>7 DEF l

-----------------------------------------------------------------------------
(* Every step keeps every part. *)

(* The types. *)
LEMMA TypeKeeps ==
    ASSUME SignalInv, [Next]_vars
    PROVE  Types'
<1> USE DEF SignalInv, Types, Stages, listVars, mutexVars, emitVars, EmitFrame
<1>1. ASSUME NEW c \in Conns, ConnectRefused(c) PROVE Types'
  BY <1>1 DEF ConnectRefused
<1>2. ASSUME NEW c \in Conns, Connect(c) PROVE Types'
  BY <1>2 DEF Connect, Lock
<1>3. ASSUME NEW c \in Conns, ConnectPublish(c) PROVE Types'
  BY <1>3, AppendIs DEF ConnectPublish, Holder, GoOn
<1>4. ASSUME NEW c \in Conns, ConnectCount(c) PROVE Types'
  BY <1>4 DEF ConnectCount, Unlock
<1>5. ASSUME NEW c \in Conns, ClientDisconnect(c) PROVE Types'
  BY <1>5 DEF ClientDisconnect
<1>6. ASSUME NEW p \in Conns \cup Emissions, NEW c \in Conns, DisconnectMissing(p, c) PROVE Types'
  BY <1>6 DEF DisconnectMissing, Return
<1>7. ASSUME NEW p \in Conns \cup Emissions, NEW c \in Conns, DisconnectPublish(p, c) PROVE Types'
  BY <1>7, NotItIs DEF DisconnectPublish, Lock
<1>8. ASSUME NEW e \in Emissions, EmitTest(e) PROVE Types'
  BY <1>8 DEF EmitTest, GoEmit
<1>9. ASSUME NEW e \in Emissions, EmitSnapshot(e) PROVE Types'
  BY <1>9 DEF EmitSnapshot, GoEmit
<1>10. ASSUME NEW e \in Emissions, EmitMode(e) PROVE Types'
  BY <1>10 DEF EmitMode, GoEmit
<1>11. ASSUME NEW e \in Emissions, EmitPlain(e) PROVE Types'
  BY <1>11 DEF EmitPlain, AtEnd, ToClaim, At, Fire, GoEmit
<1>12. ASSUME NEW e \in Emissions, EmitClaim(e) PROVE Types'
  <2>1. At(e) \in Conns
    BY <1>12 DEF EmitClaim, AtEnd, At
  <2>2. claimed' \in [Conns -> BOOLEAN]
    BY <1>12, <2>1 DEF EmitClaim
  <2>3. idx' = idx \/ idx' = [idx EXCEPT ![e] = @ + 1]
    BY <1>12 DEF EmitClaim
  <2>4. epc' = epc \/ epc' = [epc EXCEPT ![e] = "remove"]
    BY <1>12 DEF EmitClaim, GoEmit
  <2>5. UNCHANGED <<listVars, mutexVars, kpc, snap, slow, fired, on, off>>
    BY <1>12 DEF EmitClaim
  <2>6. idx' \in [Emissions -> Nat \ {0}]
    <3>1. idx \in [Emissions -> Nat \ {0}]
      OBVIOUS
    <3> HIDE DEF SignalInv
    <3>2. idx[e] + 1 \in Nat \ {0}
      BY <3>1
    <3> QED
      BY <2>3, <3>1, <3>2
  <2>7. epc' \in [Emissions -> {"idle", "snapshot", "mode", "walk", "remove", "call", "done", "skipped"}]
    BY <2>4
  <2> QED
    BY <2>2, <2>5, <2>6, <2>7
<1>13. ASSUME NEW e \in Emissions, EmitCall(e) PROVE Types'
  BY <1>13 DEF EmitCall, AtEnd, At, Walks, Fire, GoEmit
<1>14. ASSUME NEW e \in Emissions, EmitDone(e) PROVE Types'
  BY <1>14 DEF EmitDone, GoEmit
<1>15. CASE DisconnectCount
  BY <1>15 DEF DisconnectCount, GoOn
<1>16. CASE DisconnectSingle
  BY <1>16 DEF DisconnectSingle, GoOn
<1>17. CASE DisconnectFlag
  BY <1>17 DEF DisconnectFlag, Holder, Unlock, Return
<1>18. CASE AllPublish
  BY <1>18 DEF AllPublish, Listed, Range, IsInjective, Lock
<1>19. CASE AllCount
  BY <1>19 DEF AllCount, GoOn
<1>20. CASE AllSingle
  BY <1>20 DEF AllSingle, GoOn
<1>21. CASE AllFlag
  BY <1>21 DEF AllFlag, Unlock
<1>22. CASE Destroy
  BY <1>22 DEF Destroy, IsInjective
<1>23. CASE BlockSignals
  BY <1>23 DEF BlockSignals
<1>24. CASE UNCHANGED vars
  BY <1>24 DEF vars
<1> QED
  BY <1>1, <1>2, <1>3, <1>4, <1>5, <1>6, <1>7, <1>8, <1>9, <1>10, <1>11, <1>12, <1>13, <1>14, <1>15, <1>16, <1>17, <1>18, <1>19, <1>20, <1>21, <1>22, <1>23, <1>24 DEF Next, Client, Emit, InDisconnect, DisconnectAll

(* The mutex and its owner. *)
LEMMA HolderKeeps ==
    ASSUME SignalInv, [Next]_vars
    PROVE  Holder'
<1> USE DEF SignalInv, Types, Stages, Holder, ListSound, Asks, Listed, listVars, mutexVars, emitVars, EmitFrame
<1>1. ASSUME NEW c \in Conns, ConnectRefused(c) PROVE Holder'
  BY <1>1, SignalAssumption DEF ConnectRefused, SignalAssumption
<1>2. ASSUME NEW c \in Conns, Connect(c) PROVE Holder'
  BY <1>2, SignalAssumption DEF Connect, SignalAssumption, Lock
<1>3. ASSUME NEW c \in Conns, ConnectPublish(c) PROVE Holder'
  BY <1>3, AppendIs, SignalAssumption DEF ConnectPublish, SignalAssumption, GoOn
<1>4. ASSUME NEW c \in Conns, ConnectCount(c) PROVE Holder'
  BY <1>4, SignalAssumption DEF ConnectCount, SignalAssumption, Unlock
<1>5. ASSUME NEW c \in Conns, ClientDisconnect(c) PROVE Holder'
  BY <1>5, SignalAssumption DEF ClientDisconnect, SignalAssumption
<1>6. ASSUME NEW p \in Conns \cup Emissions, NEW c \in Conns, DisconnectMissing(p, c) PROVE Holder'
  BY <1>6, SignalAssumption DEF DisconnectMissing, SignalAssumption, Return
<1>7. ASSUME NEW p \in Conns \cup Emissions, NEW c \in Conns, DisconnectPublish(p, c) PROVE Holder'
  BY <1>7, NotItIs, SignalAssumption DEF DisconnectPublish, SignalAssumption, Lock
<1>8. ASSUME NEW e \in Emissions, EmitTest(e) \/ EmitSnapshot(e) \/ EmitMode(e) \/ EmitPlain(e) \/ EmitClaim(e) \/ EmitCall(e) \/ EmitDone(e) PROVE Holder'
  <2>1. UNCHANGED <<listVars, mutexVars, kpc>>
    BY <1>8 DEF EmitTest, EmitSnapshot, EmitMode, EmitPlain, EmitClaim, EmitCall, EmitDone, Fire
  <2>2. \A f \in Emissions : epc[f] = "remove" => epc'[f] = "remove" /\ snap'[f] = snap[f] /\ idx'[f] = idx[f]
    BY <1>8 DEF EmitTest, EmitSnapshot, EmitMode, EmitPlain, EmitClaim, EmitCall, EmitDone, Fire, GoEmit
  <2> QED
    BY <2>1, <2>2, SignalAssumption DEF SignalAssumption
<1>9. CASE DisconnectCount
  BY <1>9, SignalAssumption DEF DisconnectCount, SignalAssumption, GoOn
<1>10. CASE DisconnectSingle
  BY <1>10, SignalAssumption DEF DisconnectSingle, SignalAssumption, GoOn
<1>11. CASE DisconnectFlag
  BY <1>11, SignalAssumption DEF DisconnectFlag, SignalAssumption, Unlock, Return
<1>12. CASE AllPublish
  BY <1>12, SignalAssumption DEF AllPublish, Range, SignalAssumption, Lock
<1>13. CASE AllCount
  BY <1>13, SignalAssumption DEF AllCount, SignalAssumption, GoOn
<1>14. CASE AllSingle
  BY <1>14, SignalAssumption DEF AllSingle, SignalAssumption, GoOn
<1>15. CASE AllFlag
  BY <1>15, SignalAssumption DEF AllFlag, SignalAssumption, Unlock
<1>16. CASE Destroy
  BY <1>16, SignalAssumption DEF Destroy, Range, SignalAssumption
<1>17. CASE BlockSignals
  BY <1>17, SignalAssumption DEF BlockSignals, SignalAssumption
<1>18. CASE UNCHANGED vars
  BY <1>18 DEF vars
<1> QED
  BY <1>1, <1>2, <1>3, <1>4, <1>5, <1>6, <1>7, <1>8, <1>9, <1>10, <1>11, <1>12, <1>13, <1>14, <1>15, <1>16, <1>17, <1>18 DEF Next, Client, Emit, InDisconnect, DisconnectAll

(* The list, the flags and the clients. *)
LEMMA ListKeeps ==
    ASSUME SignalInv, [Next]_vars
    PROVE  ListSound'
<1> USE DEF SignalInv, Types, Stages, Holder, ListSound, Asks, Listed, listVars, mutexVars, emitVars, EmitFrame
<1>1. ASSUME NEW c \in Conns, ConnectRefused(c) PROVE ListSound'
  BY <1>1, SignalAssumption DEF ConnectRefused, SignalAssumption
<1>2. ASSUME NEW c \in Conns, Connect(c) PROVE ListSound'
  BY <1>2, SignalAssumption DEF Connect, SignalAssumption, Lock
<1>3. ASSUME NEW c \in Conns, ConnectPublish(c) PROVE ListSound'
  BY <1>3, AppendIs, SignalAssumption DEF ConnectPublish, SignalAssumption, GoOn
<1>4. ASSUME NEW c \in Conns, ConnectCount(c) PROVE ListSound'
  BY <1>4, SignalAssumption DEF ConnectCount, SignalAssumption, Unlock
<1>5. ASSUME NEW c \in Conns, ClientDisconnect(c) PROVE ListSound'
  BY <1>5, SignalAssumption DEF ClientDisconnect, SignalAssumption
<1>6. ASSUME NEW p \in Conns \cup Emissions, NEW c \in Conns, DisconnectMissing(p, c) PROVE ListSound'
  <2>1. c \notin Listed
    BY <1>6 DEF DisconnectMissing, Range
  <2>2. CASE p \in Conns
    <3>1. p = c
      BY <1>6, <2>2, SignalAssumption DEF DisconnectMissing, SignalAssumption
    <3>2. \A d \in Conns : kpc'[d] = IF d = c THEN "off" ELSE kpc[d]
      BY <1>6, <2>2, <3>1 DEF DisconnectMissing, Return
    <3>3. UNCHANGED <<connections, alive, connected, owner, subject>> /\ Listed \subseteq Conns
      BY <1>6 DEF DisconnectMissing, Range
    <3> QED
      BY <2>1, <3>2, <3>3
  <2>3. CASE p \notin Conns
    BY <1>6, <2>3 DEF DisconnectMissing, Return
  <2> QED
    BY <2>2, <2>3
<1>7. ASSUME NEW p \in Conns \cup Emissions, NEW c \in Conns, DisconnectPublish(p, c) PROVE ListSound'
  BY <1>7, NotItIs, SignalAssumption DEF DisconnectPublish, SignalAssumption, Lock
<1>8. ASSUME NEW e \in Emissions, EmitTest(e) \/ EmitSnapshot(e) \/ EmitMode(e) \/ EmitPlain(e) \/ EmitClaim(e) \/ EmitCall(e) \/ EmitDone(e) PROVE ListSound'
  BY <1>8, SignalAssumption DEF EmitTest, EmitSnapshot, EmitMode, EmitPlain, EmitClaim, EmitCall, EmitDone, SignalAssumption, AtEnd, GoEmit, Fire
<1>9. CASE DisconnectCount
  BY <1>9, SignalAssumption DEF DisconnectCount, SignalAssumption, GoOn
<1>10. CASE DisconnectSingle
  BY <1>10, SignalAssumption DEF DisconnectSingle, SignalAssumption, GoOn
<1>11. CASE DisconnectFlag
  <2>1. \A d \in Conns : connected'[d] <=> (connected[d] /\ d \notin subject)
    BY <1>11 DEF DisconnectFlag
  <2>2. UNCHANGED <<connections, alive>> /\ Listed' = Listed /\ subject \cap Listed = {}
    BY <1>11 DEF DisconnectFlag
  <2>3. \A d \in Conns : kpc'[d] = kpc[d] \/ (d \in subject /\ kpc'[d] = "off")
    BY <1>11, SignalAssumption DEF DisconnectFlag, Return, SignalAssumption
  <2>4. owner' = Mutex /\ \A d \in Conns : kpc[d] # "connecting"
    BY <1>11, SignalAssumption DEF DisconnectFlag, Unlock, SignalAssumption
  <2>5. Listed \subseteq Conns
    BY DEF Range
  <2> QED
    BY <2>1, <2>2, <2>3, <2>4, <2>5
<1>12. CASE AllPublish
  <2>1. Listed' = {} /\ subject' = Listed /\ Listed \subseteq Conns
    BY <1>12 DEF AllPublish, Lock, Range
  <2>2. owner = Mutex /\ alive /\ UNCHANGED <<alive, connected, kpc>>
    BY <1>12 DEF AllPublish, Lock
  <2> QED
    BY <2>1, <2>2, SignalAssumption DEF SignalAssumption
<1>13. CASE AllCount
  BY <1>13, SignalAssumption DEF AllCount, SignalAssumption, GoOn
<1>14. CASE AllSingle
  BY <1>14, SignalAssumption DEF AllSingle, SignalAssumption, GoOn
<1>15. CASE AllFlag
  <2>1. \A d \in Conns : connected'[d] <=> (connected[d] /\ d \notin subject)
    BY <1>15 DEF AllFlag
  <2>2. UNCHANGED <<connections, alive>> /\ Listed' = Listed /\ subject \cap Listed = {}
    BY <1>15 DEF AllFlag
  <2>3. \A d \in Conns : kpc'[d] = kpc[d] \/ (d \in subject /\ kpc'[d] = "off")
    BY <1>15, SignalAssumption DEF AllFlag, Return, SignalAssumption
  <2>4. owner' = Mutex /\ \A d \in Conns : kpc[d] # "connecting"
    BY <1>15, SignalAssumption DEF AllFlag, Unlock, SignalAssumption
  <2>5. Listed \subseteq Conns
    BY DEF Range
  <2> QED
    BY <2>1, <2>2, <2>3, <2>4, <2>5
<1>16. CASE Destroy
  <2>1. connections' = << >> /\ Listed' = {} /\ UNCHANGED <<owner, kpc>>
    BY <1>16 DEF Destroy, Range
  <2>2. \A d \in Conns : ~connected'[d]
    BY <1>16 DEF Destroy
  <2> QED
    BY <2>1, <2>2
<1>17. CASE BlockSignals
  BY <1>17, SignalAssumption DEF BlockSignals, SignalAssumption
<1>18. CASE UNCHANGED vars
  BY <1>18 DEF vars
<1> QED
  BY <1>1, <1>2, <1>3, <1>4, <1>5, <1>6, <1>7, <1>8, <1>9, <1>10, <1>11, <1>12, <1>13, <1>14, <1>15, <1>16, <1>17, <1>18 DEF Next, Client, Emit, InDisconnect, DisconnectAll

-----------------------------------------------------------------------------
(* What a step that is not emit()'s own does to the emissions: a client's,   *)
(* disconnectState() inside an emission included.                            *)
OtherStep ==
    \/ \E c \in Conns : ConnectRefused(c) \/ Connect(c) \/ ConnectPublish(c) \/ ConnectCount(c) \/ ClientDisconnect(c)
    \/ \E p \in Conns \cup Emissions, c \in Conns : DisconnectMissing(p, c) \/ DisconnectPublish(p, c)
    \/ InDisconnect \/ DisconnectAll \/ Destroy \/ BlockSignals \/ UNCHANGED vars

(* A step of emit() itself.                                                  *)
OwnStep(e) ==
    \/ EmitTest(e) \/ EmitSnapshot(e) \/ EmitMode(e) \/ EmitPlain(e) \/ EmitClaim(e)
    \/ EmitCall(e) \/ EmitDone(e)

LEMMA StepKinds ==
    ASSUME [Next]_vars
    PROVE  OtherStep \/ \E e \in Emissions : OwnStep(e)
BY DEF Next, Client, Emit, OtherStep, OwnStep

(* A client's life goes one way.                                             *)
Onward(from, to) ==
    \/ to = from
    \/ from = "new" /\ to \in {"rejected", "connecting"}
    \/ from = "connecting" /\ to = "on"
    \/ from = "on" /\ to \in {"disconnecting", "off"}
    \/ from = "disconnecting" /\ to = "off"

(* An emission is waited for while it disconnects what it consumed, and then *)
(* the connection is gone.                                                   *)
Returns(e) == epc[e] = "remove" /\ epc'[e] = "call" /\ ~connected'[At(e)]

LEMMA OtherDoes ==
    ASSUME SignalInv, OtherStep
    PROVE  /\ UNCHANGED <<emitVars, claimed>>
           /\ \A c \in Conns : Onward(kpc[c], kpc'[c])
           /\ \A c \in Conns : connected'[c] => connected[c] \/ kpc[c] = "new"
           /\ \A c \in Listed' : c \in Listed \/ kpc[c] = "connecting"
           /\ \A e \in Emissions : epc'[e] = epc[e] \/ Returns(e)
<1> DEFINE Goal == /\ UNCHANGED <<emitVars, claimed>>
                   /\ \A c \in Conns : Onward(kpc[c], kpc'[c])
                   /\ \A c \in Conns : connected'[c] => connected[c] \/ kpc[c] = "new"
                   /\ \A c \in Listed' : c \in Listed \/ kpc[c] = "connecting"
                   /\ \A e \in Emissions : epc'[e] = epc[e] \/ Returns(e)
<1> USE DEF SignalInv, Types, listVars, mutexVars, emitVars, Onward
<1>1. ASSUME NEW c \in Conns, ConnectRefused(c) \/ ClientDisconnect(c) PROVE Goal
  BY <1>1 DEF ConnectRefused, ClientDisconnect, Listed
<1>2. ASSUME NEW c \in Conns, Connect(c) \/ ConnectCount(c) PROVE Goal
  BY <1>2 DEF Connect, ConnectCount, Listed, Holder
<1>3. ASSUME NEW c \in Conns, ConnectPublish(c) PROVE Goal
  <2>1. c \notin Listed /\ kpc[c] = "connecting"
    BY <1>3 DEF ConnectPublish, Holder
  <2>2. Listed' = Listed \cup {c}
    BY <1>3, <2>1, AppendIs DEF ConnectPublish, Listed
  <2> QED
    BY <1>3, <2>1, <2>2 DEF ConnectPublish
<1>4. ASSUME NEW p \in Conns \cup Emissions, NEW c \in Conns, DisconnectMissing(p, c) PROVE Goal
  <2>1. UNCHANGED <<connections, connected>> /\ ~connected[c]
    <3>1. UNCHANGED <<connections, connected>> /\ subject = {} /\ (~alive \/ c \notin Listed)
      BY <1>4 DEF DisconnectMissing, Holder
    <3>2. ~alive => c \notin Listed
      BY DEF ListSound, Listed, Range
    <3> QED
      BY <3>1, <3>2 DEF ListSound
  <2>2. CASE p \in Conns
    BY <1>4, <2>1, <2>2, SignalAssumption DEF DisconnectMissing, Return, Asks, Listed, SignalAssumption
  <2>3. CASE p \notin Conns
    <3>1. epc[p] = "remove" /\ At(p) = c /\ UNCHANGED kpc /\ epc' = [epc EXCEPT ![p] = "call"]
      BY <1>4, <2>3 DEF DisconnectMissing, Return, Asks, At
    <3> QED
      BY <1>4, <2>1, <3>1 DEF DisconnectMissing, Returns, Listed
  <2> QED
    BY <2>2, <2>3
<1>5. ASSUME NEW p \in Conns \cup Emissions, NEW c \in Conns, DisconnectPublish(p, c) PROVE Goal
  <2>1. Listed' = Listed \ {c}
    BY <1>5, NotItIs DEF DisconnectPublish, Listed
  <2> QED
    BY <1>5, <2>1 DEF DisconnectPublish
<1>6. CASE DisconnectCount \/ DisconnectSingle \/ AllCount \/ AllSingle \/ BlockSignals \/ UNCHANGED vars
  BY <1>6 DEF DisconnectCount, DisconnectSingle, AllCount, AllSingle, BlockSignals, Listed, vars
<1>7. CASE AllPublish \/ Destroy
  BY <1>7 DEF AllPublish, Destroy, Listed, Range
<1>8. CASE AllFlag
  BY <1>8 DEF AllFlag, Listed
<1>9. CASE DisconnectFlag
  <2>1. PICK c \in Conns : subject = {c} /\ Asks(owner, c)
    BY <1>9 DEF DisconnectFlag, Holder
  <2>2. /\ UNCHANGED <<emitVars, claimed, connections>> /\ ~connected'[c]
        /\ \A d \in Conns : connected'[d] => connected[d]
    BY <1>9, <2>1 DEF DisconnectFlag
  <2>3. CASE owner \in Conns
    BY <1>9, <2>1, <2>2, <2>3, SignalAssumption DEF DisconnectFlag, Return, Asks, Listed, SignalAssumption
  <2>4. CASE owner \notin Conns
    <3>1. owner \in Emissions /\ epc[owner] = "remove" /\ At(owner) = c /\ UNCHANGED kpc /\ epc' = [epc EXCEPT ![owner] = "call"]
      BY <1>9, <2>1, <2>4 DEF DisconnectFlag, Return, Asks, At
    <3> QED
      BY <2>2, <3>1 DEF Returns, Listed
  <2> QED
    BY <2>3, <2>4
<1> QED
  BY <1>1, <1>2, <1>3, <1>4, <1>5, <1>6, <1>7, <1>8, <1>9 DEF OtherStep, InDisconnect, DisconnectAll

(* The other steps leave what emissions rely on alone.                       *)
LEMMA OtherKeeps ==
    ASSUME SignalInv, OtherStep
    PROVE  Walks' /\ OutOfReach' /\ OneWinner' /\ SoFar'
<1> USE DEF SignalInv, Types
<1>1. UNCHANGED <<snap, idx, slow, fired, on, off, claimed>>
  BY OtherDoes DEF emitVars
<1>2. \A c \in Conns : Onward(kpc[c], kpc'[c])
  BY OtherDoes
<1>3. \A e \in Emissions : Range(snap[e]) \subseteq Conns
  BY DEF Range
<1>4. \A e \in Emissions : At(e)' = At(e) /\ (AtEnd(e)' <=> AtEnd(e)) /\ (ToClaim(e)' <=> ToClaim(e))
  BY <1>1 DEF At, AtEnd, ToClaim
<1>5. \A e \in Emissions : epc'[e] = epc[e] \/ (epc[e] = "remove" /\ epc'[e] = "call" /\ ~connected'[At(e)])
  BY OtherDoes DEF Returns
<1>6. Walks'
  BY <1>1, <1>2, <1>3, <1>4, <1>5 DEF Walks, Onward
<1>7. OutOfReach'
  BY <1>1, <1>2 DEF OutOfReach, Onward
<1>8. OneWinner'
  <2>1. \A c \in Single, e \in Emissions : Won(e, c)' => Won(e, c)
    BY <1>1, <1>4, <1>5 DEF Won
  <2>2. ASSUME NEW e \in Emissions, epc'[e] = "call" PROVE ~connected'[At(e)]
    <3>1. CASE epc[e] = "call"
      <4>1. At(e) \in Range(snap[e])
        BY <3>1 DEF Walks, AtEnd, At, Range
      <4> QED
        BY <3>1, <4>1, <1>3, OtherDoes DEF Walks, OneWinner
    <3> QED
      BY <1>5, <2>2, <3>1
  <2> QED
    BY <2>1, <2>2, <1>1, <1>4, SignalAssumption DEF OneWinner, SignalAssumption
<1>9. SoFar'
  <2>1. \A e \in Emissions : on[e] \cap Listed' \subseteq on[e] \cap Listed
    BY OtherDoes DEF SoFar
  <2>2. \A e \in Emissions : \A c \in on[e] : kpc'[c] \notin {"new", "connecting", "rejected"}
    BY <1>2 DEF SoFar, Onward
  <2> QED
    BY <1>1, <1>5, <2>1, <2>2 DEF SoFar
<1> QED
  BY <1>6, <1>7, <1>8, <1>9

(* What the entry at an emission's position is.                              *)
LEMMA Position ==
    ASSUME SignalInv, NEW e \in Emissions, ~AtEnd(e)
    PROVE  At(e) \in Conns /\ At(e) \in Range(snap[e]) /\ idx[e] \in 1..Len(snap[e])
BY DEF SignalInv, Types, AtEnd, At, Range

(* A step of emit() changes nothing of the list or of another emission.      *)
LEMMA OwnFrame ==
    ASSUME SignalInv, NEW e \in Emissions, OwnStep(e)
    PROVE  /\ UNCHANGED <<connections, connected, kpc>>
           /\ \A f \in Emissions : f # e =>
                 /\ epc'[f] = epc[f] /\ snap'[f] = snap[f] /\ idx'[f] = idx[f] /\ slow'[f] = slow[f]
                 /\ on'[f] = on[f] /\ off'[f] = off[f]
                 /\ \A c \in Conns : f \in fired'[c] <=> f \in fired[c]
<1> USE DEF SignalInv, Types, emitVars
<1>1. UNCHANGED <<connections, connected, kpc>>
  BY DEF OwnStep, EmitTest, EmitSnapshot, EmitMode, EmitPlain, EmitClaim, EmitCall, EmitDone, Fire, EmitFrame, listVars
<1>2. CASE EmitTest(e) \/ EmitSnapshot(e) \/ EmitMode(e) \/ EmitDone(e)
  BY <1>1, <1>2 DEF EmitTest, EmitSnapshot, EmitMode, EmitDone, GoEmit
<1>3. CASE EmitPlain(e) \/ EmitCall(e)
  <2>1. At(e) \in Conns
    BY <1>3, Position DEF EmitPlain, EmitCall, Walks
  <2>2. \A c \in Conns : fired'[c] = IF c = At(e) THEN fired[c] \cup {e} ELSE fired[c]
    BY <1>3, <2>1 DEF EmitPlain, EmitCall, Fire
  <2>3. /\ epc' = [epc EXCEPT ![e] = "walk"] /\ idx' = [idx EXCEPT ![e] = @ + 1]
        /\ UNCHANGED <<snap, slow, on, off>>
    BY <1>3 DEF EmitPlain, EmitCall, Fire, GoEmit
  <2> QED
    BY <1>1, <2>2, <2>3
<1>4. CASE EmitClaim(e)
  BY <1>1, <1>4 DEF EmitClaim, GoEmit
<1> QED
  BY <1>2, <1>3, <1>4 DEF OwnStep

LEMMA WalkKeeps ==
    ASSUME SignalInv, NEW e \in Emissions, OwnStep(e)
    PROVE  Walks'
<1> USE DEF SignalInv, Types
<1> DEFINE Ok(f) ==
        /\ epc[f] = "idle" => on[f] = {} /\ off[f] = {}
        /\ epc[f] \in {"idle", "snapshot"} => snap[f] = << >>
        /\ epc[f] \in {"idle", "snapshot", "mode"} => idx[f] = 1 /\ \A c \in Conns : f \notin fired[c]
        /\ epc[f] \in {"remove", "call"} => ~AtEnd(f) /\ ToClaim(f)
        /\ \A c \in Range(snap[f]) : kpc[c] \notin {"new", "rejected"}
<1> SUFFICES ASSUME NEW f \in Emissions PROVE Ok(f)'
  BY DEF Walks
<1>1. Ok(f)
  BY DEF Walks
<1>2. CASE f # e
  BY <1>1, <1>2, OwnFrame DEF AtEnd, ToClaim, At
<1>3. CASE f = e /\ EmitTest(e)
  BY <1>1, <1>3 DEF EmitTest, GoEmit, EmitFrame
<1>4. CASE f = e /\ EmitSnapshot(e)
  BY <1>1, <1>4 DEF EmitSnapshot, GoEmit, EmitFrame, ListSound, Listed
<1>5. CASE f = e /\ EmitMode(e)
  BY <1>1, <1>5 DEF EmitMode, GoEmit, EmitFrame
<1>6. CASE f = e /\ (EmitPlain(e) \/ EmitCall(e))
  BY <1>1, <1>6 DEF EmitPlain, EmitCall, Fire, GoEmit, EmitFrame
<1>7. CASE f = e /\ EmitClaim(e)
  BY <1>1, <1>7 DEF EmitClaim, GoEmit, EmitFrame, AtEnd, ToClaim, At
<1>8. CASE f = e /\ EmitDone(e)
  BY <1>1, <1>8 DEF EmitDone, GoEmit, EmitFrame, emitVars
<1> QED
  BY <1>2, <1>3, <1>4, <1>5, <1>6, <1>7, <1>8 DEF OwnStep

LEMMA ReachKeeps ==
    ASSUME SignalInv, NEW e \in Emissions, OwnStep(e)
    PROVE  OutOfReach'
<1> USE DEF SignalInv, Types
<1> SUFFICES ASSUME NEW f \in Emissions, NEW c \in off'[f]
             PROVE  kpc'[c] = "off" /\ c \notin Range(snap'[f]) /\ f \notin fired'[c]
  BY DEF OutOfReach
<1>1. \A d \in off[f] : d \in Conns /\ kpc[d] = "off" /\ d \notin Range(snap[f]) /\ f \notin fired[d]
  BY DEF OutOfReach
<1>2. CASE f # e
  BY <1>1, <1>2, OwnFrame
<1>3. CASE f = e /\ EmitTest(e)
  BY <1>1, <1>3 DEF EmitTest, EmitFrame, Walks, Range
<1>4. CASE f = e /\ EmitSnapshot(e)
  BY <1>1, <1>4 DEF EmitSnapshot, EmitFrame, ListSound, Listed
<1>5. CASE f = e /\ (EmitMode(e) \/ EmitDone(e) \/ EmitClaim(e))
  BY <1>1, <1>5 DEF EmitMode, EmitDone, EmitClaim, EmitFrame, emitVars
<1>6. CASE f = e /\ (EmitPlain(e) \/ EmitCall(e))
  <2>1. ~AtEnd(e)
    BY <1>6 DEF EmitPlain, EmitCall, Walks
  <2>2. At(e) \in Conns /\ At(e) \in Range(snap[e]) /\ off' = off /\ snap' = snap /\ kpc' = kpc
    BY <1>6, <2>1, Position DEF EmitPlain, EmitCall, Fire, EmitFrame
  <2>3. \A d \in Conns : d # At(e) => fired'[d] = fired[d]
    BY <1>6, <2>2 DEF EmitPlain, EmitCall, Fire
  <2> QED
    BY <1>1, <1>6, <2>2, <2>3
<1> QED
  BY <1>2, <1>3, <1>4, <1>5, <1>6 DEF OwnStep

LEMMA WinnerKeeps ==
    ASSUME SignalInv, NEW e \in Emissions, OwnStep(e)
    PROVE  OneWinner'
<1> USE DEF SignalInv, Types
<1>1. \A f \in Emissions : f # e => At(f)' = At(f) /\ \A c \in Conns : Won(f, c)' <=> Won(f, c)
  BY OwnFrame DEF Won, At
<1>2. Single \subseteq Conns
  BY SignalAssumption DEF SignalAssumption
<1>3. \A f \in Emissions : f # e /\ epc'[f] = "call" => ~connected'[At(f)']
  BY <1>1, OwnFrame DEF OneWinner
<1>4. CASE EmitTest(e) \/ EmitSnapshot(e) \/ EmitMode(e) \/ EmitDone(e)
  <2>1. UNCHANGED claimed /\ epc'[e] \notin {"remove", "call"} /\ \A c \in Single : Won(e, c)' => Won(e, c)
    BY <1>2, <1>4 DEF EmitTest, EmitSnapshot, EmitMode, EmitDone, GoEmit, Won, Walks, emitVars
  <2> QED
    BY <1>1, <1>2, <1>3, <2>1 DEF OneWinner
<1>5. CASE EmitPlain(e) \/ EmitCall(e)
  <2>1. ~AtEnd(e)
    BY <1>5 DEF EmitPlain, EmitCall, Walks
  <2>2. UNCHANGED claimed /\ epc'[e] = "walk" /\ \A c \in Single : Won(e, c)' => Won(e, c)
    BY <1>2, <1>5, <2>1, Position DEF EmitPlain, EmitCall, Fire, GoEmit, ToClaim, Won
  <2> QED
    BY <1>1, <1>2, <1>3, <2>2 DEF OneWinner
<1>6. CASE EmitClaim(e)
  <2>1. At(e) \in Conns /\ At(e) \in Single /\ epc[e] = "walk"
    BY <1>6, Position DEF EmitClaim, ToClaim
  <2>2. claimed'[At(e)] /\ \A c \in Conns : c # At(e) => claimed'[c] = claimed[c]
    BY <1>6, <2>1 DEF EmitClaim
  <2>3. UNCHANGED <<slow, fired, snap>>
    BY <1>6 DEF EmitClaim
  <2>4. CASE claimed[At(e)]
    <3>1. epc'[e] = "walk" /\ \A c \in Single : Won(e, c)' => Won(e, c)
      BY <1>6, <2>1, <2>3, <2>4 DEF EmitClaim, Won
    <3> QED
      BY <1>1, <1>2, <1>3, <2>1, <2>2, <3>1 DEF OneWinner
  <2>5. CASE ~claimed[At(e)]
    <3>1. epc'[e] = "remove" /\ At(e)' = At(e)
      BY <1>6, <2>3, <2>5 DEF EmitClaim, GoEmit, At
    <3>2. \A c \in Single : Won(e, c)' => Won(e, c) \/ c = At(e)
      BY <2>3, <3>1 DEF Won
    <3>3. \A f \in Emissions : ~Won(f, At(e))
      BY <2>1, <2>5 DEF OneWinner
    <3>4. \A c \in Single, f \in Emissions : Won(f, c)' => Won(f, c) \/ (f = e /\ c = At(e))
      BY <1>1, <1>2, <3>2
    <3>5. \A c \in Single, f \in Emissions : Won(f, c)' => claimed'[c]
      BY <1>2, <2>2, <3>4 DEF OneWinner
    <3>6. \A c \in Single : \A f, g \in Emissions : Won(f, c)' /\ Won(g, c)' => f = g
      BY <3>3, <3>4 DEF OneWinner
    <3> QED
      BY <1>3, <3>1, <3>5, <3>6 DEF OneWinner
  <2> QED
    BY <2>4, <2>5
<1> QED
  BY <1>4, <1>5, <1>6 DEF OwnStep

LEMMA SoFarKeeps ==
    ASSUME SignalInv, NEW e \in Emissions, OwnStep(e)
    PROVE  SoFar'
<1> USE DEF SignalInv, Types
<1> DEFINE Ok(f) ==
        /\ \A c \in on[f] : kpc[c] \notin {"new", "connecting", "rejected"}
        /\ epc[f] \in {"mode", "walk", "remove", "call"} => on[f] \cap Listed \subseteq Range(snap[f])
        /\ idx[f] <= Len(snap[f]) + 1
        /\ \A i \in 1..(idx[f] - 1) : snap[f][i] \in Single \/ f \in fired[snap[f][i]]
<1> SUFFICES ASSUME NEW f \in Emissions PROVE Ok(f)'
  BY DEF SoFar
<1>1. Ok(f) /\ \A i \in 1..(idx[f] - 1) : snap[f][i] \in Conns
  BY DEF SoFar
<1>2. CASE f # e
  BY <1>1, <1>2, OwnFrame DEF Listed
<1>3. CASE f = e /\ EmitTest(e)
  BY <1>1, <1>3 DEF EmitTest, GoEmit, EmitFrame, Listed
<1>4. CASE f = e /\ EmitSnapshot(e)
  <2>1. idx[e] = 1 /\ idx'[e] = 1 /\ snap'[e] = connections /\ on' = on /\ kpc' = kpc /\ connections' = connections
    BY <1>4 DEF EmitSnapshot, EmitFrame, Walks, listVars
  <2>2. Len(connections) \in Nat /\ 1..(idx'[e] - 1) = {}
    BY <2>1
  <2> QED
    BY <1>1, <1>4, <2>1, <2>2 DEF Listed
<1>5. CASE f = e /\ (EmitMode(e) \/ EmitDone(e))
  BY <1>1, <1>5 DEF EmitMode, EmitDone, GoEmit, EmitFrame, emitVars, listVars, Listed
<1>6. CASE f = e /\ (EmitPlain(e) \/ EmitCall(e))
  <2>1. ~AtEnd(e)
    BY <1>6 DEF EmitPlain, EmitCall, Walks
  <2>2. At(e) \in Conns /\ idx[e] \in 1..Len(snap[e]) /\ At(e) = snap[e][idx[e]]
    BY <2>1, Position DEF At
  <2>3. \A d \in Conns : fired'[d] = IF d = At(e) THEN fired[d] \cup {e} ELSE fired[d]
    BY <1>6, <2>2 DEF EmitPlain, EmitCall, Fire
  <2>4. /\ idx'[e] = idx[e] + 1 /\ epc'[e] = "walk" /\ epc[e] \in {"walk", "call"}
        /\ UNCHANGED <<snap, on, kpc, connections>>
    BY <1>6 DEF EmitPlain, EmitCall, Fire, GoEmit, EmitFrame, listVars
  <2>5. \A i \in 1..(idx'[e] - 1) : i \in 1..(idx[e] - 1) \/ i = idx[e]
    BY <2>4
  <2>6. \A i \in 1..(idx'[e] - 1) : snap[e][i] \in Single \/ e \in fired'[snap[e][i]]
    <3> TAKE i \in 1..(idx'[e] - 1)
    <3>1. CASE i = idx[e]
      BY <2>2, <2>3, <3>1
    <3>2. CASE i \in 1..(idx[e] - 1)
      <4> snap[e][i] \in Conns /\ (snap[e][i] \in Single \/ e \in fired[snap[e][i]])
        BY <1>1, <1>6, <3>2
      <4> QED
        BY <2>3
    <3> QED
      BY <2>5, <3>1, <3>2
  <2>7. idx'[e] <= Len(snap[e]) + 1
    BY <2>2, <2>4
  <2> QED
    BY <1>1, <1>6, <2>4, <2>6, <2>7 DEF Listed
<1>7. CASE f = e /\ EmitClaim(e)
  <2>1. idx[e] \in 1..Len(snap[e]) /\ snap[e][idx[e]] \in Single
    BY <1>7, Position DEF EmitClaim, ToClaim, At
  <2>2. /\ idx'[e] = idx[e] \/ idx'[e] = idx[e] + 1
        /\ epc[e] = "walk" /\ UNCHANGED <<snap, on, kpc, connections, fired>>
    BY <1>7 DEF EmitClaim, GoEmit, EmitFrame, listVars
  <2>3. \A i \in 1..(idx'[e] - 1) : i \in 1..(idx[e] - 1) \/ i = idx[e]
    BY <2>2
  <2> QED
    BY <1>1, <1>7, <2>1, <2>2, <2>3 DEF Listed
<1> QED
  BY <1>2, <1>3, <1>4, <1>5, <1>6, <1>7 DEF OwnStep

(* connectionCount follows the list, and so a count of 0 tells emit() that   *)
(* no client is connected: the one entry there may be is still connecting.   *)
LEMMA CountKeeps ==
    ASSUME SignalInv, [Next]_vars
    PROVE  Counted'
<1> USE DEF SignalInv, Types, Stages, Counted, listVars, mutexVars
<1>1. Len(connections) \in Nat /\ (Listed # {} => Len(connections) > 0)
  BY DEF Listed, Range
<1>2. ASSUME NEW c \in Conns, ConnectRefused(c) \/ Connect(c) \/ ClientDisconnect(c) PROVE Counted'
  BY <1>2 DEF ConnectRefused, Connect, ClientDisconnect, Lock, Holder
<1>3. ASSUME NEW c \in Conns, ConnectPublish(c) PROVE Counted'
  BY <1>1, <1>3, AppendIs DEF ConnectPublish, GoOn, Holder
<1>4. ASSUME NEW c \in Conns, ConnectCount(c) PROVE Counted'
  BY <1>1, <1>4 DEF ConnectCount, Unlock
<1>5. ASSUME NEW p \in Conns \cup Emissions, NEW c \in Conns, DisconnectMissing(p, c) PROVE Counted'
  BY <1>5 DEF DisconnectMissing
<1>6. ASSUME NEW p \in Conns \cup Emissions, NEW c \in Conns, DisconnectPublish(p, c) PROVE Counted'
  BY <1>1, <1>6, NotItIs DEF DisconnectPublish, Lock, Holder
<1>7. CASE InDisconnect
  BY <1>1, <1>7 DEF InDisconnect, DisconnectCount, DisconnectSingle, DisconnectFlag, GoOn, Unlock
<1>8. CASE AllPublish
  BY <1>8 DEF AllPublish, Lock
<1>9. CASE AllCount \/ AllSingle \/ AllFlag
  <2>1. stage \in {"all_count", "all_single", "all_flag"} => connections = << >>
    OBVIOUS
  <2> QED
    BY <1>9, <2>1 DEF AllCount, AllSingle, AllFlag, GoOn, Unlock
<1>10. CASE Destroy
  BY <1>10 DEF Destroy, Holder
<1>11. CASE BlockSignals \/ UNCHANGED vars
  BY <1>11 DEF BlockSignals, vars
<1>12. ASSUME NEW e \in Emissions, OwnStep(e) PROVE Counted'
  BY <1>12 DEF OwnStep, EmitTest, EmitSnapshot, EmitMode, EmitPlain, EmitClaim, EmitCall, EmitDone, Fire, EmitFrame
<1> QED
  BY <1>2, <1>3, <1>4, <1>5, <1>6, <1>7, <1>8, <1>9, <1>10, <1>11, <1>12, StepKinds DEF OtherStep, DisconnectAll

LEMMA ZeroMeansNone ==
    ASSUME SignalInv, connectionCount = 0
    PROVE  \A c \in Listed : kpc[c] # "on"
<1> USE DEF SignalInv, Types
<1>1. Len(connections) \in Nat /\ (Listed # {} => Len(connections) > 0)
  BY DEF Listed, Range
<1>2. CASE stage = "connect_count"
  <2>1. Len(connections) = 1 /\ owner \in Listed /\ kpc[owner] = "connecting"
    BY <1>1, <1>2 DEF Counted, Holder
  <2>2. Listed = {owner}
    BY <2>1 DEF Listed, Range
  <2> QED
    BY <2>1, <2>2
<1>3. CASE stage # "connect_count"
  BY <1>1, <1>3 DEF Counted, Stages, Listed, Range
<1> QED
  BY <1>2, <1>3

LEMMA DeliveredKeeps ==
    ASSUME SignalInv, [Next]_vars
    PROVE  Delivered'
<1> USE DEF SignalInv, Types
<1>1. CASE OtherStep
  <2>1. UNCHANGED <<on, fired>> /\ \A e \in Emissions : epc'[e] = "done" => epc[e] = "done"
    BY <1>1, OtherDoes DEF emitVars, Returns
  <2>2. \A e \in Emissions : \A c \in on[e] : c \in Listed' => c \in Listed
    BY <1>1, OtherDoes DEF SoFar
  <2> QED
    BY <2>1, <2>2 DEF Delivered
<1>2. ASSUME NEW e \in Emissions, OwnStep(e) PROVE Delivered'
  <2> SUFFICES ASSUME NEW f \in Emissions, epc'[f] = "done", NEW c \in on'[f] \ Single, c \in Listed'
               PROVE  f \in fired'[c]
    BY DEF Delivered
  <2>1. c \in Listed /\ c \in Conns
    BY <1>2, OwnFrame DEF Listed, Range
  <2>2. CASE f # e
    BY <1>2, <2>1, <2>2, OwnFrame DEF Delivered
  <2>3. CASE f = e /\ EmitTest(e)
    <3> connectionCount = 0 /\ kpc[c] = "on"
      BY <2>3 DEF EmitTest, GoEmit
    <3> QED
      BY <2>1, ZeroMeansNone
  <2>4. CASE f = e /\ EmitDone(e)
    <3>1. epc[e] = "walk" /\ idx[e] > Len(snap[e]) /\ UNCHANGED <<on, fired>>
      BY <2>4 DEF EmitDone, AtEnd, emitVars
    <3>2. c \in Range(snap[e])
      BY <2>1, <2>4, <3>1 DEF SoFar
    <3>3. PICK i \in 1..Len(snap[e]) : c = snap[e][i]
      BY <3>2 DEF Range
    <3>4. i \in 1..(idx[e] - 1)
      BY <3>1
    <3> QED
      BY <2>4, <3>1, <3>3, <3>4 DEF SoFar
  <2>5. CASE f = e /\ ~EmitTest(e) /\ ~EmitDone(e)
    BY <1>2, <2>5 DEF OwnStep, EmitSnapshot, EmitMode, EmitPlain, EmitClaim, EmitCall, Fire, GoEmit
  <2> QED
    BY <2>2, <2>3, <2>4, <2>5
<1> QED
  BY <1>1, <1>2, StepKinds

-----------------------------------------------------------------------------
LEMMA SignalInvariant == Spec => []SignalInv
<1>1. Init => SignalInv
  <2> SUFFICES ASSUME Init PROVE SignalInv
    OBVIOUS
  <2> USE DEF Init
  <2>1. Types
    BY SignalAssumption DEF Types, Stages, IsInjective, SignalAssumption
  <2>2. Holder /\ ListSound
    BY SignalAssumption DEF Holder, ListSound, Listed, Range, SignalAssumption
  <2>3. Walks /\ OutOfReach /\ SoFar
    BY DEF Walks, OutOfReach, SoFar, Range
  <2>4. OneWinner /\ Counted /\ Delivered
    BY SignalAssumption DEF OneWinner, Won, Counted, Delivered, SignalAssumption
  <2> QED
    BY <2>1, <2>2, <2>3, <2>4 DEF SignalInv
<1>2. SignalInv /\ [Next]_vars => SignalInv'
  <2> SUFFICES ASSUME SignalInv, [Next]_vars PROVE SignalInv'
    OBVIOUS
  <2>1. Walks' /\ OutOfReach' /\ OneWinner' /\ SoFar'
    BY StepKinds, OtherKeeps, WalkKeeps, ReachKeeps, WinnerKeeps, SoFarKeeps
  <2> QED
    BY <2>1, TypeKeeps, HolderKeeps, ListKeeps, CountKeeps, DeliveredKeeps DEF SignalInv
<1> QED
  BY <1>1, <1>2, PTL DEF Spec

(* emit() delivers: an emission that ends, unless signals were blocked, has  *)
(* called every ordinary callback that was connected before it began and     *)
(* still is, whatever connects, disconnects or emits in between, although it *)
(* takes no lock and reads the count and the list one after the other.       *)
THEOREM EmitDelivers == Spec => []Delivered
<1>1. SignalInv => Delivered
  BY DEF SignalInv
<1> QED
  BY <1>1, SignalInvariant, PTL

(* A callback whose disconnect() has returned is not called by any emission  *)
(* that begins later.                                                        *)
THEOREM DisconnectIsFinal == Spec => []NotCalledAfterDisconnect
<1>1. SignalInv => NotCalledAfterDisconnect
  BY DEF SignalInv, OutOfReach, NotCalledAfterDisconnect
<1> QED
  BY <1>1, SignalInvariant, PTL

(* Of the emissions on the single-shot path one calls the callback of a      *)
(* single-shot connection, after the connection is gone.                     *)
THEOREM SingleShotClaimedOnce == Spec => []ClaimedOnce
<1>1. ASSUME SignalInv, NEW c \in Single PROVE Cardinality({e \in fired[c] : slow[e]}) <= 1
  <2> DEFINE S == {e \in fired[c] : slow[e]}
  <2>1. \A e, f \in S : e = f
    BY <1>1, SignalAssumption DEF SignalInv, Types, OneWinner, Won, SignalAssumption
  <2>2. CASE S = {}
    BY <2>2, FS_EmptySet
  <2>3. CASE S # {}
    <3> PICK e \in S : TRUE
      BY <2>3
    <3>1. S = {e}
      BY <2>1
    <3>2. Cardinality({e}) = 1
      BY FS_Singleton
    <3> QED
      BY <3>1, <3>2
  <2> QED
    BY <2>2, <2>3
<1>2. ASSUME SignalInv, NEW e \in Emissions, epc[e] = "call" PROVE At(e) \notin Listed /\ ~connected[At(e)]
  BY <1>2 DEF SignalInv, OneWinner, ListSound
<1>3. SignalInv => ClaimedOnce
  BY <1>1, <1>2 DEF ClaimedOnce
<1> QED
  BY <1>3, SignalInvariant, PTL
=============================================================================
