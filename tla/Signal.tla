-------------------------------- MODULE Signal --------------------------------
(***************************************************************************)
(* job::core::Signal: a copy-on-write list of connections.  connect(),     *)
(* disconnect() and disconnectAll() hold writeMutex and publish a new      *)
(* list, then adjust two counters; emit() takes no lock: it reads          *)
(* connectionCount, loads a snapshot of the list, reads singleShotCount,   *)
(* and walks the snapshot.  A callback runs with no lock held, so what it  *)
(* does to the signal is the step of some other process here.              *)
(*                                                                         *)
(* Every connection has one client that connects it once and may then      *)
(* disconnect it through its Connection handle; every emission is one      *)
(* call of emit().                                                         *)
(***************************************************************************)
EXTENDS Integers, Sequences, FiniteSets, Functions

CONSTANTS
    Conns,          \* connections (ids are never reused)
    Single,         \* those with ConnectionFlag::SingleShot
    Unique,         \* those a client may pass ConnectionFlag::Unique for
    SameSlot,       \* pairs of connections with the same receiver and slot
    Emissions,      \* calls of emit()
    Mutex, All      \* owner of a free writeMutex; the caller of disconnectAll()

ASSUME SignalAssumption ==
    /\ Single \subseteq Conns /\ Unique \subseteq Conns /\ SameSlot \subseteq Conns \X Conns
    /\ Conns \cap Emissions = {}
    /\ {Mutex, All} \cap (Conns \cup Emissions) = {} /\ Mutex # All
    /\ IsFiniteSet(Conns)

VARIABLES
    connections,        \* the published list
    connectionCount, singleShotCount,
    alive,              \* the Signal object has not been destroyed
    connected, claimed, \* per connection: Connection::State's two flags
    owner,              \* who holds writeMutex
    stage, subject,     \* the owner's next store, and the connections it is about
    kpc,                \* per connection: where its client is
    epc, snap, idx,     \* per emission: where it is, its snapshot, its position
    slow,               \* per emission: does it take the single-shot path?
    fired,              \* per connection: the emissions that called its callback
    on, off,            \* per emission: what was connected, disconnected before it began
    blocked             \* the sender's blockSignals() flag

listVars  == <<connections, connectionCount, singleShotCount, alive, connected>>
mutexVars == <<owner, stage, subject>>
emitVars  == <<snap, idx, slow, fired, on, off>>
vars == <<listVars, claimed, mutexVars, kpc, epc, emitVars, blocked>>

Stages == {"none", "connect_publish", "connect_count", "count", "single", "flag",
           "all_count", "all_single", "all_flag"}
Listed == Range(connections)

TypeOK ==
    /\ connections \in Seq(Conns) /\ IsInjective(connections)
    /\ connectionCount \in Nat /\ singleShotCount \in Nat
    /\ alive \in BOOLEAN
    /\ connected \in [Conns -> BOOLEAN] /\ claimed \in [Conns -> BOOLEAN]
    /\ owner \in Conns \cup Emissions \cup {Mutex, All}
    /\ stage \in Stages /\ subject \subseteq Conns
    /\ kpc \in [Conns -> {"new", "connecting", "on", "disconnecting", "off", "rejected"}]
    /\ epc \in [Emissions -> {"idle", "snapshot", "mode", "walk", "remove", "call", "done", "skipped"}]
    /\ snap \in [Emissions -> Seq(Conns)] /\ idx \in [Emissions -> Nat]
    /\ slow \in [Emissions -> BOOLEAN]
    /\ fired \in [Conns -> SUBSET Emissions]
    /\ on \in [Emissions -> SUBSET Conns] /\ off \in [Emissions -> SUBSET Conns]
    /\ blocked \in BOOLEAN

Init ==
    /\ connections = << >> /\ connectionCount = 0 /\ singleShotCount = 0 /\ alive = TRUE
    /\ connected = [c \in Conns |-> FALSE] /\ claimed = [c \in Conns |-> FALSE]
    /\ owner = Mutex /\ stage = "none" /\ subject = {}
    /\ kpc = [c \in Conns |-> "new"]
    /\ epc = [e \in Emissions |-> "idle"]
    /\ snap = [e \in Emissions |-> << >>] /\ idx = [e \in Emissions |-> 1]
    /\ slow = [e \in Emissions |-> FALSE]
    /\ fired = [c \in Conns |-> {}]
    /\ on = [e \in Emissions |-> {}] /\ off = [e \in Emissions |-> {}]
    /\ blocked = FALSE

-----------------------------------------------------------------------------
(* writeMutex *)
Lock(p, s, cs) == owner = Mutex /\ owner' = p /\ stage' = s /\ subject' = cs
GoOn(s)        == stage' = s /\ UNCHANGED <<owner, subject>>
Unlock         == owner' = Mutex /\ stage' = "none" /\ subject' = {}

-----------------------------------------------------------------------------
(* connectImpl(): the tests, then the counter of single shots, the list, the count. *)
(* The client chooses the Unique flag, so a slot that is taken need not stop it.  (A       *)
(* Unique call that names no receiver is refused outright: it makes no connection.)        *)
SlotTaken(c) == \E d \in Listed : <<c, d>> \in SameSlot

ConnectRefused(c) ==
    /\ kpc[c] = "new" /\ owner = Mutex
    /\ ~alive \/ (c \in Unique /\ SlotTaken(c))
    /\ kpc' = [kpc EXCEPT ![c] = "rejected"]
    /\ UNCHANGED <<listVars, claimed, mutexVars, epc, emitVars, blocked>>

Connect(c) ==
    /\ kpc[c] = "new" /\ alive
    /\ Lock(c, "connect_publish", {c})
    /\ kpc' = [kpc EXCEPT ![c] = "connecting"]
    /\ connected' = [connected EXCEPT ![c] = TRUE]
    /\ singleShotCount' = singleShotCount + (IF c \in Single THEN 1 ELSE 0)
    /\ UNCHANGED <<connections, connectionCount, alive, claimed, epc, emitVars, blocked>>

ConnectPublish(c) ==
    /\ owner = c /\ stage = "connect_publish"
    /\ connections' = Append(connections, c)
    /\ GoOn("connect_count")
    /\ UNCHANGED <<connectionCount, singleShotCount, alive, connected, claimed, kpc, epc, emitVars, blocked>>

ConnectCount(c) ==
    /\ owner = c /\ stage = "connect_count"
    /\ connectionCount' = connectionCount + 1
    /\ Unlock
    /\ kpc' = [kpc EXCEPT ![c] = "on"]
    /\ UNCHANGED <<connections, singleShotCount, alive, connected, claimed, epc, emitVars, blocked>>

-----------------------------------------------------------------------------
(* disconnectState(): run by the client p = c, or by an emission p that consumed c. *)
Asks(p, c) ==
    \/ p = c /\ kpc[c] = "disconnecting"
    \/ p \in Emissions /\ epc[p] = "remove" /\ snap[p][idx[p]] = c

Return(p) ==
    IF p \in Conns THEN kpc' = [kpc EXCEPT ![p] = "off"] /\ UNCHANGED epc
                   ELSE epc' = [epc EXCEPT ![p] = "call"] /\ UNCHANGED kpc

DisconnectMissing(p, c) ==
    /\ Asks(p, c) /\ owner = Mutex /\ (~alive \/ c \notin Listed)
    /\ Return(p)
    /\ UNCHANGED <<listVars, claimed, mutexVars, emitVars, blocked>>

(* The list without the entry of c; ids are never reused, so there is one. *)
NotIt(c) ==
    LET i == CHOOSE j \in DOMAIN connections : connections[j] = c
    IN  [j \in 1..(Len(connections) - 1) |-> connections[IF j < i THEN j ELSE j + 1]]

DisconnectPublish(p, c) ==
    /\ Asks(p, c) /\ alive /\ c \in Listed
    /\ Lock(p, "count", {c})
    /\ connections' = NotIt(c)
    /\ UNCHANGED <<connectionCount, singleShotCount, alive, connected, claimed, kpc, epc, emitVars, blocked>>

DisconnectCount ==
    /\ stage = "count"
    /\ connectionCount' = connectionCount - 1
    /\ GoOn("single")
    /\ UNCHANGED <<connections, singleShotCount, alive, connected, claimed, kpc, epc, emitVars, blocked>>

DisconnectSingle ==
    /\ stage = "single"
    /\ singleShotCount' = singleShotCount - (IF subject \subseteq Single THEN 1 ELSE 0)
    /\ GoOn("flag")
    /\ UNCHANGED <<connections, connectionCount, alive, connected, claimed, kpc, epc, emitVars, blocked>>

DisconnectFlag ==
    /\ stage = "flag"
    /\ connected' = [c \in Conns |-> connected[c] /\ c \notin subject]
    /\ Unlock /\ Return(owner)
    /\ UNCHANGED <<connections, connectionCount, singleShotCount, alive, claimed, emitVars, blocked>>

(* Mutant: the handle clears its flag and does not reach the signal. *)
ClientDisconnect_FlagOnly(c) ==
    /\ kpc[c] = "on"
    /\ kpc' = [kpc EXCEPT ![c] = "off"]
    /\ connected' = [connected EXCEPT ![c] = FALSE]
    /\ UNCHANGED <<connections, connectionCount, singleShotCount, alive>>
    /\ UNCHANGED <<claimed, mutexVars, epc, emitVars, blocked>>

(* Connection::disconnect() looks at its flag first. *)
ClientDisconnect(c) ==
    /\ kpc[c] = "on"
    /\ kpc' = [kpc EXCEPT ![c] = IF connected[c] THEN "disconnecting" ELSE "off"]
    /\ UNCHANGED <<listVars, claimed, mutexVars, epc, emitVars, blocked>>

-----------------------------------------------------------------------------
(* disconnectAllState() *)
AllPublish ==
    /\ alive /\ connections # << >>
    /\ Lock(All, "all_count", Listed)
    /\ connections' = << >>
    /\ UNCHANGED <<connectionCount, singleShotCount, alive, connected, claimed, kpc, epc, emitVars, blocked>>

AllCount ==
    /\ stage = "all_count"
    /\ connectionCount' = 0
    /\ GoOn("all_single")
    /\ UNCHANGED <<connections, singleShotCount, alive, connected, claimed, kpc, epc, emitVars, blocked>>

AllSingle ==
    /\ stage = "all_single"
    /\ singleShotCount' = 0
    /\ GoOn("all_flag")
    /\ UNCHANGED <<connections, connectionCount, alive, connected, claimed, kpc, epc, emitVars, blocked>>

AllFlag ==
    /\ stage = "all_flag"
    /\ connected' = [c \in Conns |-> connected[c] /\ c \notin subject]
    /\ Unlock
    /\ UNCHANGED <<connections, connectionCount, singleShotCount, alive, claimed, kpc, epc, emitVars, blocked>>

(* ~Signal(), invalidateState(): nobody may be inside emit() or start it any more, *)
(* but the clients' handles may still be used.                                      *)
Destroy ==
    /\ alive /\ owner = Mutex /\ \A e \in Emissions : epc[e] \in {"idle", "done", "skipped"}
    /\ alive' = FALSE
    /\ connected' = [c \in Conns |-> connected[c] /\ c \notin Listed]
    /\ connections' = << >> /\ connectionCount' = 0 /\ singleShotCount' = 0
    /\ UNCHANGED <<claimed, mutexVars, kpc, epc, emitVars, blocked>>

-----------------------------------------------------------------------------
(* emit() *)
GoEmit(e, pc) == epc' = [epc EXCEPT ![e] = pc]
EmitFrame == UNCHANGED <<listVars, mutexVars, kpc, blocked>>

EmitTest(e) ==
    /\ epc[e] = "idle" /\ alive
    /\ GoEmit(e, IF connectionCount = 0 THEN "done" ELSE IF blocked THEN "skipped" ELSE "snapshot")
    /\ on' = [on EXCEPT ![e] = {c \in Conns : kpc[c] = "on"}]
    /\ off' = [off EXCEPT ![e] = {c \in Conns : kpc[c] = "off"}]
    /\ UNCHANGED <<claimed, snap, idx, slow, fired>> /\ EmitFrame

EmitSnapshot(e) ==
    /\ epc[e] = "snapshot"
    /\ snap' = [snap EXCEPT ![e] = connections]
    /\ GoEmit(e, "mode")
    /\ UNCHANGED <<claimed, idx, slow, fired, on, off>> /\ EmitFrame

EmitMode(e) ==
    /\ epc[e] = "mode"
    /\ slow' = [slow EXCEPT ![e] = singleShotCount # 0]
    /\ GoEmit(e, "walk")
    /\ UNCHANGED <<claimed, snap, idx, fired, on, off>> /\ EmitFrame

At(e) == snap[e][idx[e]]
AtEnd(e) == idx[e] > Len(snap[e])
ToClaim(e) == slow[e] /\ At(e) \in Single

(* Call the callback of the entry at idx and step on. *)
Fire(e) ==
    /\ fired' = [fired EXCEPT ![At(e)] = @ \cup {e}]
    /\ idx' = [idx EXCEPT ![e] = @ + 1]
    /\ GoEmit(e, "walk")
    /\ UNCHANGED <<claimed, snap, slow, on, off>> /\ EmitFrame

EmitPlain(e) == epc[e] = "walk" /\ ~AtEnd(e) /\ ~ToClaim(e) /\ Fire(e)

(* Mutant: the claim is not tested. *)
EmitClaim_Unchecked(e) ==
    /\ epc[e] = "walk" /\ ~AtEnd(e) /\ ToClaim(e)
    /\ claimed' = [claimed EXCEPT ![At(e)] = TRUE]
    /\ GoEmit(e, "remove") /\ UNCHANGED idx
    /\ UNCHANGED <<snap, slow, fired, on, off>> /\ EmitFrame

(* Mutant: an emission that lost the claim returns. *)
EmitClaim_Return(e) ==
    /\ epc[e] = "walk" /\ ~AtEnd(e) /\ ToClaim(e)
    /\ claimed' = [claimed EXCEPT ![At(e)] = TRUE]
    /\ GoEmit(e, IF claimed[At(e)] THEN "done" ELSE "remove") /\ UNCHANGED idx
    /\ UNCHANGED <<snap, slow, fired, on, off>> /\ EmitFrame

(* compare_exchange on singleShotClaimed: the winner goes on to disconnect and call. *)
EmitClaim(e) ==
    /\ epc[e] = "walk" /\ ~AtEnd(e) /\ ToClaim(e)
    /\ claimed' = [claimed EXCEPT ![At(e)] = TRUE]
    /\ IF claimed[At(e)] THEN idx' = [idx EXCEPT ![e] = @ + 1] /\ UNCHANGED epc
                         ELSE GoEmit(e, "remove") /\ UNCHANGED idx
    /\ UNCHANGED <<snap, slow, fired, on, off>> /\ EmitFrame

EmitCall(e) == epc[e] = "call" /\ Fire(e)

EmitDone(e) ==
    /\ epc[e] = "walk" /\ AtEnd(e)
    /\ GoEmit(e, "done")
    /\ UNCHANGED <<claimed, emitVars>> /\ EmitFrame

(* blockSignals() of the sender. *)
BlockSignals ==
    /\ blocked' = ~blocked
    /\ UNCHANGED <<listVars, claimed, mutexVars, kpc, epc, emitVars>>

-----------------------------------------------------------------------------
Client(c) ==
    \/ ConnectRefused(c) \/ Connect(c) \/ ConnectPublish(c) \/ ConnectCount(c)
    \/ ClientDisconnect(c) \/ DisconnectMissing(c, c) \/ DisconnectPublish(c, c)

Emit(e) ==
    \/ EmitTest(e) \/ EmitSnapshot(e) \/ EmitMode(e) \/ EmitPlain(e) \/ EmitClaim(e)
    \/ EmitCall(e) \/ EmitDone(e)
    \/ \E c \in Conns : DisconnectMissing(e, c) \/ DisconnectPublish(e, c)

InDisconnect == DisconnectCount \/ DisconnectSingle \/ DisconnectFlag
DisconnectAll == AllPublish \/ AllCount \/ AllSingle \/ AllFlag

Next ==
    \/ \E c \in Conns : Client(c)
    \/ \E e \in Emissions : Emit(e)
    \/ InDisconnect \/ DisconnectAll \/ Destroy \/ BlockSignals

Spec == Init /\ [][Next]_vars

-----------------------------------------------------------------------------
(* Properties *)

(* With writeMutex free the counters that emit() trusts agree with the list, and a handle *)
(* that says "connected" has its entry in it.                                             *)
CountsMatch ==
    owner = Mutex =>
        /\ connectionCount = Len(connections)
        /\ singleShotCount = Cardinality(Listed \cap Single)
        /\ \A c \in Conns : connected[c] <=> c \in Listed

(* Of the emissions that saw a single-shot connection pending, one calls its callback, and *)
(* by then the connection is gone: a callback that emits again does not call itself.        *)
ClaimedOnce ==
    /\ \A c \in Single : Cardinality({e \in fired[c] : slow[e]}) <= 1
    /\ \A e \in Emissions : epc[e] = "call" => At(e) \notin Listed /\ ~connected[At(e)]

(* What emit() owes its listeners: an emission that ends has called every ordinary        *)
(* callback that was connected before it began and still is, unless signals were blocked. *)
Delivered ==
    \A e \in Emissions : epc[e] = "done" =>
        \A c \in on[e] \ Single : c \in Listed => e \in fired[c]

(* A callback whose disconnect() has returned is not called by any later emission.        *)
NotCalledAfterDisconnect ==
    \A e \in Emissions : \A c \in off[e] : e \notin fired[c]

-----------------------------------------------------------------------------
(* What the test "Concurrent emit executes SingleShot callback exactly once" requires.    *)
SingleShotOnce == \A c \in Single : Cardinality(fired[c]) <= 1

===============================================================================
