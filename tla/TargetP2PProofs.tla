--------------------------- MODULE TargetP2PProofs ---------------------------
(***************************************************************************)
(* TargetP2P for every set of node records and of senders.                 *)
(***************************************************************************)
EXTENDS TargetP2P, TLAPS

\* What the goroutine of a record knows of its Peer object at each of its places:
\* the object is listed only between the store and the clearing of its entry, and
\* the entry is cleared only after a failed start or a loss.
ConnInv ==
    \A r \in Records : LET status == link[r][object[r]] IN
        /\ conn[r] \in {"stop", "sleep", "new"} => slot[r] = Nil /\ status # "up"
        /\ conn[r] = "starting" => slot[r] = Nil /\ status \in {"off", "up", "lost"}
        /\ conn[r] \in {"store", "stored"} => slot[r] = Nil /\ status \in {"up", "lost"}
        /\ conn[r] = "wait" => slot[r] = object[r] /\ status \in {"up", "lost"}
        /\ conn[r] \in {"clear", "cleared"} =>
               /\ slot[r] \in {Nil, object[r]} /\ status \in {"off", "lost"}
               /\ slot[r] # Nil => status = "lost"

\* The former peer is not connected; a peer is ready only while its connection is
\* up, and its callback waits only when the connection is lost, until it is stopped.
LinkInv ==
    \A r \in Records :
        /\ link[r][Other(object[r])] # "up"
        /\ ready[r][object[r]] => link[r][object[r]] \in {"up", "stopped"}
        /\ callback[r][object[r]] => link[r][object[r]] \in {"lost", "stopped"}

\* A peer that stayed listed, connected and ready is one its goroutine waits on,
\* and a send that has visited it holds that peer in a goroutine of its own.
SteadyInv ==
    \A s \in Senders :
        /\ pc[s] = "idle" => steady[s] = {}
        /\ pc[s] = "join" => todo[s] = {}
        /\ \A r \in steady[s] : conn[r] = "wait" /\ ready[r][object[r]]
        /\ \A r \in steady[s] \ todo[s] :
               /\ task[s][r] \in {"started", "sending", "ok", "failed"}
               /\ holds[s][r] = object[r]

InductiveInv == TypeOK /\ ConnInv /\ LinkInv /\ SteadyInv

-----------------------------------------------------------------------------
\* A record has two Peer objects.
LEMMA OtherObject ==
    /\ \A o \in Objects : /\ Other(o) \in Objects /\ Other(o) # o
                          /\ Other(Other(o)) = o
    /\ \A o, q \in Objects : q # o <=> q = Other(o)
    /\ Nil \notin Objects
<1>1. \A o \in Objects : \E x \in Objects : x # o
  BY DEF Objects
<1>2. \A o \in Objects : Other(o) \in Objects /\ Other(o) # o
  BY <1>1 DEF Other
<1> QED BY <1>2 DEF Objects, Nil

\* The first state satisfies the inductive invariant.
LEMMA InitInv == Init => InductiveInv
<1> SUFFICES ASSUME Init PROVE InductiveInv
  OBVIOUS
<1>1. "a" \in Objects /\ Other("a") \in Objects
  BY OtherObject DEF Objects
<1>2. TypeOK
  BY <1>1 DEF Init, TypeOK
<1>3. ConnInv /\ LinkInv /\ SteadyInv
  BY <1>1 DEF Init, ConnInv, LinkInv, SteadyInv
<1> QED BY <1>2, <1>3 DEF InductiveInv

\* A step of the goroutine of a record, or of its client.
LEMMA ConnStep ==
    ASSUME InductiveInv, NEW r \in Records, ConnNext(r) \/ ClientNext(r)
    PROVE  InductiveInv'
<1> USE OtherObject
    DEF InductiveInv, TypeOK, ConnInv, LinkInv, SteadyInv, Step, Running, sendVars
<1>1. CASE NewPeerFails(r)
  BY <1>1 DEF NewPeerFails
<1>2. CASE NewPeer(r)
  BY <1>2 DEF NewPeer
<1>3. CASE StartFails(r)
  BY <1>3 DEF StartFails
<1>4. CASE StartReturns(r)
  BY <1>4 DEF StartReturns
<1>5. CASE BeginStore(r)
  BY <1>5 DEF BeginStore
<1>6. CASE EndStore(r)
  BY <1>6 DEF EndStore
<1>7. CASE ReceiveDisconnect(r)
  BY <1>7 DEF ReceiveDisconnect
<1>8. CASE BeginClear(r)
  BY <1>8 DEF BeginClear
<1>9. CASE EndClear(r)
  BY <1>9 DEF EndClear
<1>10. CASE StopPeer(r)
  <2>1. CASE link' = link
    BY <1>10, <2>1 DEF StopPeer
  <2>2. CASE link' = [link EXCEPT ![r][object[r]] = "stopped"]
    BY <1>10, <2>2 DEF StopPeer
  <2> QED BY <1>10, <2>1, <2>2 DEF StopPeer
<1>11. CASE Retry(r)
  BY <1>11 DEF Retry
<1>12. CASE LinkUp(r)
  BY <1>12 DEF LinkUp
<1>13. CASE OnStatus(r)
  BY <1>13 DEF OnStatus
<1>14. CASE OnDisconnect(r)
  BY <1>14 DEF OnDisconnect
<1> QED BY <1>1, <1>2, <1>3, <1>4, <1>5, <1>6, <1>7, <1>8, <1>9, <1>10, <1>11,
           <1>12, <1>13, <1>14
        DEF ConnNext, ClientNext

\* A listed peer that is ready is one its goroutine waits on.
LEMMA ListedAndReady ==
    ASSUME InductiveInv, NEW r \in Records, slot[r] # Nil, ready[r][slot[r]]
    PROVE  conn[r] = "wait" /\ slot[r] = object[r]
<1>1. conn[r] \in {"wait", "clear", "cleared"} /\ slot[r] = object[r]
  BY DEF InductiveInv, TypeOK, ConnInv
<1>2. link[r][object[r]] # "lost"
  BY <1>1 DEF InductiveInv, LinkInv
<1> QED BY <1>1, <1>2 DEF InductiveInv, ConnInv

\* A step of a send.
LEMMA SendStep ==
    ASSUME InductiveInv, NEW s \in Senders, SendNext(s)
    PROVE  InductiveInv'
<1> USE OtherObject
    DEF InductiveInv, TypeOK, ConnInv, LinkInv, SteadyInv, Running, connVars, sendVars
<1>1. CASE SendCall(s)
  <2>1. TypeOK' /\ ConnInv' /\ LinkInv'
    BY <1>1 DEF SendCall
  <2>2. steady' = [steady EXCEPT ![s] = {r \in Records : slot[r] # Nil /\ ready[r][slot[r]]}]
    BY <1>1 DEF SendCall
  <2>3. \A r \in steady'[s] : conn[r] = "wait" /\ ready[r][object[r]]
    BY <2>2, ListedAndReady
  <2>4. SteadyInv'
    BY <1>1, <2>2, <2>3 DEF SendCall
  <2> QED BY <2>1, <2>4
<1>2. CASE RangeCrash(s)
  BY <1>2 DEF RangeCrash
<1>3. CASE RangeEnd(s)
  BY <1>3 DEF RangeEnd
<1>4. CASE SendReturn(s)
  BY <1>4 DEF SendReturn
<1>5. ASSUME NEW r \in Records, RangeNext(s, r)
      PROVE  InductiveInv'
  <2>1. ConnInv' /\ LinkInv'
    BY <1>5 DEF RangeNext
  <2>2. CASE slot[r] = Nil
    <3>1. r \notin steady[s]
      BY <2>2
    <3> QED BY <1>5, <2>1, <2>2, <3>1 DEF RangeNext
  <2>3. CASE slot[r] # Nil
    <3>1. r \in steady[s] => slot[r] = object[r]
      OBVIOUS
    <3>2. /\ task' = [task EXCEPT ![s][r] = "started"]
          /\ holds' = [holds EXCEPT ![s][r] = slot[r]]
      BY <1>5, <2>3 DEF RangeNext
    <3> QED BY <1>5, <2>1, <3>1, <3>2 DEF RangeNext
  <2> QED BY <2>2, <2>3
<1>6. ASSUME NEW r \in Records, CheckReady(s, r)
      PROVE  InductiveInv'
  BY <1>6 DEF CheckReady
<1>7. ASSUME NEW r \in Records, Transmit(s, r)
      PROVE  InductiveInv'
  <2>1. PICK outcome \in {"ok", "failed"} : task' = [task EXCEPT ![s][r] = outcome]
    BY <1>7 DEF Transmit
  <2> QED BY <1>7, <2>1 DEF Transmit
<1> QED BY <1>1, <1>2, <1>3, <1>4, <1>5, <1>6, <1>7 DEF SendNext, CallStep

\* The inductive invariant holds of every state.
THEOREM InvariantHolds == Spec => []InductiveInv
<1>1. ASSUME InductiveInv, UNCHANGED vars
      PROVE  InductiveInv'
  BY <1>1 DEF vars, connVars, sendVars, InductiveInv, TypeOK, ConnInv, LinkInv,
              SteadyInv
<1>2. InductiveInv /\ [Next]_vars => InductiveInv'
  BY <1>1, ConnStep, SendStep DEF Next
<1> QED BY <1>2, InitInv, PTL DEF Spec

-----------------------------------------------------------------------------
\* Type correctness of the P2P target's state.
THEOREM TypeCorrect == Spec => []TypeOK
<1>1. InductiveInv => TypeOK
  BY DEF InductiveInv
<1> QED BY <1>1, InvariantHolds, PTL

\* However the other peers come and go while a send ranges over the map, a peer
\* that stays listed, connected and ready is sent to.
THEOREM SteadyPeerIsNeverSkipped == Spec => []SteadyPeersAreSent
<1>1. InductiveInv => SteadyPeersAreSent
  BY DEF InductiveInv, SteadyInv, SteadyPeersAreSent, Finished, TypeOK
<1> QED BY <1>1, InvariantHolds, PTL

\* A record's map entry is nil or its present peer, which was not stopped, and a
\* former peer is not connected, even when its client could not be stopped.
THEOREM NoSecondConnection == Spec => []OneConnectionPerRecord
<1>1. InductiveInv => OneConnectionPerRecord
  <2> SUFFICES ASSUME InductiveInv, NEW r \in Records
               PROVE  /\ slot[r] # Nil => /\ slot[r] = object[r]
                                           /\ link[r][slot[r]] \in {"up", "lost"}
                      /\ link[r][Other(object[r])] # "up"
    BY DEF OneConnectionPerRecord
  <2>1. slot[r] # Nil => conn[r] \in {"wait", "clear", "cleared"}
    BY DEF InductiveInv, TypeOK, ConnInv
  <2> QED BY <2>1 DEF InductiveInv, ConnInv, LinkInv
<1> QED BY <1>1, InvariantHolds, PTL
=============================================================================
