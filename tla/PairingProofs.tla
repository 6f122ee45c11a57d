--------------------------- MODULE PairingProofs ---------------------------
(***************************************************************************)
(* Proofs about Pairing, for any number of attempts, connections and phone  *)
(* numbers.                                                                 *)
(***************************************************************************)
EXTENDS Pairing, TLAPS

USE PairingAssumption

-----------------------------------------------------------------------------
(* The maps.                                                                *)

LEMMA DropAt ==
  ASSUME NEW K, NEW V, None \in V, NEW map \in [K -> V], NEW key
  PROVE  /\ Drop(map, key) \in [K -> V]
         /\ \A k \in K : Drop(map, key)[k] = IF k = key THEN None ELSE map[k]
BY DEF Drop

LEMMA PutAt ==
  ASSUME NEW K, NEW V, NEW map \in [K -> V], NEW key, NEW s \in V
  PROVE  /\ Put(map, key, s) \in [K -> V]
         /\ \A k \in K : Put(map, key, s)[k] = IF k = key THEN s ELSE map[k]
BY DEF Put

LEMMA FoundAt ==
  ASSUME NEW K, NEW V, None \in V, NEW map \in [K -> V], NEW key \in K \cup {None}
  PROVE  Found(map, key) \in V
BY DEF Found

LEMMA ForgetMaps ==
  ASSUME TypeOK, NEW s \in Sessions, Forget(s)
  PROVE  /\ MapType'
         /\ evicted' \subseteq Sessions
         /\ \A c \in Conns : byConn'[c] = IF c = sconn[s] THEN None ELSE byConn[c]
         /\ \A c \in Conns : cancels'[c] = IF c = sconn[s] THEN None ELSE cancels[c]
         /\ \A p \in Phones : byPhone'[p] = IF p = sphone[s] THEN None ELSE byPhone[p]
<1>1. MapType'
  BY DropAt DEF TypeOK, MapType, Forget
<1>2. Found(byConn, sconn[s]) \in Sessions \cup {None} /\ Found(byPhone, sphone[s]) \in Sessions \cup {None}
  BY FoundAt DEF TypeOK, MapType, AttemptType
<1>3. evicted' \subseteq Sessions
  BY <1>2 DEF TypeOK, SetType, Forget
<1> QED
  BY <1>1, <1>3 DEF TypeOK, MapType, Forget, Drop

(* The maps after Start. *)
LEMMA StartMaps ==
  ASSUME TypeOK, NEW s \in Sessions, NEW c \in Conns, NEW p \in Phones \cup {None},
         NEW again \in BOOLEAN, Start(s, c, p, again)
  PROVE  \E old1, old2 \in Sessions \cup {None}, gone \in Conns \cup {None}, lost \in Phones \cup {None} :
           /\ old1 = Found(byPhone, p) /\ gone = Found(sconn, old1)
           /\ old2 = IF c = gone THEN None ELSE byConn[c]
           /\ lost = Found(sphone, old2)
           /\ cancelled' = cancelled \cup ({old1, old2} \ {None})
           /\ MapType'
           /\ \A k \in Conns : byConn'[k] = IF k = c THEN s ELSE IF k = gone THEN None ELSE byConn[k]
           /\ \A k \in Conns : cancels'[k] = IF k = c THEN s ELSE IF k = gone THEN None ELSE cancels[k]
           /\ \A k \in Phones : byPhone'[k] = IF k = p THEN s ELSE IF k = lost THEN None ELSE byPhone[k]
<1> DEFINE old1 == Found(byPhone, p)
           gone == Found(sconn, old1)
           old2 == IF c = gone THEN None ELSE byConn[c]
           lost == Found(sphone, old2)
<1>1. old1 \in Sessions \cup {None}
  BY FoundAt DEF TypeOK, MapType
<1>2. gone \in Conns \cup {None}
  BY <1>1, FoundAt DEF TypeOK, AttemptType
<1>3. old2 \in Sessions \cup {None}
  BY DEF TypeOK, MapType
<1>4. lost \in Phones \cup {None}
  BY <1>3, FoundAt DEF TypeOK, AttemptType
<1>5. /\ cancelled' = cancelled \cup ({old1, old2} \ {None})
      /\ byConn' = Put(Drop(byConn, gone), c, s)
      /\ cancels' = Put(Drop(cancels, gone), c, s)
      /\ byPhone' = Put(Drop(byPhone, lost), p, s)
  BY DEF Start
<1> HIDE DEF old1, gone, old2, lost
<1>6. /\ Drop(byConn, gone) \in [Conns -> Sessions \cup {None}]
      /\ Drop(cancels, gone) \in [Conns -> Sessions \cup {None}]
      /\ Drop(byPhone, lost) \in [Phones -> Sessions \cup {None}]
  BY DropAt DEF TypeOK, MapType
<1>7. MapType'
  BY <1>5, <1>6, PutAt DEF MapType
<1>8. /\ \A k \in Conns : byConn'[k] = IF k = c THEN s ELSE IF k = gone THEN None ELSE byConn[k]
      /\ \A k \in Conns : cancels'[k] = IF k = c THEN s ELSE IF k = gone THEN None ELSE cancels[k]
      /\ \A k \in Phones : byPhone'[k] = IF k = p THEN s ELSE IF k = lost THEN None ELSE byPhone[k]
  BY <1>5 DEF TypeOK, MapType, Put, Drop
<1> QED
  BY <1>1, <1>2, <1>3, <1>4, <1>5, <1>7, <1>8 DEF old1, gone, old2, lost

(* The maps after a cancellation. *)
LEMMA CancelMaps ==
  ASSUME TypeOK, NEW c \in Conns, CancelPairing(c)
  PROVE  /\ MapType'
         /\ \A k \in Conns : byConn'[k] = IF k = c THEN None ELSE byConn[k]
         /\ \A k \in Conns : cancels'[k] = IF k = c THEN None ELSE cancels[k]
         /\ \A k \in Phones :
              byPhone'[k] = IF k = Found(sphone, byConn[c]) THEN None ELSE byPhone[k]
<1>1. MapType'
  BY DropAt DEF TypeOK, MapType, CancelPairing
<1> QED
  BY <1>1 DEF TypeOK, MapType, CancelPairing, Drop

LEMMA CancelByPhoneMaps ==
  ASSUME TypeOK, NEW c \in Conns, NEW p \in Phones \cup {None}, CancelPairingByPhone(c, p)
  PROVE  /\ Found(byPhone, p) \in Sessions \cup {None}
         /\ MapType'
         /\ \A k \in Conns :
              byConn'[k] = IF k = Found(sconn, Found(byPhone, p)) THEN None ELSE byConn[k]
         /\ \A k \in Conns :
              cancels'[k] = IF k = Found(sconn, Found(byPhone, p)) THEN None ELSE cancels[k]
         /\ \A k \in Phones : byPhone'[k] = IF k = p THEN None ELSE byPhone[k]
<1>1. Found(byPhone, p) \in Sessions \cup {None}
  BY FoundAt DEF TypeOK, MapType
<1>2. MapType'
  BY DropAt DEF TypeOK, MapType, CancelPairingByPhone
<1> QED
  BY <1>1, <1>2 DEF TypeOK, MapType, CancelPairingByPhone, Drop

-----------------------------------------------------------------------------
(* Types.                                                                   *)

LEMMA TypeStep ==
  ASSUME TypeOK, [Next]_vars
  PROVE  TypeOK'
<1>1. ASSUME NEW s \in Sessions, NEW c \in Conns, NEW p \in Phones \cup {None},
             NEW again \in BOOLEAN, Start(s, c, p, again)
      PROVE  TypeOK'
  <2>1. AttemptType'
    BY <1>1 DEF TypeOK, AttemptType, Stages, Running, Unsaved, Start, Go
  <2>2. MapType'
    BY <1>1, StartMaps
  <2>3. SetType'
    <3>1. PICK old1, old2 \in Sessions \cup {None} :
            cancelled' = cancelled \cup ({old1, old2} \ {None})
      BY <1>1, StartMaps
    <3> QED
      BY <1>1, <3>1 DEF TypeOK, SetType, Start
  <2>4. RowType'
    BY <1>1 DEF TypeOK, RowType, Start, Go
  <2> QED
    BY <2>1, <2>2, <2>3, <2>4 DEF TypeOK
<1>2. ASSUME NEW s \in Sessions, SetupOk(s) PROVE TypeOK'
  <2>1. AttemptType'
    BY <1>2 DEF TypeOK, AttemptType, Stages, Running, Unsaved, SetupOk, Go
  <2>2. MapType'
    BY <1>2 DEF TypeOK, MapType, SetupOk, maps
  <2>3. SetType'
    BY <1>2 DEF TypeOK, SetType, SetupOk, Go, maps
  <2>4. RowType'
    BY <1>2 DEF TypeOK, RowType, SetupOk, Go
  <2> QED
    BY <2>1, <2>2, <2>3, <2>4 DEF TypeOK
<1>3. ASSUME NEW s \in Sessions, SetupFails(s) PROVE TypeOK'
  <2>1. AttemptType'
    BY <1>3 DEF TypeOK, AttemptType, Stages, Running, Unsaved, SetupFails, Go, Forget
  <2>2. MapType'
    BY <1>3, ForgetMaps DEF SetupFails
  <2>3. SetType'
    BY <1>3, ForgetMaps DEF TypeOK, SetType, SetupFails
  <2>4. RowType'
    BY <1>3 DEF TypeOK, RowType, SetupFails, Go, Forget
  <2> QED
    BY <2>1, <2>2, <2>3, <2>4 DEF TypeOK
<1>4. ASSUME NEW s \in Sessions, LoopFails(s) PROVE TypeOK'
  <2>1. AttemptType'
    BY <1>4 DEF TypeOK, AttemptType, Stages, Running, Unsaved, LoopFails, Close, Go
  <2>2. MapType'
    BY <1>4 DEF TypeOK, MapType, LoopFails, maps
  <2>3. SetType'
    BY <1>4 DEF TypeOK, SetType, LoopFails, Close, Go, maps
  <2>4. RowType'
    BY <1>4 DEF TypeOK, RowType, LoopFails, Close, Go
  <2> QED
    BY <2>1, <2>2, <2>3, <2>4 DEF TypeOK
<1>5. ASSUME NEW s \in Sessions, Scanned(s) PROVE TypeOK'
  <2>1. AttemptType'
    BY <1>5 DEF TypeOK, AttemptType, Stages, Running, Unsaved, Scanned, Go
  <2>2. MapType'
    BY <1>5 DEF TypeOK, MapType, Scanned, maps
  <2>3. SetType'
    BY <1>5 DEF TypeOK, SetType, Scanned, Go, maps
  <2>4. RowType'
    BY <1>5 DEF TypeOK, RowType, Scanned, Go
  <2> QED
    BY <2>1, <2>2, <2>3, <2>4 DEF TypeOK
<1>6. ASSUME NEW s \in Sessions, Save(s) PROVE TypeOK'
  <2>1. AttemptType'
    BY <1>6 DEF TypeOK, AttemptType, Stages, Running, Unsaved, Save, Go
  <2>2. MapType'
    BY <1>6 DEF TypeOK, MapType, Save, maps
  <2>3. SetType'
    BY <1>6 DEF TypeOK, SetType, Save, Go, maps
  <2>4. RowType'
    BY <1>6 DEF TypeOK, RowType, AttemptType, Save, Saved, Go
  <2> QED
    BY <2>1, <2>2, <2>3, <2>4 DEF TypeOK
<1>7. ASSUME NEW s \in Sessions, SaveFails(s) PROVE TypeOK'
  <2>1. AttemptType'
    BY <1>7 DEF TypeOK, AttemptType, Stages, Running, Unsaved, SaveFails, Close, Go
  <2>2. MapType'
    BY <1>7 DEF TypeOK, MapType, SaveFails, maps
  <2>3. SetType'
    BY <1>7 DEF TypeOK, SetType, SaveFails, Close, Go, maps
  <2>4. RowType'
    BY <1>7 DEF TypeOK, RowType, AttemptType, SaveFails, Saved, Close, Go
  <2> QED
    BY <2>1, <2>2, <2>3, <2>4 DEF TypeOK
<1>8. ASSUME NEW s \in Sessions, Connect(s) PROVE TypeOK'
  <2>1. AttemptType'
    BY <1>8 DEF TypeOK, AttemptType, Stages, Running, Unsaved, Connect, Close, Go
  <2>2. MapType'
    BY <1>8 DEF TypeOK, MapType, Connect, maps
  <2>3. SetType'
    BY <1>8 DEF TypeOK, SetType, Connect, Close, Go, maps
  <2>4. RowType'
    BY <1>8 DEF TypeOK, RowType, Connect, Close, Go
  <2> QED
    BY <2>1, <2>2, <2>3, <2>4 DEF TypeOK
<1>9. ASSUME NEW s \in Sessions, Cleanup(s) PROVE TypeOK'
  <2>1. AttemptType'
    BY <1>9 DEF TypeOK, AttemptType, Stages, Running, Unsaved, Cleanup, Forget, sess
  <2>2. MapType'
    BY <1>9, ForgetMaps DEF Cleanup
  <2>3. SetType'
    BY <1>9, ForgetMaps DEF TypeOK, SetType, Cleanup
  <2>4. RowType'
    BY <1>9 DEF TypeOK, RowType, Cleanup, Forget
  <2> QED
    BY <2>1, <2>2, <2>3, <2>4 DEF TypeOK
<1>10. ASSUME NEW s \in Sessions, Disconnect(s) PROVE TypeOK'
  <2>1. AttemptType'
    BY <1>10 DEF TypeOK, AttemptType, Stages, Running, Unsaved, Disconnect, sess
  <2>2. MapType'
    BY <1>10 DEF TypeOK, MapType, Disconnect, maps
  <2>3. SetType'
    BY <1>10 DEF TypeOK, SetType, Disconnect, maps
  <2>4. RowType'
    BY <1>10 DEF TypeOK, RowType, Disconnect
  <2> QED
    BY <2>1, <2>2, <2>3, <2>4 DEF TypeOK
<1>11. ASSUME NEW c \in Conns, NEW next \in {"cancel", "remove"}, DeleteRead(c, next)
       PROVE  TypeOK'
  <2>1. AttemptType'
    BY <1>11 DEF TypeOK, AttemptType, Stages, Running, Unsaved, DeleteRead, sess
  <2>2. MapType'
    BY <1>11 DEF TypeOK, MapType, DeleteRead, maps
  <2>3. SetType'
    BY <1>11 DEF TypeOK, SetType, DeleteRead, maps
  <2>4. RowType'
    BY <1>11 DEF TypeOK, RowType, DeleteRead
  <2> QED
    BY <2>1, <2>2, <2>3, <2>4 DEF TypeOK
<1>12. ASSUME NEW c \in Conns, CancelPairing(c) PROVE TypeOK'
  <2>1. AttemptType'
    BY <1>12 DEF TypeOK, AttemptType, Stages, Running, Unsaved, CancelPairing, sess
  <2>2. MapType'
    BY <1>12, CancelMaps
  <2>3. SetType'
    BY <1>12 DEF TypeOK, SetType, MapType, CancelPairing
  <2>4. RowType'
    BY <1>12 DEF TypeOK, RowType, CancelPairing
  <2> QED
    BY <2>1, <2>2, <2>3, <2>4 DEF TypeOK
<1>13. ASSUME NEW c \in Conns, NEW p \in Phones \cup {None}, CancelPairingByPhone(c, p)
      PROVE  TypeOK'
  <2>1. AttemptType'
    BY <1>13 DEF TypeOK, AttemptType, Stages, Running, Unsaved, CancelPairingByPhone, sess
  <2>2. MapType'
    BY <1>13, CancelByPhoneMaps
  <2>3. SetType'
    <3>1. Found(byPhone, p) \in Sessions \cup {None}
      BY <1>13, CancelByPhoneMaps
    <3> QED
      BY <1>13, <3>1 DEF TypeOK, SetType, CancelPairingByPhone
  <2>4. RowType'
    BY <1>13 DEF TypeOK, RowType, CancelPairingByPhone
  <2> QED
    BY <2>1, <2>2, <2>3, <2>4 DEF TypeOK
<1>14. ASSUME NEW c \in Conns, DeleteRow(c) PROVE TypeOK'
  <2>1. AttemptType'
    BY <1>14 DEF TypeOK, AttemptType, Stages, Running, Unsaved, DeleteRow, sess
  <2>2. MapType'
    BY <1>14 DEF TypeOK, MapType, DeleteRow, maps
  <2>3. SetType'
    BY <1>14 DEF TypeOK, SetType, DeleteRow, maps
  <2>4. RowType'
    BY <1>14 DEF TypeOK, RowType, DeleteRow
  <2> QED
    BY <2>1, <2>2, <2>3, <2>4 DEF TypeOK
<1>15. ASSUME NEW s \in Sessions, SaveBegins(s) PROVE TypeOK'
  <2>1. AttemptType'
    BY <1>15 DEF TypeOK, AttemptType, Stages, Running, Unsaved, SaveBegins, Go
  <2>2. MapType'
    BY <1>15 DEF TypeOK, MapType, SaveBegins, maps
  <2>3. SetType'
    BY <1>15 DEF TypeOK, SetType, SaveBegins, Go, maps
  <2>4. RowType'
    BY <1>15 DEF TypeOK, RowType, SaveBegins, Go
  <2> QED
    BY <2>1, <2>2, <2>3, <2>4 DEF TypeOK
<1>16. CASE UNCHANGED vars
  BY <1>16 DEF vars, sess, maps, TypeOK, AttemptType, MapType, SetType, RowType
<1> QED
  BY <1>1, <1>2, <1>3, <1>4, <1>5, <1>6, <1>7, <1>8, <1>9, <1>10, <1>11, <1>12, <1>13, <1>14,
     <1>15, <1>16
  DEF Next, LoopStep, DeleteStep

(* The types of the pairing manager; an attempt under way has a connection. *)
THEOREM TypeCorrect == Spec => []TypeOK
<1>1. Init => TypeOK
  BY DEF Init, TypeOK, AttemptType, MapType, SetType, RowType, Stages, Running, Unsaved
<1>2. TypeOK /\ [Next]_vars => TypeOK'
  BY TypeStep
<1> QED
  BY <1>1, <1>2, PTL DEF Spec
-----------------------------------------------------------------------------
(* A running loop can be found.                                             *)

(* An entry of a map belongs to the key it is under. *)
KeysAgree ==
  /\ cancels = byConn
  /\ \A c \in Conns : byConn[c] # None => sconn[byConn[c]] = c /\ pc[byConn[c]] # "unused"
  /\ \A p \in Phones : byPhone[p] # None => sphone[byPhone[p]] = p /\ pc[byPhone[p]] # "unused"

(* As long as no cleanup took an entry of another attempt, an attempt with a
   phone is in both maps or in none.                                        *)
MapsAgree ==
  evicted = {} =>
    /\ \A c \in Conns : byConn[c] # None /\ sphone[byConn[c]] # None
                          => byPhone[sphone[byConn[c]]] = byConn[c]
    /\ \A p \in Phones : byPhone[p] # None => byConn[sconn[byPhone[p]]] = byPhone[p]

ReachInv == KeysAgree /\ MapsAgree /\ LoopIsReachable

(* The delayed cleanup is that of a loop that has returned. *)
OwedInv == \A s \in owed : pc[s] = "done"

(* Steps that leave the maps alone and start no attempt. *)
LEMMA ReachKept ==
  ASSUME TypeOK, ReachInv, UNCHANGED <<sconn, sphone, maps>>, cancelled \subseteq cancelled',
         \A s \in Sessions : /\ pc[s] = "unused" <=> pc'[s] = "unused"
                             /\ pc'[s] \in Running => pc[s] \in Running
  PROVE  ReachInv'
<1>1. KeysAgree'
  BY DEF ReachInv, KeysAgree, maps, TypeOK, MapType
<1>2. MapsAgree'
  BY DEF ReachInv, MapsAgree, maps
<1>3. LoopIsReachable'
  BY DEF ReachInv, LoopIsReachable, maps
<1> QED
  BY <1>1, <1>2, <1>3 DEF ReachInv

(* cleanupSession of an attempt that has ended, or ends here. *)
LEMMA ReachForget ==
  ASSUME TypeOK, ReachInv, NEW s \in Sessions, Forget(s),
         UNCHANGED <<sconn, sphone>>, cancelled \subseteq cancelled',
         \A t \in Sessions : /\ pc[t] = "unused" <=> pc'[t] = "unused"
                             /\ pc'[t] \in Running => pc[t] \in Running,
         pc'[s] \notin Running
  PROVE  ReachInv'
<1>1. /\ \A c \in Conns : byConn'[c] = IF c = sconn[s] THEN None ELSE byConn[c]
      /\ \A c \in Conns : cancels'[c] = IF c = sconn[s] THEN None ELSE cancels[c]
      /\ \A p \in Phones : byPhone'[p] = IF p = sphone[s] THEN None ELSE byPhone[p]
      /\ MapType'
  BY ForgetMaps
<1>2. KeysAgree'
  <2>1. cancels' = byConn'
    BY DEF Forget, ReachInv, KeysAgree
  <2> QED
    BY <1>1, <2>1 DEF ReachInv, KeysAgree, TypeOK, MapType
<1>3. ASSUME evicted' = {}
      PROVE  /\ evicted = {}
             /\ sconn[s] \in Conns => byConn[sconn[s]] \in {s, None}
             /\ sphone[s] \in Phones => byPhone[sphone[s]] \in {s, None}
  <2>1. evicted = {} /\ {Found(byConn, sconn[s]), Found(byPhone, sphone[s])} \subseteq {s, None}
    BY <1>3 DEF Forget
  <2> QED
    BY <2>1 DEF Found
<1>4. MapsAgree'
  BY <1>1, <1>3 DEF ReachInv, KeysAgree, MapsAgree, TypeOK, AttemptType, MapType
<1>5. LoopIsReachable'
  <2> SUFFICES ASSUME evicted' = {}, NEW t \in Sessions, pc'[t] \in Running, t \notin cancelled'
               PROVE  /\ byConn'[sconn[t]] = t /\ cancels'[sconn[t]] = t
                      /\ sphone[t] # None => byPhone'[sphone[t]] = t
    BY DEF LoopIsReachable
  <2>1. t # s /\ sconn[t] \in Conns
    BY DEF TypeOK, AttemptType, Running, Unsaved
  <2>2. /\ byConn[sconn[t]] = t /\ cancels[sconn[t]] = t
        /\ sphone[t] # None => byPhone[sphone[t]] = t
    BY <1>3 DEF ReachInv, LoopIsReachable
  <2> QED
    BY <1>1, <1>3, <2>1, <2>2 DEF TypeOK, AttemptType
<1> QED
  BY <1>2, <1>4, <1>5 DEF ReachInv

LEMMA ReachStart ==
  ASSUME TypeOK, ReachInv, NEW s \in Sessions, NEW c \in Conns, NEW p \in Phones \cup {None},
         NEW again \in BOOLEAN, Start(s, c, p, again)
  PROVE  ReachInv'
<1>1. PICK old1, old2 \in Sessions \cup {None}, gone \in Conns \cup {None}, lost \in Phones \cup {None} :
        /\ old1 = Found(byPhone, p) /\ gone = Found(sconn, old1)
        /\ old2 = IF c = gone THEN None ELSE byConn[c]
        /\ lost = Found(sphone, old2)
        /\ cancelled' = cancelled \cup ({old1, old2} \ {None})
        /\ MapType'
        /\ \A k \in Conns : byConn'[k] = IF k = c THEN s ELSE IF k = gone THEN None ELSE byConn[k]
        /\ \A k \in Conns : cancels'[k] = IF k = c THEN s ELSE IF k = gone THEN None ELSE cancels[k]
        /\ \A k \in Phones : byPhone'[k] = IF k = p THEN s ELSE IF k = lost THEN None ELSE byPhone[k]
  BY StartMaps
<1>2. /\ pc[s] = "unused" /\ UNCHANGED evicted
      /\ \A t \in Sessions : /\ pc'[t] = IF t = s THEN "setup" ELSE pc[t]
                             /\ sconn'[t] = IF t = s THEN c ELSE sconn[t]
                             /\ sphone'[t] = IF t = s THEN p ELSE sphone[t]
  BY DEF Start, Go, TypeOK, AttemptType
<1>3. /\ \A k \in Conns : byConn[k] # s
      /\ \A k \in Phones : byPhone[k] # s
  BY <1>2 DEF ReachInv, KeysAgree
<1>4. KeysAgree'
  <2>1. cancels' = byConn'
    BY <1>1 DEF ReachInv, KeysAgree, MapType
  <2>2. \A k \in Conns : byConn'[k] # None => sconn'[byConn'[k]] = k /\ pc'[byConn'[k]] # "unused"
    BY <1>1, <1>2, <1>3 DEF ReachInv, KeysAgree, TypeOK, MapType
  <2>3. \A k \in Phones : byPhone'[k] # None => sphone'[byPhone'[k]] = k /\ pc'[byPhone'[k]] # "unused"
    BY <1>1, <1>2, <1>3 DEF ReachInv, KeysAgree, TypeOK, MapType
  <2> QED
    BY <2>1, <2>2, <2>3 DEF KeysAgree
(* What was under the keys that change is cancelled. *)
<1>5. ASSUME evicted = {}
      PROVE  /\ old1 # None => p \in Phones /\ byPhone[p] = old1 /\ gone = sconn[old1]
                               /\ gone \in Conns /\ byConn[gone] = old1 /\ sphone[old1] = p
             /\ gone # None => old1 # None
             /\ p # None => byPhone[p] = old1
             /\ byConn[c] \in {old1, old2, None}
             /\ old2 # None => byConn[c] = old2 /\ lost = sphone[old2] /\ sconn[old2] = c
             /\ old2 # None /\ lost # None => byPhone[lost] = old2
             /\ lost # None => old2 # None
  <2>1. old1 # None => p \in Phones /\ byPhone[p] = old1 /\ gone = sconn[old1] /\ sphone[old1] = p
    BY <1>1 DEF Found, ReachInv, KeysAgree
  <2>2. old1 # None => gone \in Conns /\ byConn[gone] = old1
    BY <1>5, <2>1, <1>1 DEF ReachInv, KeysAgree, MapsAgree, TypeOK, AttemptType
  <2>3. gone # None => old1 # None
    BY <1>1 DEF Found
  <2>4. p # None => byPhone[p] = old1
    BY <1>1 DEF Found
  <2>5. old2 # None => byConn[c] = old2 /\ lost = sphone[old2] /\ sconn[old2] = c
    BY <1>1 DEF Found, ReachInv, KeysAgree
  <2>6. old2 # None /\ lost # None => byPhone[lost] = old2
    BY <1>5, <2>5 DEF ReachInv, MapsAgree
  <2>7. lost # None => old2 # None
    BY <1>1 DEF Found
  <2>8. byConn[c] \in {old1, old2, None}
    BY <1>1, <2>2, <2>3
  <2> QED
    BY <2>1, <2>2, <2>3, <2>4, <2>5, <2>6, <2>7, <2>8
<1>6. MapsAgree'
  <2> SUFFICES ASSUME evicted = {}
               PROVE  /\ \A k \in Conns : byConn'[k] # None /\ sphone'[byConn'[k]] # None
                                            => byPhone'[sphone'[byConn'[k]]] = byConn'[k]
                      /\ \A k \in Phones : byPhone'[k] # None
                                            => byConn'[sconn'[byPhone'[k]]] = byPhone'[k]
    BY <1>2 DEF MapsAgree
  <2>1. ASSUME NEW k \in Conns, byConn'[k] # None, sphone'[byConn'[k]] # None
        PROVE  byPhone'[sphone'[byConn'[k]]] = byConn'[k]
    <3>1. CASE k = c
      BY <1>1, <1>2, <2>1, <3>1
    <3>2. CASE k # c
      <4>1. byConn'[k] = byConn[k] /\ k # gone /\ byConn[k] \in Sessions /\ byConn[k] # s
        BY <1>1, <1>3, <2>1, <3>2 DEF TypeOK, MapType
      <4> DEFINE t == byConn[k]
      <4>2. sconn[t] = k /\ sphone'[t] = sphone[t] /\ sphone[t] \in Phones /\ byPhone[sphone[t]] = t
        BY <1>2, <2>1, <4>1 DEF ReachInv, KeysAgree, MapsAgree, TypeOK, AttemptType
      <4>3. t # old1 /\ t # old2
        BY <1>5, <3>2, <4>1, <4>2
      <4> QED
        BY <1>1, <1>5, <4>1, <4>2, <4>3
    <3> QED
      BY <3>1, <3>2
  <2>2. ASSUME NEW k \in Phones, byPhone'[k] # None
        PROVE  byConn'[sconn'[byPhone'[k]]] = byPhone'[k]
    <3>1. CASE k = p
      BY <1>1, <1>2, <3>1
    <3>2. CASE k # p
      <4>1. byPhone'[k] = byPhone[k] /\ k # lost /\ byPhone[k] \in Sessions /\ byPhone[k] # s
        BY <1>1, <1>3, <2>2, <3>2 DEF TypeOK, MapType
      <4> DEFINE t == byPhone[k]
      <4>2. sphone[t] = k /\ sconn'[t] = sconn[t] /\ sconn[t] \in Conns /\ byConn[sconn[t]] = t
        BY <1>2, <2>2, <4>1 DEF ReachInv, KeysAgree, MapsAgree, TypeOK, AttemptType
      <4>3. t # old1 /\ t # old2
        BY <1>5, <3>2, <4>1, <4>2
      <4> QED
        BY <1>1, <1>5, <4>1, <4>2, <4>3
    <3> QED
      BY <3>1, <3>2
  <2> QED
    BY <2>1, <2>2
<1>7. LoopIsReachable'
  <2> SUFFICES ASSUME evicted = {}, NEW t \in Sessions, pc'[t] \in Running, t \notin cancelled'
               PROVE  /\ byConn'[sconn'[t]] = t /\ cancels'[sconn'[t]] = t
                      /\ sphone'[t] # None => byPhone'[sphone'[t]] = t
    BY <1>2 DEF LoopIsReachable
  <2>1. CASE t = s
    BY <1>1, <1>2, <2>1
  <2>2. CASE t # s
    <3>1. /\ sconn[t] \in Conns /\ byConn[sconn[t]] = t /\ cancels[sconn[t]] = t
          /\ sphone[t] # None => sphone[t] \in Phones /\ byPhone[sphone[t]] = t
      BY <1>1, <1>2, <2>2 DEF ReachInv, LoopIsReachable, TypeOK, AttemptType, Running, Unsaved
    <3>2. t # old1 /\ t # old2
      BY <1>1
    <3> QED
      BY <1>1, <1>2, <1>5, <2>2, <3>1, <3>2
  <2> QED
    BY <2>1, <2>2
<1> QED
  BY <1>4, <1>6, <1>7 DEF ReachInv

LEMMA ReachCancel ==
  ASSUME TypeOK, ReachInv, NEW c \in Conns, CancelPairing(c)
  PROVE  ReachInv'
<1>1. /\ MapType'
      /\ \A k \in Conns : byConn'[k] = IF k = c THEN None ELSE byConn[k]
      /\ \A k \in Conns : cancels'[k] = IF k = c THEN None ELSE cancels[k]
      /\ \A k \in Phones :
           byPhone'[k] = IF k = Found(sphone, byConn[c]) THEN None ELSE byPhone[k]
  BY CancelMaps
<1>2. /\ UNCHANGED <<pc, sconn, sphone, evicted>>
      /\ cancelled' = cancelled \cup ({byConn[c]} \ {None})
  BY DEF CancelPairing, sess, ReachInv, KeysAgree
<1>3. KeysAgree'
  <2>1. cancels' = byConn'
    BY DEF CancelPairing, ReachInv, KeysAgree
  <2> QED
    BY <1>1, <1>2, <2>1 DEF ReachInv, KeysAgree, TypeOK, MapType
<1>4. MapsAgree'
  BY <1>1, <1>2 DEF ReachInv, KeysAgree, MapsAgree, TypeOK, AttemptType, MapType, Found
<1>5. LoopIsReachable'
  BY <1>1, <1>2
  DEF ReachInv, KeysAgree, MapsAgree, LoopIsReachable, TypeOK, AttemptType, MapType,
     Running, Unsaved, Found
<1> QED
  BY <1>3, <1>4, <1>5 DEF ReachInv

LEMMA ReachCancelByPhone ==
  ASSUME TypeOK, ReachInv, NEW c \in Conns, NEW p \in Phones \cup {None},
         CancelPairingByPhone(c, p)
  PROVE  ReachInv'
<1> DEFINE s == Found(byPhone, p)
<1>1. /\ s \in Sessions \cup {None} /\ MapType'
      /\ \A k \in Conns : byConn'[k] = IF k = Found(sconn, s) THEN None ELSE byConn[k]
      /\ \A k \in Conns : cancels'[k] = IF k = Found(sconn, s) THEN None ELSE cancels[k]
      /\ \A k \in Phones : byPhone'[k] = IF k = p THEN None ELSE byPhone[k]
  BY CancelByPhoneMaps
<1>2. /\ UNCHANGED <<pc, sconn, sphone, evicted>>
      /\ cancelled' = cancelled \cup ({s} \ {None})
  BY DEF CancelPairingByPhone, sess
<1>3. KeysAgree'
  <2>1. cancels' = byConn'
    BY DEF CancelPairingByPhone, ReachInv, KeysAgree
  <2> QED
    BY <1>1, <1>2, <2>1 DEF ReachInv, KeysAgree, TypeOK, MapType
<1>4. /\ s # None => p \in Phones /\ byPhone[p] = s /\ sphone[s] = p
      /\ p \in Phones => byPhone[p] = s
      /\ Found(sconn, s) = IF s = None THEN None ELSE sconn[s]
  BY <1>1 DEF Found, ReachInv, KeysAgree
<1> HIDE DEF s
<1>5. MapsAgree'
  BY <1>1, <1>2, <1>4 DEF ReachInv, KeysAgree, MapsAgree, TypeOK, AttemptType, MapType
<1>6. LoopIsReachable'
  BY <1>1, <1>2, <1>4 DEF ReachInv, KeysAgree, MapsAgree, LoopIsReachable, TypeOK, AttemptType, 
     MapType, Running, Unsaved
<1> QED
  BY <1>3, <1>5, <1>6 DEF ReachInv

LEMMA OwedStep ==
  ASSUME TypeOK, OwedInv, [Next]_vars
  PROVE  OwedInv'
<1>1. ASSUME NEW s \in Sessions, NEW c \in Conns, NEW p \in Phones \cup {None},
             NEW again \in BOOLEAN, Start(s, c, p, again)
      PROVE  OwedInv'
  BY <1>1 DEF Start, Go, OwedInv, TypeOK, AttemptType, SetType
<1>2. ASSUME NEW s \in Sessions, SetupOk(s) PROVE OwedInv'
  BY <1>2 DEF SetupOk, Go, OwedInv, TypeOK, AttemptType, SetType
<1>3. ASSUME NEW s \in Sessions, SetupFails(s) PROVE OwedInv'
  BY <1>3 DEF SetupFails, Go, Forget, OwedInv, TypeOK, AttemptType, SetType
<1>4. ASSUME NEW s \in Sessions, LoopFails(s) PROVE OwedInv'
  BY <1>4 DEF LoopFails, Close, Go, OwedInv, TypeOK, AttemptType, SetType
<1>5. ASSUME NEW s \in Sessions, Scanned(s) PROVE OwedInv'
  BY <1>5 DEF Scanned, Go, OwedInv, TypeOK, AttemptType, SetType
<1>6. ASSUME NEW s \in Sessions, Save(s) PROVE OwedInv'
  BY <1>6 DEF Save, Go, OwedInv, TypeOK, AttemptType, SetType
<1>7. ASSUME NEW s \in Sessions, SaveFails(s) PROVE OwedInv'
  BY <1>7 DEF SaveFails, Close, Go, OwedInv, TypeOK, AttemptType, SetType
<1>8. ASSUME NEW s \in Sessions, Connect(s) PROVE OwedInv'
  BY <1>8 DEF Connect, Close, Go, OwedInv, TypeOK, AttemptType, SetType
<1>9. ASSUME NEW s \in Sessions, Cleanup(s) PROVE OwedInv'
  BY <1>9 DEF Cleanup, Forget, sess, OwedInv, TypeOK, AttemptType, SetType
<1>10. ASSUME NEW s \in Sessions, Disconnect(s) PROVE OwedInv'
  BY <1>10 DEF Disconnect, sess, OwedInv, TypeOK, AttemptType, SetType
<1>11. ASSUME NEW c \in Conns, NEW next \in {"cancel", "remove"}, DeleteRead(c, next)
       PROVE  OwedInv'
  BY <1>11 DEF DeleteRead, sess, OwedInv, TypeOK, AttemptType, SetType
<1>12. ASSUME NEW c \in Conns, CancelPairing(c) PROVE OwedInv'
  BY <1>12 DEF CancelPairing, sess, OwedInv, TypeOK, AttemptType, SetType
<1>13. ASSUME NEW c \in Conns, NEW p \in Phones \cup {None}, CancelPairingByPhone(c, p)
      PROVE  OwedInv'
  BY <1>13 DEF CancelPairingByPhone, sess, OwedInv, TypeOK, AttemptType, SetType
<1>14. ASSUME NEW c \in Conns, DeleteRow(c) PROVE OwedInv'
  BY <1>14 DEF DeleteRow, sess, OwedInv, TypeOK, AttemptType, SetType
<1>15. ASSUME NEW s \in Sessions, SaveBegins(s) PROVE OwedInv'
  BY <1>15 DEF SaveBegins, Go, OwedInv, TypeOK, AttemptType, SetType
<1>16. CASE UNCHANGED vars
  BY <1>16 DEF vars, sess, OwedInv
<1> QED
  BY <1>1, <1>2, <1>3, <1>4, <1>5, <1>6, <1>7, <1>8, <1>9, <1>10, <1>11, <1>12, <1>13, <1>14,
     <1>15, <1>16
  DEF Next, LoopStep, DeleteStep

LEMMA ReachStep ==
  ASSUME TypeOK, OwedInv, ReachInv, [Next]_vars
  PROVE  ReachInv'
<1>1. ASSUME NEW s \in Sessions, NEW c \in Conns, NEW p \in Phones \cup {None},
             NEW again \in BOOLEAN, Start(s, c, p, again)
      PROVE  ReachInv'
  BY <1>1, ReachStart
<1>2. ASSUME NEW s \in Sessions, SetupOk(s) PROVE ReachInv'
  BY <1>2, ReachKept DEF SetupOk, Go, maps, TypeOK, AttemptType, Running, Unsaved
<1>3. ASSUME NEW s \in Sessions, SetupFails(s) PROVE ReachInv'
  BY <1>3, ReachForget DEF SetupFails, Go, TypeOK, AttemptType, Running, Unsaved
<1>4. ASSUME NEW s \in Sessions, LoopFails(s) PROVE ReachInv'
  BY <1>4, ReachKept DEF LoopFails, Close, Go, maps, TypeOK, AttemptType, Running, Unsaved
<1>5. ASSUME NEW s \in Sessions, Scanned(s) PROVE ReachInv'
  BY <1>5, ReachKept DEF Scanned, Go, maps, TypeOK, AttemptType, Running, Unsaved
<1>6. ASSUME NEW s \in Sessions, Save(s) PROVE ReachInv'
  BY <1>6, ReachKept DEF Save, Go, maps, TypeOK, AttemptType, Running, Unsaved
<1>7. ASSUME NEW s \in Sessions, SaveFails(s) PROVE ReachInv'
  BY <1>7, ReachKept DEF SaveFails, Close, Go, maps, TypeOK, AttemptType, Running, Unsaved
<1>8. ASSUME NEW s \in Sessions, Connect(s) PROVE ReachInv'
  BY <1>8, ReachKept DEF Connect, Close, Go, maps, TypeOK, AttemptType, Running, Unsaved
<1>9. ASSUME NEW s \in Sessions, Cleanup(s) PROVE ReachInv'
  BY <1>9, ReachForget DEF Cleanup, sess, OwedInv, Running, Unsaved
<1>10. ASSUME NEW s \in Sessions, Disconnect(s) PROVE ReachInv'
  BY <1>10, ReachKept DEF Disconnect, sess, maps, TypeOK, AttemptType, Running, Unsaved
<1>11. ASSUME NEW c \in Conns, NEW next \in {"cancel", "remove"}, DeleteRead(c, next)
       PROVE  ReachInv'
  BY <1>11, ReachKept DEF DeleteRead, sess, maps, TypeOK, AttemptType, Running, Unsaved
<1>12. ASSUME NEW c \in Conns, CancelPairing(c) PROVE ReachInv'
  BY <1>12, ReachCancel
<1>13. ASSUME NEW c \in Conns, NEW p \in Phones \cup {None}, CancelPairingByPhone(c, p)
      PROVE  ReachInv'
  BY <1>13, ReachCancelByPhone
<1>14. ASSUME NEW c \in Conns, DeleteRow(c) PROVE ReachInv'
  BY <1>14, ReachKept DEF DeleteRow, sess, maps, TypeOK, AttemptType, Running, Unsaved
<1>15. ASSUME NEW s \in Sessions, SaveBegins(s) PROVE ReachInv'
  BY <1>15, ReachKept DEF SaveBegins, Go, maps, TypeOK, AttemptType, Running, Unsaved
<1>16. CASE UNCHANGED vars
  BY <1>16, ReachKept DEF vars, sess
<1> QED
  BY <1>1, <1>2, <1>3, <1>4, <1>5, <1>6, <1>7, <1>8, <1>9, <1>10, <1>11, <1>12, <1>13, <1>14,
     <1>15, <1>16
  DEF Next, LoopStep, DeleteStep

(* Whatever attempts, cancellations and deletions run at the same time, a
   loop that runs uncancelled is found under its connection and its phone,
   unless the cleanup of an earlier attempt took its entry.                 *)
THEOREM LoopsAreFound == Spec => []LoopIsReachable
<1>1. Init => OwedInv /\ ReachInv
  BY DEF Init, OwedInv, ReachInv, KeysAgree, MapsAgree, LoopIsReachable, Running, Unsaved
<1>2. TypeOK /\ OwedInv /\ ReachInv /\ [Next]_vars => OwedInv' /\ ReachInv'
  BY OwedStep, ReachStep
<1>3. ReachInv => LoopIsReachable
  BY DEF ReachInv
<1> QED
  BY <1>1, <1>2, <1>3, TypeCorrect, PTL DEF Spec

-----------------------------------------------------------------------------
(* A pairing that is cancelled in time leaves nothing behind.               *)

NoTrace(s) == s \notin connected /\ \A c \in Conns : jid[c] # s

(* Before its statement begins, an attempt has no row and no session. *)
Fresh(s) == pc[s] \in Unsaved \cup {"unused"} => NoTrace(s)

(* Cancelled before its statement, or over: it can write nothing any more. *)
Doomed(s) == (pc[s] \in Unsaved /\ s \in cancelled) \/ pc[s] = "done"

Leaves(s) == Doomed(s) /\ NoTrace(s)

LEMMA CancelledOnly ==
  ASSUME TypeOK, [Next]_vars
  PROVE  cancelled \subseteq cancelled'
BY DEF Next, vars, sess, LoopStep, DeleteStep, Start, SetupOk, SetupFails, LoopFails, Scanned,
   SaveBegins, Save, SaveFails, Connect, Cleanup, Disconnect, DeleteRead, CancelPairing,
   CancelPairingByPhone, DeleteRow

(* Only the attempt itself writes a row or a session of its own, and it
   leaves the stages before the statement for one where it writes, or ends. *)
LEMMA TraceStep ==
  ASSUME TypeOK, [Next]_vars, NEW t \in Sessions
  PROVE  /\ NoTrace(t) /\ pc[t] \notin {"saving", "register"} => (NoTrace(t))'
         /\ pc[t] = "done" => pc'[t] = "done"
         /\ pc[t] \in Unsaved /\ pc'[t] \notin Unsaved \cup {"done"}
              => pc'[t] = "saving" /\ t \notin cancelled
         /\ pc'[t] \in Unsaved \cup {"unused"} => pc[t] \in Unsaved \cup {"unused"}
<1> DEFINE Goal == /\ NoTrace(t) /\ pc[t] \notin {"saving", "register"} => (NoTrace(t))'
                   /\ pc[t] = "done" => pc'[t] = "done"
                   /\ pc[t] \in Unsaved /\ pc'[t] \notin Unsaved \cup {"done"}
                        => pc'[t] = "saving" /\ t \notin cancelled
                   /\ pc'[t] \in Unsaved \cup {"unused"} => pc[t] \in Unsaved \cup {"unused"}
<1>1. ASSUME NEW s \in Sessions, NEW c \in Conns, NEW p \in Phones \cup {None},
             NEW again \in BOOLEAN, Start(s, c, p, again)
      PROVE  Goal
  BY <1>1 DEF Start, Go, NoTrace, TypeOK, AttemptType, RowType, SetType, Unsaved
<1>2. ASSUME NEW s \in Sessions, SetupOk(s) PROVE Goal
  BY <1>2 DEF SetupOk, Go, NoTrace, TypeOK, AttemptType, RowType, SetType, Unsaved
<1>3. ASSUME NEW s \in Sessions, SetupFails(s) PROVE Goal
  BY <1>3 DEF SetupFails, Go, NoTrace, TypeOK, AttemptType, RowType, SetType, Unsaved
<1>4. ASSUME NEW s \in Sessions, LoopFails(s) PROVE Goal
  BY <1>4 DEF LoopFails, Close, Go, NoTrace, TypeOK, AttemptType, RowType, SetType, Unsaved
<1>5. ASSUME NEW s \in Sessions, Scanned(s) PROVE Goal
  BY <1>5 DEF Scanned, Go, NoTrace, TypeOK, AttemptType, RowType, SetType, Unsaved
<1>6. ASSUME NEW s \in Sessions, SaveBegins(s) PROVE Goal
  BY <1>6 DEF SaveBegins, Go, NoTrace, TypeOK, AttemptType, RowType, SetType, Unsaved
<1>7. ASSUME NEW s \in Sessions, Save(s) PROVE Goal
  BY <1>7 DEF Save, Saved, Go, NoTrace, TypeOK, AttemptType, RowType, SetType, Unsaved
<1>8. ASSUME NEW s \in Sessions, SaveFails(s) PROVE Goal
  BY <1>8 DEF SaveFails, Saved, Close, Go, NoTrace, TypeOK, AttemptType, RowType, SetType, Unsaved
<1>9. ASSUME NEW s \in Sessions, Connect(s) PROVE Goal
  BY <1>9 DEF Connect, Close, Go, NoTrace, TypeOK, AttemptType, RowType, SetType, Unsaved
<1>10. ASSUME NEW s \in Sessions, Cleanup(s) PROVE Goal
  BY <1>10 DEF Cleanup, sess, NoTrace, TypeOK, AttemptType, RowType, SetType, Unsaved
<1>11. ASSUME NEW s \in Sessions, Disconnect(s) PROVE Goal
  BY <1>11 DEF Disconnect, sess, NoTrace, TypeOK, AttemptType, RowType, SetType, Unsaved
<1>12. ASSUME NEW c \in Conns, NEW next \in {"cancel", "remove"}, DeleteRead(c, next) PROVE Goal
  BY <1>12 DEF DeleteRead, sess, NoTrace, TypeOK, AttemptType, RowType, SetType, Unsaved
<1>13. ASSUME NEW c \in Conns, CancelPairing(c) PROVE Goal
  BY <1>13 DEF CancelPairing, sess, NoTrace, TypeOK, AttemptType, RowType, SetType, Unsaved
<1>14. ASSUME NEW c \in Conns, NEW p \in Phones \cup {None}, CancelPairingByPhone(c, p) PROVE Goal
  BY <1>14 DEF CancelPairingByPhone, sess, NoTrace, TypeOK, AttemptType, RowType, SetType, Unsaved
<1>15. ASSUME NEW c \in Conns, DeleteRow(c) PROVE Goal
  BY <1>15 DEF DeleteRow, sess, NoTrace, TypeOK, AttemptType, RowType, SetType, Unsaved
<1>16. CASE UNCHANGED vars
  BY <1>16 DEF vars, sess, NoTrace, TypeOK, AttemptType, RowType, SetType, Unsaved
<1> QED
  BY <1>1, <1>2, <1>3, <1>4, <1>5, <1>6, <1>7, <1>8, <1>9, <1>10, <1>11, <1>12, <1>13, <1>14,
     <1>15, <1>16
  DEF Next, LoopStep, DeleteStep

(* An attempt cancelled before its row began to be written leaves no row and
   no session, for any interleaving with the other attempts and deletions.  *)
THEOREM CancelledCorrect == Spec => CancelledLeavesNothing
<1> SUFFICES ASSUME NEW s \in Sessions
             PROVE  Spec => [](s \in cancelled /\ pc[s] \in Unsaved =>
                                 [](s \notin connected /\ \A c \in Conns : jid[c] # s))
  BY DEF CancelledLeavesNothing
<1>1. Init => Fresh(s)
  BY DEF Init, Fresh, NoTrace
<1>2. TypeOK /\ Fresh(s) /\ [Next]_vars => Fresh(s)'
  BY TraceStep DEF Fresh, Unsaved, NoTrace
<1>3. TypeOK /\ Leaves(s) /\ [Next]_vars => Leaves(s)'
  BY TraceStep, CancelledOnly DEF Leaves, Doomed, Unsaved
<1>4. Fresh(s) /\ s \in cancelled /\ pc[s] \in Unsaved => Leaves(s)
  BY DEF Fresh, Leaves, Doomed
<1>5. Leaves(s) => s \notin connected /\ \A c \in Conns : jid[c] # s
  BY DEF Leaves, NoTrace
<1> QED
  BY <1>1, <1>2, <1>3, <1>4, <1>5, TypeCorrect, PTL DEF Spec
=============================================================================
