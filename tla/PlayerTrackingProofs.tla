-------------------------- MODULE PlayerTrackingProofs --------------------------
(***************************************************************************)
(* What is proved of the player hooks and of the teleports that read what  *)
(* they leave: the invariants of PlayerTracking and TeleportExecution, for *)
(* every number of players and controllers and every bound on the queue.   *)
(***************************************************************************)
EXTENDS TeleportExecution, SelectionProofs, TLAPS

-----------------------------------------------------------------------------
(* The inductive invariant *)

IsLogin(k) == k \in alive \/ identity[k] # "gone"

Pending(k) == \E i \in DOMAIN pendingJoins : pendingJoins[i] = k

\* Whoever plays, or is still readable, plays for a player.
LoginsHavePlayers == \A k \in Controllers : IsLogin(k) => player[k] \in Players

\* What is kept under a player's id rests on a login that can be identified:
\* each hook that takes the last one away takes everything away.
KeptForPresentPlayers ==
    \A p \in sessions \cup DOMAIN activePlayers \cup DOMAIN locations :
        \E k \in alive : player[k] = p /\ identity[k] = "resolved"

\* A login outside overlapped has its player to itself.
SoleLogins ==
    \A k \in Controllers \ overlapped, j \in Controllers :
        IsLogin(k) /\ IsLogin(j) /\ player[j] = player[k] => j = k

\* A login that has not shown its identity waits, or was dropped.
UnresolvedLoginsWait ==
    \A k \in alive : identity[k] \in {"unset", "id"} => k \in dropped \/ Pending(k)

IInv ==
    /\ TypeOK
    /\ NoDanglingControllers
    /\ ActiveUnderOwnController
    /\ LoginsHavePlayers
    /\ KeptForPresentPlayers
    /\ SoleLogins
    /\ UnresolvedLoginsWait
    /\ SoleLoginsAreTracked
-----------------------------------------------------------------------------
(* Maps and the queue *)

LEMMA Maps ==
    ASSUME NEW S, NEW T, NEW f
    PROVE  f \in PartialMap(S, T) <=>
               /\ f = [x \in DOMAIN f |-> f[x]]
               /\ DOMAIN f \subseteq S /\ \A x \in DOMAIN f : f[x] \in T
BY DEF PartialMap

LEMMA WithoutIs ==
    ASSUME NEW S, NEW T, NEW f \in PartialMap(S, T), NEW X
    PROVE  /\ Without(f, X) \in PartialMap(S, T)
           /\ DOMAIN Without(f, X) = DOMAIN f \ X
           /\ \A x \in DOMAIN f \ X : Without(f, X)[x] = f[x]
<1> DEFINE g == Without(f, X)
<1>1. DOMAIN g = DOMAIN f \ X /\ \A x \in DOMAIN f \ X : g[x] = f[x] BY DEF Without
<1>2. g = [x \in DOMAIN g |-> g[x]] BY DEF Without
<1>3. DOMAIN f \subseteq S /\ \A x \in DOMAIN f : f[x] \in T BY Maps
<1> HIDE DEF g
<1>4. g \in PartialMap(S, T) BY <1>1, <1>2, <1>3, Maps
<1> QED BY <1>1, <1>4 DEF g

\* What waits after elements were taken from the queue.
LEMMA QueueIs ==
    ASSUME TypeOK, NEW S
    PROVE  /\ Selected(pendingJoins, S) \in Seq(Controllers)
           /\ Len(Selected(pendingJoins, S)) <= MaxPendingJoins
           /\ IsInjective(Selected(pendingJoins, S))
           /\ \A k : (\E i \in DOMAIN Selected(pendingJoins, S) : Selected(pendingJoins, S)[i] = k)
                        <=> Pending(k) /\ k \in S
<1>1. pendingJoins \in Seq(Controllers) BY DEF TypeOK
<1>2. /\ Selected(pendingJoins, S) \in Seq(Controllers)
      /\ Len(Selected(pendingJoins, S)) <= Len(pendingJoins)
  BY <1>1, SelectedElements
<1>3. \A k : (\E i \in DOMAIN Selected(pendingJoins, S) : Selected(pendingJoins, S)[i] = k)
                <=> k \in S /\ \E i \in DOMAIN pendingJoins : pendingJoins[i] = k
  BY <1>1, SelectedElements
<1>4. Len(Selected(pendingJoins, S)) <= MaxPendingJoins
  <2>1. /\ Len(Selected(pendingJoins, S)) \in Nat /\ Len(pendingJoins) \in Nat
        /\ MaxPendingJoins \in Nat /\ Len(pendingJoins) <= MaxPendingJoins
    BY <1>1, <1>2, PlayerTrackingAssumption DEF TypeOK
  <2> QED BY <2>1, <1>2
<1>5. IsInjective(Selected(pendingJoins, S))
  BY <1>1, SelectedOnce DEF TypeOK, IsInjective
<1> QED BY <1>2, <1>3, <1>4, <1>5 DEF Pending

LEMMA ContainsIsPending ==
    ASSUME TypeOK, NEW k
    PROVE  Contains(pendingJoins, k) <=> Pending(k)
BY DEF TypeOK, Contains, Pending

-----------------------------------------------------------------------------
(* Each step keeps it *)

LEMMA InitHolds == Init => IInv
<1> SUFFICES ASSUME Init PROVE IInv OBVIOUS
<1> USE DEF Init
<1>1. TypeOK
  <2>1. [p \in {} |-> None] \in PartialMap(Players, Controllers) BY DEF PartialMap
  <2>2. <<>> \in Seq(Controllers) /\ Len(<<>>) = 0 OBVIOUS
  <2>3. IsInjective(<<>>) BY DEF IsInjective
  <2> QED BY <2>1, <2>2, <2>3, PlayerTrackingAssumption DEF TypeOK
<1>2. DOMAIN pendingJoins = {} /\ DOMAIN activePlayers = {} /\ DOMAIN locations = {} OBVIOUS
<1>3. NoDanglingControllers /\ ActiveUnderOwnController
  BY <1>2 DEF NoDanglingControllers, ActiveUnderOwnController
<1>4. LoginsHavePlayers /\ SoleLogins BY DEF LoginsHavePlayers, SoleLogins, IsLogin
<1>5. KeptForPresentPlayers /\ UnresolvedLoginsWait
  BY <1>2 DEF KeptForPresentPlayers, UnresolvedLoginsWait
<1>6. SoleLoginsAreTracked BY DEF SoleLoginsAreTracked, Settled
<1> QED BY <1>1, <1>3, <1>4, <1>5, <1>6 DEF IInv

LEMMA StutterKeepsInv ==
    ASSUME IInv, UNCHANGED vars PROVE IInv'
BY DEF IInv, vars, gameVars, TypeOK, NoDanglingControllers, ActiveUnderOwnController,
       LoginsHavePlayers, IsLogin, KeptForPresentPlayers, SoleLogins, UnresolvedLoginsWait,
       Pending, SoleLoginsAreTracked, Settled, Tracked

LEMMA ReplicateStateKeepsInv ==
    ASSUME IInv, NEW k \in Controllers, ReplicateState(k) PROVE IInv'
<1> USE DEF IInv, ReplicateState
<1>1. TypeOK' BY DEF TypeOK
<1>2. /\ \A j \in Controllers : j # k => identity'[j] = identity[j]
      /\ identity[k] \in {"unset", "id"} /\ identity'[k] \in {"id", "resolved"}
      /\ identity[k] = "unset" => identity'[k] = "id"
  BY DEF TypeOK
<1>3. alive \subseteq Controllers /\ \A p \in DOMAIN activePlayers : activePlayers[p] \in Controllers
  BY Maps DEF TypeOK
<1>4. NoDanglingControllers' BY DEF NoDanglingControllers
<1>5. ActiveUnderOwnController' BY <1>2, <1>3 DEF ActiveUnderOwnController
<1>6. LoginsHavePlayers' BY <1>2 DEF LoginsHavePlayers, IsLogin
<1>7. KeptForPresentPlayers' BY <1>2, <1>3 DEF KeptForPresentPlayers
<1>8. SoleLogins' BY <1>2 DEF SoleLogins, IsLogin
<1>9. UnresolvedLoginsWait' BY <1>2, <1>3 DEF UnresolvedLoginsWait, Pending
<1>10. SoleLoginsAreTracked'
  <2> SUFFICES ASSUME NEW j \in Controllers \ overlapped, Settled(j)' PROVE Tracked(j)'
    BY DEF SoleLoginsAreTracked
  <2>1. CASE j = k
    <3>1. k \in alive /\ k \notin dropped /\ ~Contains(pendingJoins, k) BY <2>1 DEF Settled
    <3>2. ~Pending(k) BY <3>1, ContainsIsPending
    <3> QED BY <3>1, <3>2, <1>2 DEF UnresolvedLoginsWait
  <2>2. CASE j # k
    <3>1. Settled(j) BY <2>2, <1>2 DEF Settled
    <3> QED BY <3>1 DEF SoleLoginsAreTracked, Tracked
  <2> QED BY <2>1, <2>2
<1> QED BY <1>1, <1>4, <1>5, <1>6, <1>7, <1>8, <1>9, <1>10

LEMMA ChangePawnKeepsInv ==
    ASSUME IInv, NEW k \in Controllers, ChangePawn(k) PROVE IInv'
<1> USE DEF IInv, ChangePawn
<1>1. TypeOK' BY DEF TypeOK
<1>2. NoDanglingControllers' /\ ActiveUnderOwnController'
  BY DEF NoDanglingControllers, ActiveUnderOwnController
<1>3. LoginsHavePlayers' /\ SoleLogins' BY DEF LoginsHavePlayers, SoleLogins, IsLogin
<1>4. KeptForPresentPlayers' BY DEF KeptForPresentPlayers
<1>5. UnresolvedLoginsWait' BY DEF UnresolvedLoginsWait, Pending
<1>6. SoleLoginsAreTracked' BY DEF SoleLoginsAreTracked, Settled, Tracked
<1> QED BY <1>1, <1>2, <1>3, <1>4, <1>5, <1>6

LEMMA BeginPlayKeepsInv ==
    ASSUME IInv, NEW k \in Controllers, NEW p \in Players, BeginPlay(k, p) PROVE IInv'
<1> USE DEF IInv
<1> DEFINE full == Len(pendingJoins) >= MaxPendingJoins
<1>1. /\ k \notin alive /\ identity[k] = "gone"
      /\ player' = [player EXCEPT ![k] = p] /\ identity' = [identity EXCEPT ![k] = "unset"]
      /\ alive' = alive \cup {k}
      /\ UNCHANGED <<pawns, leaving, activePlayers, sessions, locations>>
  BY DEF BeginPlay
<1>2. overlapped' = IF Logins(p) = {} THEN overlapped \ {k} ELSE overlapped \cup Logins(p) \cup {k}
  BY DEF BeginPlay
<1>3. /\ pendingJoins \in Seq(Controllers) /\ Len(pendingJoins) \in Nat
      /\ Len(pendingJoins) <= MaxPendingJoins /\ MaxPendingJoins \in Nat
  BY PlayerTrackingAssumption DEF TypeOK
<1>4. ~Pending(k) BY <1>1 DEF NoDanglingControllers, Pending
<1>5. ~Contains(pendingJoins, k) BY <1>4, ContainsIsPending
<1>6. /\ full => pendingJoins' = pendingJoins /\ dropped' = dropped \cup {k}
      /\ ~full => pendingJoins' = Append(pendingJoins, k) /\ dropped' = dropped \ {k}
  BY <1>5 DEF BeginPlay
<1>7. /\ pendingJoins' \in Seq(Controllers) /\ Len(pendingJoins') <= MaxPendingJoins
      /\ IsInjective(pendingJoins')
      /\ \A i \in DOMAIN pendingJoins : i \in DOMAIN pendingJoins' /\ pendingJoins'[i] = pendingJoins[i]
      /\ \A i \in DOMAIN pendingJoins' : i \in DOMAIN pendingJoins \/ pendingJoins'[i] = k
      /\ k \in dropped' \/ \E i \in DOMAIN pendingJoins' : pendingJoins'[i] = k
  <2>1. CASE full BY <2>1, <1>6, <1>3 DEF TypeOK
  <2>2. CASE ~full
    <3> DEFINE q == Append(pendingJoins, k)
    <3>1. /\ q \in Seq(Controllers) /\ Len(q) = Len(pendingJoins) + 1
          /\ DOMAIN q = 1..(Len(pendingJoins) + 1) /\ DOMAIN pendingJoins = 1..Len(pendingJoins)
          /\ q[Len(pendingJoins) + 1] = k
          /\ \A i \in 1..Len(pendingJoins) : q[i] = pendingJoins[i]
      BY <1>3
    <3>2. pendingJoins' = q BY <2>2, <1>6
    <3> HIDE DEF q
    <3>3. Len(q) <= MaxPendingJoins BY <2>2, <1>3, <3>1
    <3>4. \A i \in DOMAIN q : i \in DOMAIN pendingJoins \/ i = Len(pendingJoins) + 1 BY <1>3, <3>1
    <3>5. \A i \in DOMAIN pendingJoins : i \in DOMAIN q BY <1>3, <3>1
    <3>6. Len(pendingJoins) + 1 \in DOMAIN q BY <1>3, <3>1
    <3>7. ASSUME NEW i \in DOMAIN q, NEW j \in DOMAIN q, q[i] = q[j] PROVE i = j
      <4>1. \A l \in DOMAIN pendingJoins : q[l] # k BY <3>1, <1>4 DEF Pending
      <4>2. i \in DOMAIN pendingJoins /\ j \in DOMAIN pendingJoins => i = j
        BY <3>1, <3>7 DEF TypeOK, IsInjective
      <4> QED BY <4>1, <4>2, <3>1, <3>4, <3>7
    <3>8. IsInjective(q) BY <3>7 DEF IsInjective
    <3> QED BY <3>1, <3>2, <3>3, <3>4, <3>5, <3>6, <3>8
  <2> QED BY <2>1, <2>2
<1>8. /\ player'[k] = p /\ \A j \in Controllers : j # k => player'[j] = player[j]
      /\ identity'[k] = "unset" /\ \A j \in Controllers : j # k => identity'[j] = identity[j]
  BY <1>1 DEF TypeOK
<1>9. alive \subseteq Controllers /\ \A q \in DOMAIN activePlayers : activePlayers[q] \in Controllers
  BY Maps DEF TypeOK
<1>10. TypeOK'
  <2>1. dropped' \subseteq Controllers BY <1>6 DEF TypeOK
  <2>2. overlapped' \subseteq Controllers BY <1>2 DEF TypeOK, Logins
  <2>3. player' \in [Controllers -> Players \cup {None}] BY <1>1 DEF TypeOK
  <2>4. identity' \in [Controllers -> {"unset", "id", "resolved", "gone"}] BY <1>1 DEF TypeOK
  <2>5. alive' \subseteq Controllers /\ pawns' \subseteq alive' /\ leaving' \subseteq alive'
    BY <1>1 DEF TypeOK
  <2>6. /\ activePlayers' \in PartialMap(Players, Controllers) /\ sessions' \subseteq Players
        /\ locations' \in PartialMap(Players, Controllers)
    BY <1>1 DEF TypeOK
  <2> QED BY <2>1, <2>2, <2>3, <2>4, <2>5, <2>6, <1>7 DEF TypeOK
<1>11. NoDanglingControllers' BY <1>1, <1>7 DEF NoDanglingControllers
<1>12. \A q \in DOMAIN activePlayers : activePlayers[q] # k BY <1>1 DEF NoDanglingControllers
<1>13. ActiveUnderOwnController' BY <1>1, <1>8, <1>9, <1>12 DEF ActiveUnderOwnController
<1>14. LoginsHavePlayers' BY <1>1, <1>8 DEF LoginsHavePlayers, IsLogin
<1>15. KeptForPresentPlayers'
  <2> SUFFICES ASSUME NEW q \in sessions \cup DOMAIN activePlayers \cup DOMAIN locations
               PROVE  \E j \in alive' : player'[j] = q /\ identity'[j] = "resolved"
    BY <1>1 DEF KeptForPresentPlayers
  <2>1. PICK j \in alive : player[j] = q /\ identity[j] = "resolved" BY DEF KeptForPresentPlayers
  <2>2. j \in Controllers /\ j # k BY <2>1, <1>1, <1>9
  <2> QED BY <2>1, <2>2, <1>1, <1>8
<1>16. SoleLogins'
  <2> SUFFICES ASSUME NEW j \in Controllers \ overlapped', NEW l \in Controllers,
                      IsLogin(j)', IsLogin(l)', player'[l] = player'[j]
               PROVE  l = j
    BY DEF SoleLogins
  <2>1. \A i \in Controllers : i # k /\ IsLogin(i)' => IsLogin(i) BY <1>1, <1>8 DEF IsLogin
  <2>2. CASE j = k
    <3>1. Logins(p) = {} BY <2>2, <1>2
    <3>2. CASE l # k
      <4>1. IsLogin(l) /\ player[l] = p BY <3>2, <2>1, <2>2, <1>8
      <4> QED BY <3>1, <4>1 DEF Logins, IsLogin
    <3> QED BY <3>2, <2>2
  <2>3. CASE j # k
    <3>1. IsLogin(j) BY <2>1, <2>3
    <3>2. CASE l = k
      <4>1. player[j] = p BY <3>2, <2>3, <1>8
      <4>2. j \in Logins(p) BY <3>1, <4>1 DEF Logins, IsLogin
      <4> QED BY <4>2, <1>2
    <3>3. CASE l # k
      <4>1. IsLogin(l) /\ player[l] = player[j] BY <3>3, <2>1, <2>3, <1>8
      <4>2. j \notin overlapped BY <1>2, <2>3
      <4> QED BY <3>1, <4>1, <4>2 DEF SoleLogins
    <3> QED BY <3>2, <3>3
  <2> QED BY <2>2, <2>3
<1>17. UnresolvedLoginsWait'
  <2> SUFFICES ASSUME NEW j \in alive', identity'[j] \in {"unset", "id"}
               PROVE  j \in dropped' \/ \E i \in DOMAIN pendingJoins' : pendingJoins'[i] = j
    BY DEF UnresolvedLoginsWait, Pending
  <2>1. CASE j = k BY <2>1, <1>7
  <2>2. CASE j # k
    <3>1. j \in alive /\ identity[j] = identity'[j] BY <2>2, <1>1, <1>8, <1>9
    <3>2. j \in dropped \/ Pending(j) BY <3>1 DEF UnresolvedLoginsWait
    <3>3. j \in dropped => j \in dropped' BY <2>2, <1>6
    <3>4. Pending(j) => \E i \in DOMAIN pendingJoins' : pendingJoins'[i] = j BY <1>7 DEF Pending
    <3> QED BY <3>2, <3>3, <3>4
  <2> QED BY <2>1, <2>2
<1>18. SoleLoginsAreTracked'
  <2> SUFFICES ASSUME NEW j \in Controllers \ overlapped', Settled(j)' PROVE Tracked(j)'
    BY DEF SoleLoginsAreTracked
  <2>1. j # k BY <1>8 DEF Settled
  <2>2. j \in alive \ (leaving \cup dropped) /\ identity[j] = "resolved"
    BY <2>1, <1>1, <1>6, <1>8 DEF Settled
  <2>3. ~Contains(pendingJoins, j)
    <3>1. ~\E i \in DOMAIN pendingJoins' : pendingJoins'[i] = j
      BY <1>10, ContainsIsPending DEF Settled, Contains, TypeOK
    <3> QED BY <3>1, <1>7, ContainsIsPending DEF Pending
  <2>4. j \notin overlapped BY <1>2, <2>1
  <2>5. Tracked(j) BY <2>2, <2>3, <2>4 DEF SoleLoginsAreTracked, Settled
  <2> QED BY <2>1, <2>5, <1>1, <1>8 DEF Tracked
<1> QED BY <1>10, <1>11, <1>13, <1>14, <1>15, <1>16, <1>17, <1>18

\* What a player's leaving takes away.
LEMMA PlayerLeftIs ==
    ASSUME IInv, NEW S, PlayerLeft(S)
    PROVE  /\ sessions' = sessions \ S /\ sessions' \subseteq Players
           /\ locations' \in PartialMap(Players, Controllers)
           /\ DOMAIN locations' = DOMAIN locations \ S
<1>1. locations \in PartialMap(Players, Controllers) /\ sessions \subseteq Players
  BY DEF IInv, TypeOK
<1>2. locations' = Without(locations, S) /\ sessions' = sessions \ S BY DEF PlayerLeft
<1> QED BY <1>1, <1>2, WithoutIs

LEMMA LogoutKeepsInv ==
    ASSUME IInv, NEW k \in Controllers, Logout(k) PROVE IInv'
<1> USE DEF IInv
<1>1. /\ k \in alive /\ leaving' = leaving \cup {k}
      /\ UNCHANGED <<player, alive, identity, pawns, pendingJoins, activePlayers, dropped, overlapped>>
  BY DEF Logout
<1>2. \/ /\ sessions' = sessions /\ locations' = locations
         /\ identity[k] \notin {"id", "resolved"}
      \/ PlayerLeft({player[k]})
  BY DEF Logout
<1>3. /\ sessions' \subseteq sessions /\ DOMAIN locations' \subseteq DOMAIN locations
      /\ locations' \in PartialMap(Players, Controllers)
      /\ \A p \in sessions : p \in sessions' \/ p = player[k]
  <2>1. CASE sessions' = sessions /\ locations' = locations BY <2>1 DEF TypeOK
  <2>2. CASE PlayerLeft({player[k]})
    <3>1. /\ sessions' = sessions \ {player[k]} /\ DOMAIN locations' = DOMAIN locations \ {player[k]}
          /\ locations' \in PartialMap(Players, Controllers)
      BY <2>2, PlayerLeftIs
    <3> QED BY <3>1
  <2> QED BY <2>1, <2>2, <1>2
<1>4. TypeOK' BY <1>1, <1>3 DEF TypeOK
<1>5. NoDanglingControllers' /\ ActiveUnderOwnController'
  BY <1>1 DEF NoDanglingControllers, ActiveUnderOwnController
<1>6. LoginsHavePlayers' /\ SoleLogins' BY <1>1 DEF LoginsHavePlayers, SoleLogins, IsLogin
<1>7. KeptForPresentPlayers' BY <1>1, <1>3 DEF KeptForPresentPlayers
<1>8. UnresolvedLoginsWait' BY <1>1 DEF UnresolvedLoginsWait, Pending
<1>9. SoleLoginsAreTracked'
  <2> SUFFICES ASSUME NEW j \in Controllers \ overlapped, Settled(j)' PROVE Tracked(j)'
    BY <1>1 DEF SoleLoginsAreTracked
  <2>1. j # k /\ Settled(j) BY <1>1 DEF Settled
  <2>2. Tracked(j) BY <2>1 DEF SoleLoginsAreTracked
  <2>3. player[j] # player[k] BY <2>1, <1>1 DEF SoleLogins, IsLogin, Settled
  <2> QED BY <2>2, <2>3, <1>1, <1>3 DEF Tracked
<1> QED BY <1>4, <1>5, <1>6, <1>7, <1>8, <1>9

LEMMA StateEndPlayKeepsInv ==
    ASSUME IInv, NEW k \in Controllers, StateEndPlay(k) PROVE IInv'
<1> USE DEF IInv
<1>1. /\ identity[k] # "gone" /\ identity' = [identity EXCEPT ![k] = "gone"]
      /\ UNCHANGED <<player, alive, pawns, leaving, pendingJoins, dropped, overlapped>>
  BY DEF StateEndPlay
<1>2. identity'[k] = "gone" /\ \A j \in Controllers : j # k => identity'[j] = identity[j]
  BY <1>1 DEF TypeOK
<1>3. \/ /\ identity[k] = "resolved" /\ PlayerLeft({player[k]})
         /\ activePlayers' = Without(activePlayers, {player[k]})
      \/ identity[k] # "resolved" /\ UNCHANGED <<sessions, locations, activePlayers>>
  BY DEF StateEndPlay, IsResolvedIdentity
<1>4. /\ sessions' \subseteq sessions /\ DOMAIN locations' \subseteq DOMAIN locations
      /\ locations' \in PartialMap(Players, Controllers)
      /\ activePlayers' \in PartialMap(Players, Controllers)
      /\ DOMAIN activePlayers' \subseteq DOMAIN activePlayers
      /\ \A p \in DOMAIN activePlayers' : activePlayers'[p] = activePlayers[p]
      /\ \A p \in sessions : p \in sessions' \/ p = player[k]
      /\ \A p \in DOMAIN activePlayers : p \in DOMAIN activePlayers' \/ p = player[k]
      /\ identity[k] = "resolved" =>
             player[k] \notin sessions' \cup DOMAIN activePlayers' \cup DOMAIN locations'
  <2>1. CASE identity[k] # "resolved" /\ UNCHANGED <<sessions, locations, activePlayers>>
    BY <2>1 DEF TypeOK
  <2>2. CASE /\ PlayerLeft({player[k]})
             /\ activePlayers' = Without(activePlayers, {player[k]})
    <3>1. activePlayers \in PartialMap(Players, Controllers) BY DEF TypeOK
    <3>2. /\ activePlayers' \in PartialMap(Players, Controllers)
          /\ DOMAIN activePlayers' = DOMAIN activePlayers \ {player[k]}
          /\ \A p \in DOMAIN activePlayers \ {player[k]} : activePlayers'[p] = activePlayers[p]
      BY <3>1, <2>2, WithoutIs
    <3>3. /\ sessions' = sessions \ {player[k]}
          /\ locations' \in PartialMap(Players, Controllers)
          /\ DOMAIN locations' = DOMAIN locations \ {player[k]}
      BY <2>2, PlayerLeftIs
    <3> QED BY <3>2, <3>3
  <2> QED BY <2>1, <2>2, <1>3
<1>5. alive \subseteq Controllers /\ \A p \in DOMAIN activePlayers : activePlayers[p] \in Controllers
  BY Maps DEF TypeOK
<1>6. TypeOK'
  <2>1. identity' \in [Controllers -> {"unset", "id", "resolved", "gone"}] BY <1>1 DEF TypeOK
  <2> QED BY <1>1, <1>4, <2>1 DEF TypeOK
<1>7. NoDanglingControllers' BY <1>1, <1>4 DEF NoDanglingControllers
<1>8. ActiveUnderOwnController'
  <2> SUFFICES ASSUME NEW p \in DOMAIN activePlayers'
               PROVE  player[activePlayers[p]] = p /\ identity'[activePlayers[p]] = "resolved"
    BY <1>1, <1>4 DEF ActiveUnderOwnController
  <2>1. player[activePlayers[p]] = p /\ identity[activePlayers[p]] = "resolved"
    BY <1>4 DEF ActiveUnderOwnController
  <2>2. activePlayers[p] # k BY <2>1, <1>4
  <2> QED BY <2>1, <2>2, <1>2, <1>4, <1>5
<1>9. LoginsHavePlayers' BY <1>1, <1>2 DEF LoginsHavePlayers, IsLogin
<1>10. SoleLogins' BY <1>1, <1>2 DEF SoleLogins, IsLogin
<1>11. KeptForPresentPlayers'
  <2> SUFFICES ASSUME NEW p \in sessions' \cup DOMAIN activePlayers' \cup DOMAIN locations'
               PROVE  \E j \in alive' : player'[j] = p /\ identity'[j] = "resolved"
    BY DEF KeptForPresentPlayers
  <2>1. PICK j \in alive : player[j] = p /\ identity[j] = "resolved"
    BY <1>4 DEF KeptForPresentPlayers
  <2>2. j # k BY <2>1, <1>4
  <2> QED BY <2>1, <2>2, <1>1, <1>2, <1>5
<1>12. UnresolvedLoginsWait'
  BY <1>1, <1>2, <1>5 DEF UnresolvedLoginsWait, Pending
<1>13. SoleLoginsAreTracked'
  <2> SUFFICES ASSUME NEW j \in Controllers \ overlapped, Settled(j)' PROVE Tracked(j)'
    BY <1>1 DEF SoleLoginsAreTracked
  <2>1. j # k /\ Settled(j) BY <1>1, <1>2 DEF Settled
  <2>2. Tracked(j) BY <2>1 DEF SoleLoginsAreTracked
  <2>3. player[j] # player[k] BY <2>1, <1>1 DEF SoleLogins, IsLogin, Settled
  <2> QED BY <2>2, <2>3, <1>1, <1>4 DEF Tracked
<1> QED BY <1>6, <1>7, <1>8, <1>9, <1>10, <1>11, <1>12, <1>13

LEMMA ControllerEndPlayKeepsInv ==
    ASSUME IInv, NEW k \in Controllers, ControllerEndPlay(k) PROVE IInv'
<1> USE DEF IInv
<1>1. /\ k \in alive
      /\ alive' = alive \ {k} /\ pawns' = pawns \ {k} /\ leaving' = leaving \ {k}
      /\ pendingJoins' = Selected(pendingJoins, Controllers \ {k})
      /\ UNCHANGED <<player, identity, dropped, overlapped>>
  BY DEF ControllerEndPlay
<1>2. /\ pendingJoins' \in Seq(Controllers) /\ Len(pendingJoins') <= MaxPendingJoins
      /\ IsInjective(pendingJoins')
      /\ \A j : (\E i \in DOMAIN pendingJoins' : pendingJoins'[i] = j)
                   <=> Pending(j) /\ j \in Controllers \ {k}
  BY <1>1, QueueIs
<1> DEFINE S == {p \in DOMAIN activePlayers : activePlayers[p] = k}
<1>3. \/ /\ identity[k] = "resolved" /\ PlayerLeft({player[k]})
         /\ activePlayers' = Without(activePlayers, S)
      \/ identity[k] # "resolved" /\ UNCHANGED <<sessions, locations, activePlayers>>
  BY DEF ControllerEndPlay, IsResolvedIdentity
<1>4. /\ sessions' \subseteq sessions /\ DOMAIN locations' \subseteq DOMAIN locations
      /\ locations' \in PartialMap(Players, Controllers)
      /\ activePlayers' \in PartialMap(Players, Controllers)
      /\ DOMAIN activePlayers' = DOMAIN activePlayers \ S
      /\ \A p \in DOMAIN activePlayers' : activePlayers'[p] = activePlayers[p]
      /\ \A p \in sessions : p \in sessions' \/ p = player[k]
      /\ identity[k] = "resolved" => player[k] \notin sessions' \cup DOMAIN locations'
  <2>1. CASE identity[k] # "resolved" /\ UNCHANGED <<sessions, locations, activePlayers>>
    <3>1. S = {} BY <2>1 DEF ActiveUnderOwnController
    <3> QED BY <2>1, <3>1 DEF TypeOK
  <2>2. CASE PlayerLeft({player[k]}) /\ activePlayers' = Without(activePlayers, S)
    <3>1. activePlayers \in PartialMap(Players, Controllers) BY DEF TypeOK
    <3> HIDE DEF S
    <3>2. /\ activePlayers' \in PartialMap(Players, Controllers)
          /\ DOMAIN activePlayers' = DOMAIN activePlayers \ S
          /\ \A p \in DOMAIN activePlayers \ S : activePlayers'[p] = activePlayers[p]
      BY <3>1, <2>2, WithoutIs
    <3>3. /\ sessions' = sessions \ {player[k]}
          /\ locations' \in PartialMap(Players, Controllers)
          /\ DOMAIN locations' = DOMAIN locations \ {player[k]}
      BY <2>2, PlayerLeftIs
    <3> QED BY <3>2, <3>3
  <2> QED BY <2>1, <2>2, <1>3
<1>5. alive \subseteq Controllers /\ \A p \in DOMAIN activePlayers : activePlayers[p] \in Controllers
  BY Maps DEF TypeOK
<1>6. TypeOK'
  <2>1. alive' \subseteq Controllers /\ pawns' \subseteq alive' /\ leaving' \subseteq alive'
    BY <1>1 DEF TypeOK
  <2>2. sessions' \subseteq Players BY <1>4 DEF TypeOK
  <2>3. player' \in [Controllers -> Players \cup {None}] /\
        identity' \in [Controllers -> {"unset", "id", "resolved", "gone"}] /\
        dropped' \subseteq Controllers /\ overlapped' \subseteq Controllers
    BY <1>1 DEF TypeOK
  <2> QED BY <1>2, <1>4, <2>1, <2>2, <2>3 DEF TypeOK
<1>7. NoDanglingControllers'
  <2>1. \A i \in DOMAIN pendingJoins' : pendingJoins'[i] \in alive'
    BY <1>1, <1>2 DEF NoDanglingControllers, Pending
  <2>2. \A p \in DOMAIN activePlayers' : activePlayers'[p] \in alive'
    BY <1>1, <1>4 DEF NoDanglingControllers
  <2> QED BY <2>1, <2>2 DEF NoDanglingControllers
<1>8. ActiveUnderOwnController' BY <1>1, <1>4 DEF ActiveUnderOwnController
<1>9. LoginsHavePlayers' /\ SoleLogins' BY <1>1 DEF LoginsHavePlayers, SoleLogins, IsLogin
<1>10. KeptForPresentPlayers'
  <2> SUFFICES ASSUME NEW p \in sessions' \cup DOMAIN activePlayers' \cup DOMAIN locations'
               PROVE  \E j \in alive' : player'[j] = p /\ identity'[j] = "resolved"
    BY DEF KeptForPresentPlayers
  <2>1. CASE p \in DOMAIN activePlayers'
    <3>1. activePlayers[p] # k /\ p \in DOMAIN activePlayers BY <2>1, <1>4
    <3>2. activePlayers[p] \in alive' BY <3>1, <1>1 DEF NoDanglingControllers
    <3> QED BY <3>1, <3>2, <1>1 DEF ActiveUnderOwnController
  <2>2. CASE p \in sessions' \cup DOMAIN locations'
    <3>1. PICK j \in alive : player[j] = p /\ identity[j] = "resolved"
      BY <2>2, <1>4 DEF KeptForPresentPlayers
    <3>2. j # k BY <3>1, <2>2, <1>4
    <3> QED BY <3>1, <3>2, <1>1
  <2> QED BY <2>1, <2>2
<1>11. UnresolvedLoginsWait'
  <2> SUFFICES ASSUME NEW j \in alive', identity[j] \in {"unset", "id"}
               PROVE  j \in dropped \/ \E i \in DOMAIN pendingJoins' : pendingJoins'[i] = j
    BY <1>1 DEF UnresolvedLoginsWait, Pending
  <2>1. j \in alive /\ j \in Controllers \ {k} BY <1>1, <1>5
  <2> QED BY <2>1, <1>2 DEF UnresolvedLoginsWait
<1>12. SoleLoginsAreTracked'
  <2> SUFFICES ASSUME NEW j \in Controllers \ overlapped, Settled(j)' PROVE Tracked(j)'
    BY <1>1 DEF SoleLoginsAreTracked
  <2>1. j # k /\ j \in alive \ (leaving \cup dropped) /\ identity[j] = "resolved"
    BY <1>1 DEF Settled
  <2>2. ~Contains(pendingJoins, j)
    <3>1. ~\E i \in DOMAIN pendingJoins' : pendingJoins'[i] = j BY <1>2 DEF Settled, Contains
    <3> QED BY <3>1, <2>1, <1>2, ContainsIsPending
  <2>3. Tracked(j) BY <2>1, <2>2 DEF SoleLoginsAreTracked, Settled
  <2>4. player[j] # player[k] BY <2>1, <1>1 DEF SoleLogins, IsLogin
  <2>5. player[j] \in DOMAIN activePlayers' /\ player[j] \in sessions' BY <2>1, <2>3, <2>4, <1>4 DEF Tracked
  <2> QED BY <2>3, <2>5, <1>1, <1>4 DEF Tracked
<1> QED BY <1>6, <1>7, <1>8, <1>9, <1>10, <1>11, <1>12

-----------------------------------------------------------------------------
(* The tick *)

\* The joins that are resolved, and one of them for each player who joins.
LEMMA JoiningIs ==
    ASSUME IInv
    PROVE  /\ \A p : p \in Joining <=>
                  \E k \in Controllers : Pending(k) /\ IsResolvedIdentity(k) /\ player[k] = p
           /\ \A p \in Joining :
                  /\ FirstController(p) \in Controllers /\ Pending(FirstController(p))
                  /\ IsResolvedIdentity(FirstController(p)) /\ player[FirstController(p)] = p
<1> DEFINE S == {k \in Controllers : IsResolvedIdentity(k)}
<1>1. TypeOK BY DEF IInv
<1>2. Resolved = Selected(pendingJoins, S) BY DEF Resolved
<1> HIDE DEF S
<1>3. /\ Resolved \in Seq(Controllers)
      /\ \A k : (\E i \in DOMAIN Resolved : Resolved[i] = k) <=> Pending(k) /\ k \in S
  BY <1>1, <1>2, QueueIs
<1>4. \A p : p \in Joining <=> \E k \in Controllers : Pending(k) /\ IsResolvedIdentity(k) /\ player[k] = p
  BY <1>3 DEF Joining, S
<1>5. ASSUME NEW p \in Joining
      PROVE  FirstController(p) \in S /\ Pending(FirstController(p)) /\ player[FirstController(p)] = p
  <2> DEFINE I == {i \in DOMAIN Resolved : player[Resolved[i]] = p}
  <2>1. I # {} BY DEF Joining
  <2>2. I \subseteq Nat BY <1>3
  <2>3. PICK m \in I : \A j \in I : m <= j BY <2>1, <2>2, Least
  <2>4. \A j \in 1..(m - 1) : j \in DOMAIN Resolved /\ j \notin I
    <3> SUFFICES ASSUME NEW j \in 1..(m - 1) PROVE j \in DOMAIN Resolved /\ j \notin I OBVIOUS
    <3>1. m \in 1..Len(Resolved) /\ Len(Resolved) \in Nat /\ DOMAIN Resolved = 1..Len(Resolved)
      BY <1>3
    <3> HIDE DEF I
    <3>2. j \in 1..Len(Resolved) /\ ~(m <= j) BY <3>1
    <3> QED BY <3>1, <3>2, <2>3
  <2> DEFINE c == CHOOSE i \in DOMAIN Resolved :
                      player[Resolved[i]] = p /\ \A j \in 1..(i - 1) : player[Resolved[j]] # p
  <2>5. \E i \in DOMAIN Resolved :
            player[Resolved[i]] = p /\ \A j \in 1..(i - 1) : player[Resolved[j]] # p
    BY <2>4
  <2>6. c \in DOMAIN Resolved /\ player[Resolved[c]] = p BY <2>5
  <2>7. FirstController(p) = Resolved[c] BY DEF FirstController
  <2> QED BY <2>6, <2>7, <1>3
<1> QED BY <1>4, <1>5 DEF S

\* The maps a tick writes: active_players_ with the players who join, and the
\* locations with those of the located among the active.
ActiveAfter ==
    [p \in DOMAIN activePlayers \cup Joining |->
        IF p \in DOMAIN activePlayers THEN activePlayers[p] ELSE FirstController(p)]

LEMMA ActiveAfterIs ==
    ASSUME IInv
    PROVE  /\ ActiveAfter \in PartialMap(Players, Controllers)
           /\ DOMAIN ActiveAfter = DOMAIN activePlayers \cup Joining
           /\ \A p \in DOMAIN activePlayers : ActiveAfter[p] = activePlayers[p]
           /\ \A p \in DOMAIN ActiveAfter :
                  /\ ActiveAfter[p] \in alive /\ player[ActiveAfter[p]] = p
                  /\ identity[ActiveAfter[p]] = "resolved"
<1> USE DEF IInv
<1> DEFINE f == ActiveAfter
<1>1. /\ f = [p \in DOMAIN f |-> f[p]]
      /\ DOMAIN f = DOMAIN activePlayers \cup Joining
      /\ \A p \in DOMAIN activePlayers : f[p] = activePlayers[p]
      /\ \A p \in DOMAIN f : p \notin DOMAIN activePlayers => p \in Joining /\ f[p] = FirstController(p)
  BY DEF ActiveAfter
<1> HIDE DEF f
<1>2. ASSUME NEW p \in DOMAIN f
      PROVE  f[p] \in alive /\ player[f[p]] = p /\ identity[f[p]] = "resolved"
  <2>1. CASE p \in DOMAIN activePlayers
    BY <2>1, <1>1 DEF NoDanglingControllers, ActiveUnderOwnController
  <2>2. CASE p \notin DOMAIN activePlayers
    <3>1. p \in Joining /\ f[p] = FirstController(p) BY <2>2, <1>1
    <3>2. Pending(f[p]) /\ IsResolvedIdentity(f[p]) /\ player[f[p]] = p BY <3>1, JoiningIs
    <3> QED BY <3>2 DEF NoDanglingControllers, Pending, IsResolvedIdentity
  <2> QED BY <2>1, <2>2
<1>3. alive \subseteq Controllers BY DEF TypeOK
<1>4. ASSUME NEW p \in DOMAIN f PROVE p \in Players /\ f[p] \in Controllers
  BY <1>2, <1>3, <1>4 DEF LoginsHavePlayers, IsLogin
<1>5. f \in PartialMap(Players, Controllers) BY <1>1, <1>4, Maps
<1> QED BY <1>1, <1>2, <1>5 DEF f

LEMMA TickKeepsInv ==
    ASSUME IInv, NEW expired \in SUBSET Controllers, NEW sampling \in BOOLEAN,
           Tick(expired, sampling)
    PROVE  IInv'
<1> USE DEF IInv
<1> DEFINE located == {p \in DOMAIN ActiveAfter : IsLocated(ActiveAfter[p])}
           waiting == {k \in Controllers : ~IsResolvedIdentity(k)} \ expired
<1>1. /\ expired \subseteq {k \in Controllers : Contains(pendingJoins, k) /\ ~IsResolvedIdentity(k)}
      /\ pendingJoins' = Selected(pendingJoins, waiting)
      /\ dropped' = dropped \cup expired
      /\ sessions' = sessions \cup Joining
      /\ activePlayers' = ActiveAfter
      /\ locations' = IF sampling THEN Located(located, ActiveAfter) ELSE locations
      /\ UNCHANGED <<player, alive, identity, pawns, leaving, overlapped>>
  BY DEF Tick, ActiveAfter, gameVars
<1>2. /\ pendingJoins' \in Seq(Controllers) /\ Len(pendingJoins') <= MaxPendingJoins
      /\ IsInjective(pendingJoins')
      /\ \A j : (\E i \in DOMAIN pendingJoins' : pendingJoins'[i] = j) <=> Pending(j) /\ j \in waiting
  BY <1>1, QueueIs
<1>3. /\ activePlayers' \in PartialMap(Players, Controllers)
      /\ DOMAIN activePlayers' = DOMAIN activePlayers \cup Joining
      /\ \A p \in DOMAIN activePlayers : activePlayers'[p] = activePlayers[p]
      /\ \A p \in DOMAIN activePlayers' :
             /\ activePlayers'[p] \in alive /\ player[activePlayers'[p]] = p
             /\ identity[activePlayers'[p]] = "resolved"
  BY <1>1, ActiveAfterIs
<1>4. Joining \subseteq Players
  <2>1. \A p \in Joining : \E k \in Controllers : k \in alive /\ player[k] = p
    BY JoiningIs DEF NoDanglingControllers, Pending
  <2> QED BY <2>1 DEF LoginsHavePlayers, IsLogin
<1>5. /\ locations' \in PartialMap(Players, Controllers)
      /\ DOMAIN locations' \subseteq DOMAIN locations \cup DOMAIN activePlayers'
  <2>0. locations \in PartialMap(Players, Controllers) BY DEF TypeOK
  <2>1. CASE ~sampling BY <2>0, <2>1, <1>1
  <2>2. CASE sampling
    <3>1. locations' = [p \in DOMAIN locations \cup located |->
                           IF p \in located THEN activePlayers'[p] ELSE locations[p]]
      BY <2>2, <1>1 DEF Located
    <3>2. located \subseteq DOMAIN activePlayers' BY <1>1
    <3> HIDE DEF located
    <3>3. DOMAIN activePlayers' \subseteq Players
          /\ \A p \in DOMAIN activePlayers' : activePlayers'[p] \in Controllers
      BY <1>3, Maps
    <3>4. DOMAIN locations \subseteq Players /\ \A p \in DOMAIN locations : locations[p] \in Controllers
      BY <2>0, Maps
    <3>5. /\ DOMAIN locations' = DOMAIN locations \cup located
          /\ locations' = [p \in DOMAIN locations' |-> locations'[p]]
          /\ \A p \in DOMAIN locations' : locations'[p] \in Controllers
      BY <3>1, <3>2, <3>3, <3>4
    <3>6. DOMAIN locations' \subseteq Players BY <3>5, <3>2, <3>3, <3>4
    <3> QED BY <3>5, <3>6, <3>2, Maps
  <2> QED BY <2>1, <2>2
<1>6. alive \subseteq Controllers BY DEF TypeOK
<1>7. TypeOK'
  <2>1. sessions' \subseteq Players /\ dropped' \subseteq Controllers BY <1>1, <1>4 DEF TypeOK
  <2>2. /\ player' \in [Controllers -> Players \cup {None}]
        /\ identity' \in [Controllers -> {"unset", "id", "resolved", "gone"}]
        /\ alive' \subseteq Controllers /\ pawns' \subseteq alive' /\ leaving' \subseteq alive'
        /\ overlapped' \subseteq Controllers
    BY <1>1 DEF TypeOK
  <2> QED BY <1>2, <1>3, <1>5, <2>1, <2>2 DEF TypeOK
<1>8. NoDanglingControllers'
  <2>1. \A i \in DOMAIN pendingJoins' : pendingJoins'[i] \in alive
    BY <1>2 DEF NoDanglingControllers, Pending
  <2> QED BY <2>1, <1>1, <1>3 DEF NoDanglingControllers
<1>9. ActiveUnderOwnController' BY <1>1, <1>3 DEF ActiveUnderOwnController
<1>10. LoginsHavePlayers' /\ SoleLogins' BY <1>1 DEF LoginsHavePlayers, SoleLogins, IsLogin
<1>11. KeptForPresentPlayers'
  <2> SUFFICES ASSUME NEW p \in sessions' \cup DOMAIN activePlayers' \cup DOMAIN locations'
               PROVE  \E j \in alive : player[j] = p /\ identity[j] = "resolved"
    BY <1>1 DEF KeptForPresentPlayers
  <2>1. CASE p \in DOMAIN activePlayers' BY <2>1, <1>3
  <2>2. CASE p \in sessions \cup DOMAIN locations BY <2>2 DEF KeptForPresentPlayers
  <2> QED BY <2>1, <2>2, <1>1, <1>3, <1>5
<1>12. UnresolvedLoginsWait'
  <2> SUFFICES ASSUME NEW j \in alive, identity[j] \in {"unset", "id"}
               PROVE  j \in dropped' \/ \E i \in DOMAIN pendingJoins' : pendingJoins'[i] = j
    BY <1>1 DEF UnresolvedLoginsWait, Pending
  <2>1. j \in dropped \/ Pending(j) BY DEF UnresolvedLoginsWait
  <2>2. j \in waiting \/ j \in expired BY <1>6 DEF IsResolvedIdentity
  <2> QED BY <2>1, <2>2, <1>1, <1>2
<1>13. SoleLoginsAreTracked'
  <2> SUFFICES ASSUME NEW j \in Controllers \ overlapped, Settled(j)' PROVE Tracked(j)'
    BY <1>1 DEF SoleLoginsAreTracked
  <2>1. j \in alive \ (leaving \cup dropped) /\ identity[j] = "resolved" BY <1>1 DEF Settled
  <2>2. CASE Pending(j)
    <3>1. player[j] \in Joining BY <2>1, <2>2, JoiningIs DEF IsResolvedIdentity
    <3>2. player[j] \in DOMAIN activePlayers' /\ player[j] \in sessions' BY <3>1, <1>1, <1>3
    <3>3. activePlayers'[player[j]] \in alive /\ player[activePlayers'[player[j]]] = player[j]
      BY <3>2, <1>3
    <3>4. activePlayers'[player[j]] = j BY <3>3, <2>1, <1>6 DEF SoleLogins, IsLogin
    <3> QED BY <3>2, <3>4, <1>1 DEF Tracked
  <2>3. CASE ~Pending(j)
    <3>1. Settled(j) BY <2>1, <2>3, ContainsIsPending DEF Settled
    <3>2. Tracked(j) BY <3>1 DEF SoleLoginsAreTracked
    <3> QED BY <3>2, <1>1, <1>3 DEF Tracked
  <2> QED BY <2>2, <2>3
<1> QED BY <1>7, <1>8, <1>9, <1>10, <1>11, <1>12, <1>13

-----------------------------------------------------------------------------
(* The theorems of PlayerTracking *)

\* In every state the player hooks can reach, for every number of players and
\* controllers and every queue, the inductive invariant holds.
THEOREM TrackingInvariantHolds == Spec => []IInv
<1>1. IInv /\ [Next]_vars => IInv'
  <2> SUFFICES ASSUME IInv, [Next]_vars PROVE IInv' OBVIOUS
  <2>1. ASSUME NEW k \in Controllers, ReplicateState(k) PROVE IInv'
    BY <2>1, ReplicateStateKeepsInv
  <2>2. ASSUME NEW k \in Controllers, ChangePawn(k) PROVE IInv' BY <2>2, ChangePawnKeepsInv
  <2>3. ASSUME NEW k \in Controllers, NEW p \in Players, BeginPlay(k, p) PROVE IInv'
    BY <2>3, BeginPlayKeepsInv
  <2>4. ASSUME NEW k \in Controllers, Logout(k) PROVE IInv' BY <2>4, LogoutKeepsInv
  <2>5. ASSUME NEW k \in Controllers, StateEndPlay(k) PROVE IInv' BY <2>5, StateEndPlayKeepsInv
  <2>6. ASSUME NEW k \in Controllers, ControllerEndPlay(k) PROVE IInv'
    BY <2>6, ControllerEndPlayKeepsInv
  <2>7. ASSUME NEW expired \in SUBSET Controllers, NEW sampling \in BOOLEAN,
               Tick(expired, sampling)
        PROVE  IInv'
    BY <2>7, TickKeepsInv
  <2>8. CASE UNCHANGED vars BY <2>8, StutterKeepsInv
  <2> QED BY <2>1, <2>2, <2>3, <2>4, <2>5, <2>6, <2>7, <2>8 DEF Next
<1> QED BY InitHolds, <1>1, PTL DEF Spec

\* Every variable of the player hooks stays in its range, the queue of joins
\* within its limit.
THEOREM TrackingTypeCorrect == Spec => []TypeOK
<1>1. IInv => TypeOK BY DEF IInv
<1> QED BY TrackingInvariantHolds, <1>1, PTL

\* No pointer in pending_joins_ or active_players_ is to a controller that has
\* ended, in whatever order logins, logouts and ends of play come.
THEOREM PointersAreLive == Spec => []NoDanglingControllers
<1>1. IInv => NoDanglingControllers BY DEF IInv
<1> QED BY TrackingInvariantHolds, <1>1, PTL

\* A player is located and teleported through a controller of his own.
THEOREM ActiveIsOwn == Spec => []ActiveUnderOwnController
<1>1. IInv => ActiveUnderOwnController BY DEF IInv
<1> QED BY TrackingInvariantHolds, <1>1, PTL

\* Nothing is kept of a player of whom no actor is left.
THEOREM AbsentPlayersAreForgotten == Spec => []NothingIsLeftOfAbsentPlayers
<1>1. IInv => NothingIsLeftOfAbsentPlayers
  <2> SUFFICES ASSUME IInv, NEW p \in Players, Logins(p) = {}
               PROVE  p \notin sessions \cup DOMAIN activePlayers \cup DOMAIN locations
    BY DEF NothingIsLeftOfAbsentPlayers
  <2>1. \A k \in alive : k \in Controllers /\ player[k] # p BY DEF IInv, TypeOK, Logins
  <2> QED BY <2>1 DEF IInv, KeptForPresentPlayers
<1> QED BY TrackingInvariantHolds, <1>1, PTL

\* A login that had its player to itself and has settled is followed.
THEOREM SoleLoginsFollowed == Spec => []SoleLoginsAreTracked
<1>1. IInv => SoleLoginsAreTracked BY DEF IInv
<1> QED BY TrackingInvariantHolds, <1>1, PTL

-----------------------------------------------------------------------------
(* Requests that are accepted, and what turns one down *)

\* A list of checks in order, each with the name of an error.
IsChecks(checks, n) ==
    /\ DOMAIN checks = 1..n
    /\ \A i \in 1..n :
           checks[i].error \in RequestErrors \cup ExecutionErrors /\ checks[i].fails \in BOOLEAN

\* The first error is there if and only if a check fails, and is the error of
\* one before which none fails.
LEMMA FirstErrorIs ==
    ASSUME NEW n \in Nat, NEW checks, IsChecks(checks, n)
    PROVE  \/ FirstError(checks) = None /\ \A i \in 1..n : ~checks[i].fails
           \/ \E m \in 1..n : /\ FirstError(checks) = checks[m].error /\ checks[m].fails
                              /\ \A i \in 1..n : i < m => ~checks[i].fails
                              /\ FirstError(checks) # None
<1> DEFINE failing == {i \in DOMAIN checks : checks[i].fails}
<1>1. CASE failing = {}
  <2>1. FirstError(checks) = None BY <1>1 DEF FirstError
  <2> QED BY <2>1, <1>1 DEF IsChecks
<1>2. CASE failing # {}
  <2>1. failing \subseteq Nat BY DEF IsChecks
  <2>2. \E m \in failing : \A i \in failing : m <= i
    <3> HIDE DEF failing
    <3> QED BY <2>1, <1>2, Least
  <2> DEFINE m == CHOOSE i \in failing : \A j \in failing : i <= j
  <2>3. FirstError(checks) = checks[m].error BY <1>2 DEF FirstError
  <2>4. m \in failing /\ \A i \in failing : m <= i
    <3> HIDE DEF failing
    <3> QED BY <2>2
  <2> HIDE DEF m
  <2>5. m \in 1..n /\ checks[m].fails BY <2>4 DEF IsChecks
  <2>6. \A i \in 1..n : i < m => ~checks[i].fails
    <3> SUFFICES ASSUME NEW i \in 1..n, i < m, checks[i].fails PROVE FALSE OBVIOUS
    <3>1. i \in failing BY DEF IsChecks
    <3>2. m <= i BY <3>1, <2>4
    <3> QED BY <3>2, <2>5
  <2>7. FirstError(checks) # None BY <2>3, <2>5, TeleportAssumption DEF IsChecks
  <2> QED BY <2>3, <2>5, <2>6, <2>7
<1> QED BY <1>1, <1>2

Canonicals == [of : Players, capitals : {TRUE}]

\* Whatever was sent, a request that was accepted names two players in capitals,
\* two different ones or a point of the verified map.
LEMMA AcceptedIs ==
    ASSUME NEW r \in Accepted
    PROVE  /\ r.action \in {ToPlayer, ToAdmin, ToLocation}
           /\ r.administrator \in Canonicals /\ r.target \in Canonicals
           /\ r.action # ToLocation => r.administrator # r.target
           /\ r.action = ToLocation => r.destination = "inside" /\ r.space = "palpagos"
<1>1. PICK action \in {ToPlayer, ToAdmin, ToLocation} : r \in AcceptedOf(action) BY DEF Accepted
<1>2. PICK d \in Documents : r = Parsed(action, d) /\ FirstError(RequestChecks(action, d)) = None
  BY <1>1 DEF AcceptedOf
<1> DEFINE checks == RequestChecks(action, d)
<1>3. CASE action # ToLocation
  <2>1. /\ DOMAIN checks = 1..4
        /\ checks[1] = Check("invalid_request_id", d.requestId # "valid")
        /\ checks[2] = Check("invalid_administrator_player_id", d.administrator = BadId)
        /\ checks[3] = Check("invalid_target_player_id", d.target = BadId)
        /\ checks[4] = Check("identical_players", SamePlayer(d))
    BY <1>3 DEF RequestChecks
  <2>2. IsChecks(checks, 4)
    <3> HIDE DEF checks
    <3>1. /\ checks[1].error \in RequestErrors /\ checks[2].error \in RequestErrors
          /\ checks[3].error \in RequestErrors /\ checks[4].error \in RequestErrors
      BY <2>1 DEF Check, RequestErrors
    <3>2. /\ checks[1].fails \in BOOLEAN /\ checks[2].fails \in BOOLEAN
          /\ checks[3].fails \in BOOLEAN /\ checks[4].fails \in BOOLEAN
      BY <2>1 DEF Check, SamePlayer
    <3>3. \A i \in 1..4 : i = 1 \/ i = 2 \/ i = 3 \/ i = 4 OBVIOUS
    <3> QED BY <2>1, <3>1, <3>2, <3>3 DEF IsChecks
  <2> HIDE DEF checks
  <2>3. \A i \in 1..4 : ~checks[i].fails BY <2>2, <1>2, FirstErrorIs DEF checks
  <2>4. ~checks[2].fails /\ ~checks[3].fails /\ ~checks[4].fails BY <2>3
  <2>a. /\ checks[2].fails = (d.administrator = BadId) /\ checks[3].fails = (d.target = BadId)
        /\ checks[4].fails = SamePlayer(d)
    BY <2>1 DEF Check
  <2>5. d.administrator # BadId /\ d.target # BadId /\ ~SamePlayer(d) BY <2>a, <2>4
  <2>6. d.administrator \in WrittenIds /\ d.target \in WrittenIds BY <2>5 DEF Documents
  <2>7. /\ Canonical(d.administrator) \in Canonicals /\ Canonical(d.target) \in Canonicals
        /\ Canonical(d.administrator) # Canonical(d.target)
    BY <2>5, <2>6 DEF Canonical, Canonicals, WrittenIds, SamePlayer
  <2> QED BY <2>7, <1>2, <1>3 DEF Parsed
<1>4. CASE action = ToLocation
  <2>1. /\ DOMAIN checks = 1..8
        /\ checks[1] = Check("invalid_request_id", d.requestId # "valid")
        /\ checks[2] = Check("invalid_administrator_player_id", d.administrator = BadId)
        /\ checks[3] = Check("invalid_target_player_id", d.target = BadId)
        /\ checks[4] = Check("legacy_location_contract", d.legacy)
        /\ checks[5] = Check("unsupported_coordinate_space", d.space # "palpagos")
        /\ checks[6] = Check("unverified_destination", d.verification # "palpagos_map")
        /\ checks[7] = Check("invalid_coordinates", d.point = "not_finite_numbers")
        /\ checks[8] = Check("coordinates_out_of_range", d.point = "outside")
    BY <1>4 DEF RequestChecks
  <2>2. IsChecks(checks, 8)
    <3> HIDE DEF checks
    <3>1. /\ checks[1].error \in RequestErrors /\ checks[2].error \in RequestErrors
          /\ checks[3].error \in RequestErrors /\ checks[4].error \in RequestErrors
          /\ checks[5].error \in RequestErrors /\ checks[6].error \in RequestErrors
          /\ checks[7].error \in RequestErrors /\ checks[8].error \in RequestErrors
      BY <2>1 DEF Check, RequestErrors
    <3>2. d.legacy \in BOOLEAN BY DEF Documents
    <3>3. /\ checks[1].fails \in BOOLEAN /\ checks[2].fails \in BOOLEAN
          /\ checks[3].fails \in BOOLEAN /\ checks[4].fails \in BOOLEAN
          /\ checks[5].fails \in BOOLEAN /\ checks[6].fails \in BOOLEAN
          /\ checks[7].fails \in BOOLEAN /\ checks[8].fails \in BOOLEAN
      BY <2>1, <3>2 DEF Check
    <3>4. \A i \in 1..8 : \/ i = 1 \/ i = 2 \/ i = 3 \/ i = 4
                           \/ i = 5 \/ i = 6 \/ i = 7 \/ i = 8
      OBVIOUS
    <3> QED BY <2>1, <3>1, <3>3, <3>4 DEF IsChecks
  <2> HIDE DEF checks
  <2>3. \A i \in 1..8 : ~checks[i].fails BY <2>2, <1>2, FirstErrorIs DEF checks
  <2>4. /\ ~checks[2].fails /\ ~checks[3].fails /\ ~checks[5].fails
        /\ ~checks[7].fails /\ ~checks[8].fails
    BY <2>3
  <2>5. /\ d.administrator # BadId /\ d.target # BadId /\ d.space = "palpagos"
        /\ d.point # "not_finite_numbers" /\ d.point # "outside"
    <3>1. /\ checks[2].fails = (d.administrator = BadId) /\ checks[3].fails = (d.target = BadId)
          /\ checks[5].fails = (d.space # "palpagos")
          /\ checks[7].fails = (d.point = "not_finite_numbers")
          /\ checks[8].fails = (d.point = "outside")
      BY <2>1 DEF Check
    <3> QED BY <3>1, <2>4
  <2>6. d.administrator \in WrittenIds /\ d.target \in WrittenIds /\ d.point = "inside"
    BY <2>5 DEF Documents, Points
  <2>7. Canonical(d.administrator) \in Canonicals /\ Canonical(d.target) \in Canonicals
    BY <2>6 DEF Canonical, Canonicals, WrittenIds
  <2> QED BY <2>5, <2>6, <2>7, <1>2, <1>4 DEF Parsed
<1> QED BY <1>3, <1>4

LEMMA ExecutionChecksAre ==
    ASSUME NEW r, NEW w
    PROVE  LET checks == ExecutionChecks(r, w)
           IN  /\ IsChecks(checks, 7)
               /\ checks[1].fails = (~IsOnline(r.administrator) \/ ~IsOnline(r.target))
               /\ checks[2].fails = (\E k \in Involved(r) : ~IsLocated(k))
               /\ checks[3].fails = (Involved(r) \cap w.special # {})
               /\ checks[4].fails = (r.action = ToLocation
                                         /\ (r.destination = Unset \/ r.space # "palpagos"))
               /\ checks[5].error = "execution_failed"
               /\ checks[6].error = "safe_destination_unavailable"
               /\ checks[7].error = "teleport_rejected"
<1> DEFINE checks == ExecutionChecks(r, w)
<1>1. DOMAIN checks = 1..7 BY DEF ExecutionChecks
<1>2. /\ checks[1] = Check("player_offline", ~IsOnline(r.administrator) \/ ~IsOnline(r.target))
      /\ checks[2] = Check("player_state_stale", \E k \in Involved(r) : ~IsLocated(k))
      /\ checks[3] = Check("special_area_not_supported", Involved(r) \cap w.special # {})
      /\ checks[4] = Check("no_destination",
            r.action = ToLocation /\ (r.destination = Unset \/ r.space # "palpagos"))
      /\ checks[5] = Check("execution_failed", r.action = ToLocation /\ ~w.utility)
      /\ checks[6] = Check("safe_destination_unavailable", r.action = ToLocation /\ ~w.floor)
      /\ checks[7] = Check("teleport_rejected", ~w.placed)
  BY DEF ExecutionChecks
<1> HIDE DEF checks
<1>3. /\ checks[1].error \in ExecutionErrors /\ checks[2].error \in ExecutionErrors
      /\ checks[3].error \in ExecutionErrors /\ checks[4].error \in ExecutionErrors
      /\ checks[5].error \in ExecutionErrors /\ checks[6].error \in ExecutionErrors
      /\ checks[7].error \in ExecutionErrors
  BY <1>2 DEF Check, ExecutionErrors
<1>4. /\ checks[1].fails \in BOOLEAN /\ checks[2].fails \in BOOLEAN
      /\ checks[3].fails \in BOOLEAN /\ checks[4].fails \in BOOLEAN
      /\ checks[5].fails \in BOOLEAN /\ checks[6].fails \in BOOLEAN
      /\ checks[7].fails \in BOOLEAN
  BY <1>2 DEF Check
<1>5. \A i \in 1..7 : i = 1 \/ i = 2 \/ i = 3 \/ i = 4 \/ i = 5 \/ i = 6 \/ i = 7 OBVIOUS
<1>6. IsChecks(checks, 7) BY <1>1, <1>3, <1>4, <1>5 DEF IsChecks
<1>7. /\ checks[1].fails = (~IsOnline(r.administrator) \/ ~IsOnline(r.target))
      /\ checks[2].fails = (\E k \in Involved(r) : ~IsLocated(k))
      /\ checks[3].fails = (Involved(r) \cap w.special # {})
  BY <1>2 DEF Check
<1>8. checks[4].fails =
          (r.action = ToLocation /\ (r.destination = Unset \/ r.space # "palpagos"))
  BY <1>2 DEF Check
<1>9. /\ checks[5].error = "execution_failed"
      /\ checks[6].error = "safe_destination_unavailable"
      /\ checks[7].error = "teleport_rejected"
  BY <1>2 DEF Check
<1> QED BY <1>6, <1>7, <1>8, <1>9 DEF checks

-----------------------------------------------------------------------------
(* The theorems of TeleportExecution *)

\* In every state the hooks can reach, a teleport that succeeds moves the
\* player its request names, to the other one or to a point of the map.
THEOREM TeleportsMoveTheNamed == Spec => []TeleportsMoveWhomTheyName
<1>1. IInv => TeleportsMoveWhomTheyName
  <2> SUFFICES ASSUME IInv, NEW r \in Accepted, NEW w \in Worlds, ExecutionError(r, w) = None
               PROVE  /\ Moving(r) \in alive \ w.special /\ player[Moving(r)] = MovedPlayer(r)
                      /\ IF r.action = ToLocation THEN Goal(r) = "inside"
                         ELSE /\ Goal(r) \in alive \ w.special /\ player[Goal(r)] = OtherPlayer(r)
                              /\ Goal(r) # Moving(r)
    BY DEF TeleportsMoveWhomTheyName
  <2> DEFINE a == r.administrator
             t == r.target
  <2>1. /\ IsOnline(a) /\ IsOnline(t)
        /\ Involved(r) \cap w.special = {}
    <3> DEFINE checks == ExecutionChecks(r, w)
    <3>1. FirstError(checks) = None BY DEF ExecutionError
    <3>2. /\ IsChecks(checks, 7)
          /\ checks[1].fails = (~IsOnline(r.administrator) \/ ~IsOnline(r.target))
          /\ checks[3].fails = (Involved(r) \cap w.special # {})
      BY ExecutionChecksAre
    <3> HIDE DEF checks
    <3>3. \A i \in 1..7 : ~checks[i].fails BY <3>1, <3>2, FirstErrorIs
    <3>4. ~checks[1].fails /\ ~checks[3].fails BY <3>3
    <3> QED BY <3>2, <3>4
  <2>2. /\ r.action \in {ToPlayer, ToAdmin, ToLocation}
        /\ a \in Canonicals /\ t \in Canonicals
        /\ r.action # ToLocation => a # t
        /\ r.action = ToLocation => r.destination = "inside"
    BY AcceptedIs
  <2>3. ASSUME NEW id \in {a, t}
        PROVE  /\ activePlayers[id.of] \in alive \ w.special
               /\ player[activePlayers[id.of]] = id.of
    <3>1. IsOnline(id) BY <2>1
    <3>2. id.of \in DOMAIN activePlayers BY <3>1 DEF IsOnline
    <3>3. activePlayers[id.of] \in Involved(r) BY <3>1 DEF Involved
    <3> QED BY <3>2, <3>3, <2>1 DEF IInv, NoDanglingControllers, ActiveUnderOwnController
  <2>4. r.action # ToLocation => a.of # t.of
    <3>1. a = [of |-> a.of, capitals |-> TRUE] /\ t = [of |-> t.of, capitals |-> TRUE]
      BY <2>2 DEF Canonicals
    <3> QED BY <3>1, <2>2
  <2>5. /\ Moving(r) \in alive \ w.special /\ player[Moving(r)] = MovedPlayer(r)
    BY <2>3 DEF Moving, MovedPlayer
  <2>6. CASE r.action = ToLocation
    <3>1. Goal(r) = r.destination BY <2>6 DEF Goal, ToLocation, ToPlayer, ToAdmin
    <3> QED BY <3>1, <2>2, <2>5, <2>6
  <2>7. CASE r.action = ToPlayer
    <3>1. Goal(r) = activePlayers[t.of] /\ Moving(r) = activePlayers[a.of] /\ OtherPlayer(r) = t.of
      BY <2>7 DEF Goal, Moving, OtherPlayer, ToLocation, ToPlayer, ToAdmin
    <3>2. r.action # ToLocation BY <2>7 DEF ToLocation, ToPlayer
    <3> QED BY <3>1, <3>2, <2>3, <2>4, <2>5
  <2>8. CASE r.action = ToAdmin
    <3>1. Goal(r) = activePlayers[a.of] /\ Moving(r) = activePlayers[t.of] /\ OtherPlayer(r) = a.of
      BY <2>8 DEF Goal, Moving, OtherPlayer, ToLocation, ToPlayer, ToAdmin
    <3>2. r.action # ToLocation BY <2>8 DEF ToLocation, ToAdmin
    <3> QED BY <3>1, <3>2, <2>3, <2>4, <2>5
  <2> QED BY <2>2, <2>6, <2>7, <2>8
<1> QED BY TrackingInvariantHolds, <1>1, PTL

\* In every state the hooks can reach, an accepted request for players who are
\* connected, visible, in the open world and never shared their identity is
\* turned down by nothing but the game.
THEOREM ConnectedAreTeleported == Spec => []ConnectedPlayersAreTeleported
<1>1. IInv => ConnectedPlayersAreTeleported
  <2> SUFFICES ASSUME IInv, NEW r \in Accepted, NEW w \in Worlds,
                      \A p \in {r.administrator.of, r.target.of} :
                          \E k \in Controllers \ (overlapped \cup w.special) :
                              player[k] = p /\ Settled(k) /\ IsLocated(k)
               PROVE  ExecutionError(r, w) \in {None, "execution_failed",
                          "safe_destination_unavailable", "teleport_rejected"}
    BY DEF ConnectedPlayersAreTeleported
  <2> DEFINE a == r.administrator
             t == r.target
  <2>1. /\ a \in Canonicals /\ t \in Canonicals
        /\ r.action = ToLocation => r.destination = "inside" /\ r.space = "palpagos"
    BY AcceptedIs
  <2>2. ASSUME NEW id \in {a, t}
        PROVE  /\ IsOnline(id) /\ IsLocated(activePlayers[id.of])
               /\ activePlayers[id.of] \notin w.special
    <3>1. PICK k \in Controllers \ (overlapped \cup w.special) :
              player[k] = id.of /\ Settled(k) /\ IsLocated(k)
      OBVIOUS
    <3>2. Tracked(k) BY <3>1 DEF IInv, SoleLoginsAreTracked
    <3>3. id.of \in DOMAIN activePlayers /\ activePlayers[id.of] = k BY <3>1, <3>2 DEF Tracked
    <3>4. id.capitals = TRUE BY <2>1 DEF Canonicals
    <3> QED BY <3>1, <3>3, <3>4 DEF IsOnline
  <2>3. \A k \in Involved(r) : IsLocated(k) /\ k \notin w.special BY <2>2 DEF Involved
  <2> DEFINE checks == ExecutionChecks(r, w)
  <2>4. /\ IsChecks(checks, 7)
        /\ checks[1].fails = (~IsOnline(r.administrator) \/ ~IsOnline(r.target))
        /\ checks[2].fails = (\E k \in Involved(r) : ~IsLocated(k))
        /\ checks[3].fails = (Involved(r) \cap w.special # {})
        /\ checks[4].fails = (r.action = ToLocation
                                         /\ (r.destination = Unset \/ r.space # "palpagos"))
        /\ checks[5].error = "execution_failed"
        /\ checks[6].error = "safe_destination_unavailable"
        /\ checks[7].error = "teleport_rejected"
    BY ExecutionChecksAre
  <2>5. ExecutionError(r, w) = FirstError(checks) BY DEF ExecutionError
  <2> HIDE DEF checks
  <2>6. ~checks[1].fails BY <2>2, <2>4
  <2>7. ~checks[2].fails /\ ~checks[3].fails BY <2>3, <2>4
  <2>8. ~checks[4].fails BY <2>1, <2>4, TeleportAssumption DEF Points
  <2>9. \/ FirstError(checks) = None
        \/ \E m \in 1..7 : FirstError(checks) = checks[m].error /\ checks[m].fails
    BY <2>4, FirstErrorIs
  <2>10. CASE \E m \in 1..7 : FirstError(checks) = checks[m].error /\ checks[m].fails
    <3>1. PICK m \in 1..7 : FirstError(checks) = checks[m].error /\ checks[m].fails BY <2>10
    <3>2. m = 5 \/ m = 6 \/ m = 7 BY <3>1, <2>6, <2>7, <2>8
    <3> QED BY <3>1, <3>2, <2>4, <2>5
  <2> QED BY <2>5, <2>9, <2>10
<1> QED BY TrackingInvariantHolds, <1>1, PTL

=============================================================================
