-------------------------- MODULE ProxyPool_proofs --------------------------
(***************************************************************************)
(* ProxyPool, for every number of users, closers, clients and capacity:    *)
(* the inductive invariant, no panic, no shared client, and that every      *)
(* behaviour of the pool is one of the lending library PoolPromise.        *)
(***************************************************************************)
EXTENDS ProxyPool, SequenceTheorems, FiniteSetTheorems, TLAPS

USE DEF lockVars, chanVars, Goto

\* What Go's channel does to its queue: receiving takes the head away and keeps
\* the others in their order.
LEMMA TailFacts ==
  ASSUME NEW s \in Seq(Clients), s # <<>>
  PROVE  /\ Head(s) \in Clients /\ Head(s) = s[1]
         /\ Tail(s) \in Seq(Clients)
         /\ Len(Tail(s)) = Len(s) - 1
         /\ Len(s) \in Nat \ {0}
         /\ DOMAIN Tail(s) = 1 .. Len(s) - 1
         /\ DOMAIN s = 1 .. Len(s)
         /\ \A i \in 1 .. Len(s) - 1 : Tail(s)[i] = s[i + 1]
  OBVIOUS

\* Sending puts the new client behind the others.
LEMMA AppendFacts ==
  ASSUME NEW s \in Seq(Clients), NEW k \in Clients
  PROVE  /\ Append(s, k) \in Seq(Clients)
         /\ Len(Append(s, k)) = Len(s) + 1
         /\ Len(s) \in Nat
         /\ DOMAIN Append(s, k) = 1 .. Len(s) + 1
         /\ DOMAIN s = 1 .. Len(s)
         /\ \A i \in 1 .. Len(s) : Append(s, k)[i] = s[i]
         /\ Append(s, k)[Len(s) + 1] = k
  OBVIOUS

LEMMA InitIInv == Init => IInv
<1> SUFFICES ASSUME Init PROVE IInv
  OBVIOUS
<1> USE PoolAssumption DEF Init
<1>1. buf \in Seq(Clients) /\ Len(buf) = InitialCap /\ DOMAIN buf = 1 .. InitialCap
  <2>1. buf \in [1 .. InitialCap -> Clients] /\ InitialCap \in Nat
    OBVIOUS
  <2> QED BY <2>1
<1>2. TypeOK
  <2>1. Len(buf) <= MaxCap
    BY <1>1
  <2>2. /\ pc \in [Users \cup Closers -> UserPC \cup CloserPC]
        /\ \A u \in Users : pc[u] \in UserPC
        /\ \A c \in Closers : pc[c] \in CloserPC
    BY DEF UserPC, CloserPC
  <2>3. /\ seen \in [Users \cup Closers -> {"chan", "nil"}]
        /\ held \in [Users -> Clients \cup {NoClient}]
    OBVIOUS
  <2> QED BY <1>1, <2>1, <2>2, <2>3 DEF TypeOK
<1>3. LockInv
  BY DEF LockInv
<1>4. FieldInv /\ NoPanic
  BY DEF FieldInv, MustClose, NoPanic
<1>5. HoldInv
  BY DEF HoldInv
<1>6. ClientsNotShared
  <2>1. \A i, j \in 1 .. InitialCap : buf[i] = buf[j] => i = j
    OBVIOUS
  <2>2. \A i \in 1 .. InitialCap : buf[i] \in Clients
    OBVIOUS
  <2> QED BY <1>1, <2>1, <2>2 DEF ClientsNotShared, Buffered
<1> QED BY <1>2, <1>3, <1>4, <1>5, <1>6 DEF IInv

LEMMA StepTypeOK == IInv /\ [Next]_vars => TypeOK'
<1> SUFFICES ASSUME TypeOK, HoldInv, [Next]_vars PROVE TypeOK'
  BY DEF IInv
<1> USE PoolAssumption DEF TypeOK, UserPC, CloserPC
<1>1. ASSUME NEW u \in Users, GetCheck(u) PROVE TypeOK'
  BY <1>1 DEF GetCheck
<1>2. ASSUME NEW u \in Users, GetReload(u) PROVE TypeOK'
  BY <1>2 DEF GetReload
<1>3. ASSUME NEW u \in Users, GetReceive(u) PROVE TypeOK'
  <2>1. Head(buf) \in Clients /\ Tail(buf) \in Seq(Clients) /\ Len(Tail(buf)) <= MaxCap
    BY <1>3, TailFacts DEF GetReceive
  <2>2. /\ buf' \in Seq(Clients) /\ Len(buf') <= MaxCap
        /\ held' \in [Users -> Clients \cup {NoClient}]
    BY <1>3, <2>1 DEF GetReceive
  <2>3. /\ pc' \in [Users \cup Closers -> UserPC \cup CloserPC]
        /\ \A v \in Users : pc'[v] \in UserPC
        /\ \A c \in Closers : pc'[c] \in CloserPC
    BY <1>3 DEF GetReceive, Goto
  <2>4. /\ reverseProxyChan' = reverseProxyChan /\ closed' = closed /\ mutex' = mutex
        /\ readers' = readers /\ seen' = seen /\ panicked' = panicked
    BY <1>3 DEF GetReceive, lockVars
  <2> QED BY <2>2, <2>3, <2>4
<1>4. ASSUME NEW u \in Users, GetDrained(u) PROVE TypeOK'
  BY <1>4 DEF GetDrained
<1>5. ASSUME NEW u \in Users, GetDefault(u) PROVE TypeOK'
  BY <1>5 DEF GetDefault
<1>6. ASSUME NEW u \in Users, GetFailed(u) PROVE TypeOK'
  BY <1>6 DEF GetFailed
<1>7. ASSUME NEW u \in Users, PutCall(u) PROVE TypeOK'
  BY <1>7 DEF PutCall
<1>8. ASSUME NEW u \in Users, PutRLock(u) PROVE TypeOK'
  BY <1>8 DEF PutRLock
<1>9. ASSUME NEW u \in Users, PutCheck(u) PROVE TypeOK'
  BY <1>9 DEF PutCheck
<1>10. ASSUME NEW u \in Users, PutSend(u) PROVE TypeOK'
  <2>1. held[u] \in Clients
    BY <1>10 DEF HoldInv, PutSend
  <2>2. buf' \in Seq(Clients) /\ Len(buf') <= MaxCap
    <3>1. CASE buf' = buf
      BY <3>1
    <3>2. CASE Len(buf) < MaxCap /\ buf' = Append(buf, held[u])
      <4>1. buf' \in Seq(Clients) /\ Len(buf') = Len(buf) + 1 /\ Len(buf) \in Nat
        BY <2>1, <3>2, AppendFacts
      <4> QED BY <3>2, <4>1
    <3> QED BY <1>10, <3>1, <3>2 DEF PutSend
  <2>3. held' \in [Users -> Clients \cup {NoClient}] /\ panicked' \in BOOLEAN
    BY <1>10 DEF PutSend
  <2>4. /\ pc' \in [Users \cup Closers -> UserPC \cup CloserPC]
        /\ \A v \in Users : pc'[v] \in UserPC
        /\ \A c \in Closers : pc'[c] \in CloserPC
    BY <1>10 DEF PutSend
  <2> QED BY <1>10, <2>2, <2>3, <2>4 DEF PutSend
<1>11. ASSUME NEW u \in Users, PutRUnlock(u) PROVE TypeOK'
  BY <1>11 DEF PutRUnlock
<1>12. ASSUME NEW c \in Closers, CloseCall(c) PROVE TypeOK'
  BY <1>12 DEF CloseCall
<1>13. ASSUME NEW c \in Closers, CloseAnnounce(c) PROVE TypeOK'
  BY <1>13 DEF CloseAnnounce
<1>14. ASSUME NEW c \in Closers, CloseLock(c) PROVE TypeOK'
  BY <1>14 DEF CloseLock
<1>15. ASSUME NEW c \in Closers, CloseTake(c) PROVE TypeOK'
  BY <1>15 DEF CloseTake
<1>16. ASSUME NEW c \in Closers, CloseUnlock(c) PROVE TypeOK'
  BY <1>16 DEF CloseUnlock
<1>17. ASSUME NEW c \in Closers, CloseChan(c) PROVE TypeOK'
  BY <1>17 DEF CloseChan
<1>18. CASE UNCHANGED vars
  BY <1>18 DEF vars
<1> QED
  BY <1>1, <1>2, <1>3, <1>4, <1>5, <1>6, <1>7, <1>8, <1>9, <1>10, <1>11, <1>12,
     <1>13, <1>14, <1>15, <1>16, <1>17, <1>18 DEF Next, UserStep, CloserStep

LEMMA StepLockInv == IInv /\ [Next]_vars => LockInv'
<1> SUFFICES ASSUME TypeOK, LockInv, [Next]_vars PROVE LockInv'
  BY DEF IInv
<1> USE PoolAssumption DEF LockInv, TypeOK
<1>1. ASSUME NEW u \in Users, GetCheck(u) PROVE LockInv'
  BY <1>1 DEF GetCheck
<1>2. ASSUME NEW u \in Users, GetReload(u) PROVE LockInv'
  BY <1>2 DEF GetReload
<1>3. ASSUME NEW u \in Users, GetReceive(u) PROVE LockInv'
  BY <1>3 DEF GetReceive
<1>4. ASSUME NEW u \in Users, GetDrained(u) PROVE LockInv'
  BY <1>4 DEF GetDrained
<1>5. ASSUME NEW u \in Users, GetDefault(u) PROVE LockInv'
  BY <1>5 DEF GetDefault
<1>6. ASSUME NEW u \in Users, GetFailed(u) PROVE LockInv'
  BY <1>6 DEF GetFailed
<1>7. ASSUME NEW u \in Users, PutCall(u) PROVE LockInv'
  BY <1>7 DEF PutCall
<1>8. ASSUME NEW u \in Users, PutRLock(u) PROVE LockInv'
  BY <1>8 DEF PutRLock
<1>9. ASSUME NEW u \in Users, PutCheck(u) PROVE LockInv'
  BY <1>9 DEF PutCheck
<1>10. ASSUME NEW u \in Users, PutSend(u) PROVE LockInv'
  BY <1>10 DEF PutSend
<1>11. ASSUME NEW u \in Users, PutRUnlock(u) PROVE LockInv'
  BY <1>11 DEF PutRUnlock
<1>12. ASSUME NEW c \in Closers, CloseCall(c) PROVE LockInv'
  BY <1>12 DEF CloseCall
<1>13. ASSUME NEW c \in Closers, CloseAnnounce(c) PROVE LockInv'
  BY <1>13 DEF CloseAnnounce
<1>14. ASSUME NEW c \in Closers, CloseLock(c) PROVE LockInv'
  BY <1>14 DEF CloseLock
<1>15. ASSUME NEW c \in Closers, CloseTake(c) PROVE LockInv'
  BY <1>15 DEF CloseTake
<1>16. ASSUME NEW c \in Closers, CloseUnlock(c) PROVE LockInv'
  BY <1>16 DEF CloseUnlock
<1>17. ASSUME NEW c \in Closers, CloseChan(c) PROVE LockInv'
  BY <1>17 DEF CloseChan
<1>18. CASE UNCHANGED vars
  BY <1>18 DEF vars
<1> QED
  BY <1>1, <1>2, <1>3, <1>4, <1>5, <1>6, <1>7, <1>8, <1>9, <1>10, <1>11, <1>12,
     <1>13, <1>14, <1>15, <1>16, <1>17, <1>18 DEF Next, UserStep, CloserStep

LEMMA StepFieldInv == IInv /\ [Next]_vars => FieldInv' /\ NoPanic'
<1> SUFFICES ASSUME TypeOK, LockInv, FieldInv, NoPanic, [Next]_vars
             PROVE  FieldInv' /\ NoPanic'
  BY DEF IInv
<1> USE PoolAssumption DEF LockInv, TypeOK, FieldInv, NoPanic, MustClose
<1>1. ASSUME NEW u \in Users, GetCheck(u) PROVE FieldInv' /\ NoPanic'
  BY <1>1 DEF GetCheck
<1>2. ASSUME NEW u \in Users, GetReload(u) PROVE FieldInv' /\ NoPanic'
  BY <1>2 DEF GetReload
<1>3. ASSUME NEW u \in Users, GetReceive(u) PROVE FieldInv' /\ NoPanic'
  BY <1>3 DEF GetReceive
<1>4. ASSUME NEW u \in Users, GetDrained(u) PROVE FieldInv' /\ NoPanic'
  BY <1>4 DEF GetDrained
<1>5. ASSUME NEW u \in Users, GetDefault(u) PROVE FieldInv' /\ NoPanic'
  BY <1>5 DEF GetDefault
<1>6. ASSUME NEW u \in Users, GetFailed(u) PROVE FieldInv' /\ NoPanic'
  BY <1>6 DEF GetFailed
<1>7. ASSUME NEW u \in Users, PutCall(u) PROVE FieldInv' /\ NoPanic'
  BY <1>7 DEF PutCall
<1>8. ASSUME NEW u \in Users, PutRLock(u) PROVE FieldInv' /\ NoPanic'
  BY <1>8 DEF PutRLock
<1>9. ASSUME NEW u \in Users, PutCheck(u) PROVE FieldInv' /\ NoPanic'
  BY <1>9 DEF PutCheck
<1>10. ASSUME NEW u \in Users, PutSend(u) PROVE FieldInv' /\ NoPanic'
  BY <1>10 DEF PutSend
<1>11. ASSUME NEW u \in Users, PutRUnlock(u) PROVE FieldInv' /\ NoPanic'
  BY <1>11 DEF PutRUnlock
<1>12. ASSUME NEW c \in Closers, CloseCall(c) PROVE FieldInv' /\ NoPanic'
  BY <1>12 DEF CloseCall
<1>13. ASSUME NEW c \in Closers, CloseAnnounce(c) PROVE FieldInv' /\ NoPanic'
  BY <1>13 DEF CloseAnnounce
<1>14. ASSUME NEW c \in Closers, CloseLock(c) PROVE FieldInv' /\ NoPanic'
  BY <1>14 DEF CloseLock
<1>15. ASSUME NEW c \in Closers, CloseTake(c) PROVE FieldInv' /\ NoPanic'
  BY <1>15 DEF CloseTake
<1>16. ASSUME NEW c \in Closers, CloseUnlock(c) PROVE FieldInv' /\ NoPanic'
  BY <1>16 DEF CloseUnlock
<1>17. ASSUME NEW c \in Closers, CloseChan(c) PROVE FieldInv' /\ NoPanic'
  BY <1>17 DEF CloseChan
<1>18. CASE UNCHANGED vars
  BY <1>18 DEF vars
<1> QED
  BY <1>1, <1>2, <1>3, <1>4, <1>5, <1>6, <1>7, <1>8, <1>9, <1>10, <1>11, <1>12,
     <1>13, <1>14, <1>15, <1>16, <1>17, <1>18 DEF Next, UserStep, CloserStep

LEMMA StepHoldInv == IInv /\ [Next]_vars => HoldInv'
<1> SUFFICES ASSUME TypeOK, HoldInv, [Next]_vars PROVE HoldInv'
  BY DEF IInv
<1> USE PoolAssumption DEF TypeOK, HoldInv
<1>1. ASSUME NEW u \in Users, GetCheck(u) PROVE HoldInv'
  BY <1>1 DEF GetCheck
<1>2. ASSUME NEW u \in Users, GetReload(u) PROVE HoldInv'
  BY <1>2 DEF GetReload
<1>3. ASSUME NEW u \in Users, GetReceive(u) PROVE HoldInv'
  BY <1>3 DEF GetReceive
<1>4. ASSUME NEW u \in Users, GetDrained(u) PROVE HoldInv'
  BY <1>4 DEF GetDrained
<1>5. ASSUME NEW u \in Users, GetDefault(u) PROVE HoldInv'
  BY <1>5 DEF GetDefault
<1>6. ASSUME NEW u \in Users, GetFailed(u) PROVE HoldInv'
  BY <1>6 DEF GetFailed
<1>7. ASSUME NEW u \in Users, PutCall(u) PROVE HoldInv'
  BY <1>7 DEF PutCall
<1>8. ASSUME NEW u \in Users, PutRLock(u) PROVE HoldInv'
  BY <1>8 DEF PutRLock
<1>9. ASSUME NEW u \in Users, PutCheck(u) PROVE HoldInv'
  BY <1>9 DEF PutCheck
<1>10. ASSUME NEW u \in Users, PutSend(u) PROVE HoldInv'
  BY <1>10 DEF PutSend
<1>11. ASSUME NEW u \in Users, PutRUnlock(u) PROVE HoldInv'
  BY <1>11 DEF PutRUnlock
<1>12. ASSUME NEW c \in Closers, CloseCall(c) PROVE HoldInv'
  BY <1>12 DEF CloseCall
<1>13. ASSUME NEW c \in Closers, CloseAnnounce(c) PROVE HoldInv'
  BY <1>13 DEF CloseAnnounce
<1>14. ASSUME NEW c \in Closers, CloseLock(c) PROVE HoldInv'
  BY <1>14 DEF CloseLock
<1>15. ASSUME NEW c \in Closers, CloseTake(c) PROVE HoldInv'
  BY <1>15 DEF CloseTake
<1>16. ASSUME NEW c \in Closers, CloseUnlock(c) PROVE HoldInv'
  BY <1>16 DEF CloseUnlock
<1>17. ASSUME NEW c \in Closers, CloseChan(c) PROVE HoldInv'
  BY <1>17 DEF CloseChan
<1>18. CASE UNCHANGED vars
  BY <1>18 DEF vars
<1> QED
  BY <1>1, <1>2, <1>3, <1>4, <1>5, <1>6, <1>7, <1>8, <1>9, <1>10, <1>11, <1>12,
     <1>13, <1>14, <1>15, <1>16, <1>17, <1>18 DEF Next, UserStep, CloserStep

LEMMA StepClientsNotShared == IInv /\ [Next]_vars => ClientsNotShared'
<1> SUFFICES ASSUME TypeOK, HoldInv, ClientsNotShared, [Next]_vars
             PROVE  ClientsNotShared'
  BY DEF IInv
<1> USE PoolAssumption DEF TypeOK
<1>1. ASSUME UNCHANGED <<buf, held>> PROVE ClientsNotShared'
  BY <1>1 DEF ClientsNotShared, Buffered
<1>2. ASSUME NEW u \in Users, GetReceive(u) PROVE ClientsNotShared'
  <2>1. /\ buf # <<>>
        /\ buf' = Tail(buf)
        /\ held' = [held EXCEPT ![u] = Head(buf)]
    BY <1>2 DEF GetReceive
  <2>2. \A i \in DOMAIN buf' : i + 1 \in DOMAIN buf /\ buf'[i] = buf[i + 1]
    BY <2>1, TailFacts
  <2>3. \A i, j \in DOMAIN buf' : buf'[i] = buf'[j] => i = j
    <3> SUFFICES ASSUME NEW i \in DOMAIN buf', NEW j \in DOMAIN buf', buf'[i] = buf'[j]
                 PROVE  i = j
      OBVIOUS
    <3>1. i + 1 = j + 1
      BY <2>2 DEF ClientsNotShared
    <3>2. i \in Nat /\ j \in Nat
      BY <2>1, TailFacts
    <3> QED BY <3>1, <3>2
  <2>4. Head(buf) = buf[1] /\ 1 \in DOMAIN buf /\ Head(buf) \in Clients
    BY <2>1, TailFacts
  <2>5. \A v \in Users : held[v] # Head(buf)
    BY <2>4 DEF ClientsNotShared, Buffered
  <2>6. \A v, w \in Users : held'[v] # NoClient /\ held'[v] = held'[w] => v = w
    BY <2>1, <2>5 DEF ClientsNotShared
  <2>7. \A i \in DOMAIN buf' : buf'[i] # Head(buf)
    <3> SUFFICES ASSUME NEW i \in DOMAIN buf' PROVE buf[i + 1] # buf[1]
      BY <2>2, <2>4
    <3>1. i \in Nat \ {0}
      BY <2>1, TailFacts
    <3> QED BY <3>1, <2>2, <2>4 DEF ClientsNotShared
  <2>8. \A v \in Users : \A i \in DOMAIN buf' : buf'[i] # held'[v]
    BY <2>1, <2>2, <2>7 DEF ClientsNotShared, Buffered
  <2> QED BY <2>3, <2>6, <2>8 DEF ClientsNotShared, Buffered
<1>3. ASSUME NEW u \in Users, GetDefault(u) PROVE ClientsNotShared'
  <2>1. PICK c \in Clients : ~Buffered(c) /\ ~Held(c) /\ held' = [held EXCEPT ![u] = c]
    BY <1>3 DEF GetDefault
  <2>2. buf' = buf
    BY <1>3 DEF GetDefault
  <2> QED BY <2>1, <2>2 DEF ClientsNotShared, Buffered, Held
<1>4. ASSUME NEW u \in Users, PutCheck(u) PROVE ClientsNotShared'
  <2>1. buf' = buf
    BY <1>4 DEF PutCheck
  <2>2. \A v \in Users : held'[v] = held[v] \/ held'[v] = NoClient
    BY <1>4 DEF PutCheck
  <2>3. ~Buffered(NoClient)
    BY DEF Buffered
  <2> QED BY <2>1, <2>2, <2>3 DEF ClientsNotShared, Buffered
<1>5. ASSUME NEW u \in Users, PutSend(u) PROVE ClientsNotShared'
  <2>1. held' = [held EXCEPT ![u] = NoClient]
    BY <1>5 DEF PutSend
  <2>2. held[u] \in Clients
    BY <1>5 DEF HoldInv, PutSend
  <2>3. \A i \in DOMAIN buf' : buf'[i] \in Clients
    <3>1. buf' = buf \/ buf' = Append(buf, held[u])
      BY <1>5 DEF PutSend
    <3>2. CASE buf' = buf
      BY <3>2
    <3>3. CASE buf' = Append(buf, held[u])
      BY <3>3, <2>2, AppendFacts
    <3> QED BY <3>1, <3>2, <3>3
  <2>4. CASE buf' = buf
    <3>1. ~Buffered(NoClient)
      BY DEF Buffered
    <3> QED BY <2>4, <2>1, <3>1 DEF ClientsNotShared, Buffered
  <2>5. CASE buf' = Append(buf, held[u])
    <3>1. /\ DOMAIN buf' = 1 .. Len(buf) + 1
          /\ DOMAIN buf = 1 .. Len(buf)
          /\ Len(buf) \in Nat
          /\ \A i \in 1 .. Len(buf) : buf'[i] = buf[i]
          /\ buf'[Len(buf) + 1] = held[u]
      BY <2>5, <2>2, AppendFacts
    <3>2. \A i \in 1 .. Len(buf) : buf[i] # held[u]
      BY <3>1 DEF ClientsNotShared, Buffered
    <3>3. \A i, j \in DOMAIN buf' : buf'[i] = buf'[j] => i = j
      BY <3>1, <3>2 DEF ClientsNotShared
    <3>4. \A v \in Users \ {u} : \A i \in DOMAIN buf' : buf'[i] # held'[v]
      BY <2>1, <2>2, <3>1 DEF ClientsNotShared, Buffered
    <3>5. \A i \in DOMAIN buf' : buf'[i] # held'[u]
      BY <2>1, <2>3
    <3>6. \A v, w \in Users : held'[v] # NoClient /\ held'[v] = held'[w] => v = w
      BY <2>1 DEF ClientsNotShared
    <3> QED BY <3>3, <3>4, <3>5, <3>6 DEF ClientsNotShared, Buffered
  <2> QED BY <1>5, <2>4, <2>5 DEF PutSend
<1>6. ASSUME NEW u \in Users, GetCheck(u) PROVE ClientsNotShared'
  BY <1>1, <1>6 DEF GetCheck
<1>7. ASSUME NEW u \in Users, GetReload(u) PROVE ClientsNotShared'
  BY <1>1, <1>7 DEF GetReload
<1>8. ASSUME NEW u \in Users, GetDrained(u) PROVE ClientsNotShared'
  BY <1>1, <1>8 DEF GetDrained
<1>9. ASSUME NEW u \in Users, GetFailed(u) PROVE ClientsNotShared'
  BY <1>1, <1>9 DEF GetFailed
<1>10. ASSUME NEW u \in Users, PutCall(u) PROVE ClientsNotShared'
  BY <1>1, <1>10 DEF PutCall
<1>11. ASSUME NEW u \in Users, PutRLock(u) PROVE ClientsNotShared'
  BY <1>1, <1>11 DEF PutRLock
<1>12. ASSUME NEW u \in Users, PutRUnlock(u) PROVE ClientsNotShared'
  BY <1>1, <1>12 DEF PutRUnlock
<1>13. ASSUME NEW c \in Closers, CloseCall(c) PROVE ClientsNotShared'
  BY <1>1, <1>13 DEF CloseCall
<1>14. ASSUME NEW c \in Closers, CloseAnnounce(c) PROVE ClientsNotShared'
  BY <1>1, <1>14 DEF CloseAnnounce
<1>15. ASSUME NEW c \in Closers, CloseLock(c) PROVE ClientsNotShared'
  BY <1>1, <1>15 DEF CloseLock
<1>16. ASSUME NEW c \in Closers, CloseTake(c) PROVE ClientsNotShared'
  BY <1>1, <1>16 DEF CloseTake
<1>17. ASSUME NEW c \in Closers, CloseUnlock(c) PROVE ClientsNotShared'
  BY <1>1, <1>17 DEF CloseUnlock
<1>18. ASSUME NEW c \in Closers, CloseChan(c) PROVE ClientsNotShared'
  BY <1>1, <1>18 DEF CloseChan
<1>19. CASE UNCHANGED vars
  BY <1>1, <1>19 DEF vars
<1> QED
  BY <1>2, <1>3, <1>4, <1>5, <1>6, <1>7, <1>8, <1>9, <1>10, <1>11,
     <1>12, <1>13, <1>14, <1>15, <1>16, <1>17, <1>18, <1>19 DEF Next, UserStep, CloserStep

\* TypeOK, the lock discipline, what the field says of the channel, who holds which
\* client: true in every reachable state, and together inductive.
THEOREM Invariance == Spec => []IInv
<1>1. IInv /\ [Next]_vars => IInv'
  BY StepTypeOK, StepLockInv, StepFieldInv, StepHoldInv, StepClientsNotShared DEF IInv
<1> QED BY InitIInv, <1>1, PTL DEF Spec

\* Every variable of the pool keeps its type; in particular the channel never holds
\* more than MaxCap clients.
THEOREM TypeCorrect == Spec => []TypeOK
<1>1. IInv => TypeOK
  BY DEF IInv
<1> QED BY Invariance, <1>1, PTL

\* However Put and Close interleave, no goroutine sends on a closed channel or closes
\* it twice (chainpool.go:141-152 and 180-201).
THEOREM NeverPanics == Spec => []NoPanic
<1>1. IInv => NoPanic
  BY DEF IInv
<1> QED BY Invariance, <1>1, PTL

\* No client is ever in the hands of two goroutines, or in hand and in the channel at
\* once (chainpool.go:156-201).
THEOREM ClientsNeverShared == Spec => []ClientsNotShared
<1>1. IInv => ClientsNotShared
  BY DEF IInv
<1> QED BY Invariance, <1>1, PTL

-----------------------------------------------------------------------------
(* The pool keeps its promise *)

\* After Close took the channel out of the field no step adds a client to the channel:
\* the send of a Put that is under way still sees the field set (chainpool.go:185-196).
THEOREM OnlyDrainsAfterClose == Spec => ClosedPoolOnlyDrains
<1> DEFINE Drains == reverseProxyChan = "nil" =>
                       buf' = buf \/ (buf # <<>> /\ buf' = Tail(buf))
<1>1. IInv /\ [Next]_vars => [Drains]_vars
  <2> SUFFICES ASSUME IInv, Next PROVE Drains
    OBVIOUS
  <2>1. ASSUME NEW u \in Users, GetReceive(u) PROVE Drains
    BY <2>1 DEF GetReceive
  <2>2. ASSUME NEW u \in Users, PutSend(u) PROVE Drains
    BY <2>2 DEF PutSend, IInv, FieldInv
  <2>3. ASSUME UNCHANGED buf PROVE Drains
    BY <2>3
  <2>4. ASSUME NEW u \in Users,
               GetCheck(u) \/ GetReload(u) \/ GetDrained(u) \/ GetDefault(u) \/ GetFailed(u)
        PROVE  UNCHANGED buf
    BY <2>4 DEF GetCheck, GetReload, GetDrained, GetDefault, GetFailed
  <2>5. ASSUME NEW u \in Users,
               PutCall(u) \/ PutRLock(u) \/ PutCheck(u) \/ PutRUnlock(u)
        PROVE  UNCHANGED buf
    BY <2>5 DEF PutCall, PutRLock, PutCheck, PutRUnlock
  <2>6. ASSUME NEW c \in Closers, CloseCall(c) \/ CloserStep(c) PROVE UNCHANGED buf
    BY <2>6 DEF CloseCall, CloserStep, CloseAnnounce, CloseLock, CloseTake, CloseUnlock,
               CloseChan
  <2> QED BY <2>1, <2>2, <2>3, <2>4, <2>5, <2>6 DEF Next, UserStep
<1> QED BY Invariance, <1>1, PTL DEF Spec, ClosedPoolOnlyDrains

\* The clients in the channel, as the set the promise speaks of.
InChannel(s) == {s[i] : i \in DOMAIN s}

\* A sequence without repetitions has as many elements as its length.
LEMMA ChannelCardinality ==
  ASSUME NEW s \in Seq(Clients), \A i, j \in DOMAIN s : s[i] = s[j] => i = j
  PROVE  Cardinality(InChannel(s)) = Len(s)
<1>1. DOMAIN s = 1 .. Len(s) /\ Len(s) \in Nat /\ s \in [1 .. Len(s) -> InChannel(s)]
  BY DEF InChannel
<1>2. s \in Bijection(1 .. Len(s), InChannel(s))
  BY <1>1 DEF Bijection, Injection, IsInjective, Surjection, InChannel
<1> QED BY <1>1, <1>2, FS_CountingElements DEF ExistsBijection

\* Sending a client adds it to the set.
LEMMA ChannelAppend ==
  ASSUME NEW s \in Seq(Clients), NEW k \in Clients
  PROVE  InChannel(Append(s, k)) = InChannel(s) \cup {k}
<1>1. ASSUME NEW x \in InChannel(Append(s, k)) PROVE x \in InChannel(s) \cup {k}
  BY AppendFacts DEF InChannel
<1>2. ASSUME NEW x \in InChannel(s) PROVE x \in InChannel(Append(s, k))
  <2>1. PICK i \in DOMAIN s : x = s[i]
    BY DEF InChannel
  <2>2. i \in DOMAIN Append(s, k) /\ Append(s, k)[i] = x
    BY <2>1, AppendFacts
  <2> QED BY <2>2 DEF InChannel
<1>3. k \in InChannel(Append(s, k))
  <2>1. Len(s) + 1 \in DOMAIN Append(s, k) /\ Append(s, k)[Len(s) + 1] = k
    BY AppendFacts
  <2> QED BY <2>1 DEF InChannel
<1> QED BY <1>1, <1>2, <1>3

\* PoolPromise counts with its own instance of FiniteSets: the same operator.
LEMMA PromiseCardinality == \A S : Promise!Cardinality(S) = Cardinality(S)
  BY DEF Promise!Cardinality, Cardinality

\* NewChanPool's pool is a new library.
LEMMA InitRefines == Init => Promise!Init
<1> SUFFICES ASSUME Init PROVE Promise!Init
  OBVIOUS
<1>1. IInv
  BY InitIInv
<1>2. buf \in Seq(Clients) /\ Len(buf) = InitialCap
  BY <1>1, PoolAssumption DEF Init, IInv, TypeOK
<1>3. Cardinality(InChannel(buf)) = InitialCap
  BY <1>1, <1>2, ChannelCardinality DEF IInv, ClientsNotShared
<1>4. InChannel(buf) \subseteq Clients
  BY <1>2 DEF InChannel
<1>5. {buf[i] : i \in DOMAIN buf}
        \in {S \in SUBSET Clients : Promise!Cardinality(S) = InitialCap}
  BY <1>3, <1>4, PromiseCardinality DEF InChannel
<1>6. {u \in Users : pc[u] \in {"get", "select"}} = {}
  BY DEF Init
<1>7. (reverseProxyChan = "chan") = TRUE /\ held = [u \in Users |-> NoClient]
  BY DEF Init
<1> QED BY <1>5, <1>6, <1>7, Zenon DEF Promise!Init

\* Every step of a goroutine is one of the library's steps, or none.
LEMMA StepRefines == IInv /\ [Next]_vars => [Promise!Next]_(Promise!promiseVars)
<1> SUFFICES ASSUME IInv, [Next]_vars
             PROVE  Promise!Next \/ UNCHANGED Promise!promiseVars
  OBVIOUS
<1> USE PoolAssumption DEF IInv, TypeOK
<1> DEFINE asking == {u \in Users : pc[u] \in {"get", "select"}}
<1>1. ASSUME UNCHANGED <<reverseProxyChan, buf, held>>,
             \A u \in Users : pc'[u] \in {"get", "select"} <=> pc[u] \in {"get", "select"}
      PROVE  UNCHANGED Promise!promiseVars
  <2>1. asking' = asking
    BY <1>1
  <2> QED BY <1>1, <2>1 DEF Promise!promiseVars
<1>2. ASSUME NEW u \in Users, GetCheck(u)
      PROVE  Promise!Next \/ UNCHANGED Promise!promiseVars
  <2>1. CASE reverseProxyChan = "nil"
    BY <1>1, <1>2, <2>1 DEF GetCheck
  <2>2. CASE reverseProxyChan = "chan"
    <3>1. asking' = asking \cup {u} /\ u \notin asking
      BY <1>2, <2>2 DEF GetCheck
    <3>2. held[u] = NoClient
      BY <1>2, <2>2 DEF GetCheck, HoldInv
    <3>3. Promise!Ask(u)
      BY <1>2, <2>2, <3>1, <3>2 DEF GetCheck, Promise!Ask
    <3> QED BY <3>3 DEF Promise!Next
  <2> QED BY <2>1, <2>2
<1>3. ASSUME NEW u \in Users, GetReload(u) PROVE UNCHANGED Promise!promiseVars
  BY <1>1, <1>3 DEF GetReload
<1>4. ASSUME NEW u \in Users, GetReceive(u) PROVE Promise!Next
  <2>1. /\ Head(buf) = buf[1] /\ Head(buf) \in Clients
        /\ 1 \in DOMAIN buf
        /\ DOMAIN buf = 1 .. Len(buf) /\ DOMAIN Tail(buf) = 1 .. Len(buf) - 1
        /\ \A i \in 1 .. Len(buf) - 1 : Tail(buf)[i] = buf[i + 1]
        /\ Len(buf) \in Nat \ {0}
    BY <1>4, TailFacts DEF GetReceive
  <2>2. InChannel(buf)' = InChannel(buf) \ {Head(buf)}
    <3>1. buf' = Tail(buf)
      BY <1>4 DEF GetReceive
    <3>2. \A k : k \in InChannel(Tail(buf)) => k \in InChannel(buf) /\ k # Head(buf)
      <4> SUFFICES ASSUME NEW i \in 1 .. Len(buf) - 1
                   PROVE  buf[i + 1] \in InChannel(buf) /\ buf[i + 1] # buf[1]
        BY <2>1 DEF InChannel
      <4>1. i + 1 \in DOMAIN buf /\ i + 1 # 1
        BY <2>1
      <4> QED BY <2>1, <4>1 DEF InChannel, ClientsNotShared
    <3>3. \A k : k \in InChannel(buf) /\ k # Head(buf) => k \in InChannel(Tail(buf))
      <4> SUFFICES ASSUME NEW i \in 1 .. Len(buf), buf[i] # buf[1]
                   PROVE  buf[i] \in InChannel(Tail(buf))
        BY <2>1 DEF InChannel
      <4>1. i - 1 \in 1 .. Len(buf) - 1 /\ Tail(buf)[i - 1] = buf[(i - 1) + 1]
        BY <2>1
      <4>2. Tail(buf)[i - 1] = buf[i]
        BY <4>1
      <4>3. i - 1 \in DOMAIN Tail(buf)
        BY <2>1, <4>1
      <4> QED BY <4>2, <4>3 DEF InChannel
    <3>4. InChannel(buf)' = InChannel(Tail(buf))
      BY <3>1 DEF InChannel
    <3> QED BY <3>2, <3>3, <3>4
  <2>3. asking' = asking \ {u} /\ u \in asking
    BY <1>4 DEF GetReceive
  <2>4. \A v \in Users : held[v] # Head(buf)
    BY <2>1 DEF ClientsNotShared, Buffered
  <2>5. Head(buf) \in InChannel(buf)
    BY <2>1 DEF InChannel
  <2>6. PICK k \in Clients : k = Head(buf)
    BY <2>1
  <2>7. Promise!Lend(u, k)
    BY <1>4, <2>2, <2>3, <2>4, <2>5, <2>6
       DEF GetReceive, Promise!Lend, Promise!Borrowed, InChannel
  <2> QED BY <2>7 DEF Promise!Next
<1>5. ASSUME NEW u \in Users, GetDrained(u) PROVE Promise!Next
  <2>1. asking' = asking \ {u} /\ u \in asking
    BY <1>5 DEF GetDrained
  <2>2. reverseProxyChan = "nil"
    BY <1>5 DEF GetDrained, FieldInv
  <2>3. Promise!Refuse(u)
    BY <1>5, <2>1, <2>2 DEF GetDrained, Promise!Refuse
  <2> QED BY <2>3 DEF Promise!Next
<1>6. ASSUME NEW u \in Users, GetDefault(u) PROVE Promise!Next
  <2>1. PICK c \in Clients : ~Buffered(c) /\ ~Held(c) /\ held' = [held EXCEPT ![u] = c]
    BY <1>6 DEF GetDefault
  <2>2. asking' = asking \ {u} /\ u \in asking
    BY <1>6 DEF GetDefault
  <2>3. InChannel(buf) = {} \/ reverseProxyChan = "nil"
    BY <1>6 DEF GetDefault, FieldInv, InChannel
  <2>4. InChannel(buf) \ {c} = InChannel(buf)
    BY <2>1 DEF InChannel, Buffered
  <2>5. Promise!Lend(u, c)
    BY <1>6, <2>1, <2>2, <2>3, <2>4
       DEF GetDefault, Promise!Lend, Promise!Borrowed, Held, InChannel
  <2> QED BY <2>5 DEF Promise!Next
<1>7. ASSUME NEW u \in Users, PutCheck(u)
      PROVE  Promise!Next \/ UNCHANGED Promise!promiseVars
  <2>1. CASE reverseProxyChan = "nil"
    <3>1. held[u] # NoClient /\ asking' = asking
      BY <1>7, <2>1 DEF PutCheck, HoldInv
    <3>2. Promise!GiveBack(u)
      BY <1>7, <2>1, <3>1 DEF PutCheck, Promise!GiveBack
    <3> QED BY <3>2 DEF Promise!Next
  <2>2. CASE reverseProxyChan = "chan"
    BY <1>1, <1>7, <2>2 DEF PutCheck
  <2> QED BY <2>1, <2>2
<1>8. ASSUME NEW u \in Users, PutSend(u) PROVE Promise!Next
  <2>1. /\ held[u] \in Clients
        /\ asking' = asking
        /\ reverseProxyChan = "chan"
        /\ ~closed
    BY <1>8 DEF PutSend, HoldInv, FieldInv
  <2>2. Cardinality(InChannel(buf)) = Len(buf) /\ Len(buf) \in Nat
    BY ChannelCardinality DEF ClientsNotShared
  <2>3. InChannel(buf)' = IF Cardinality(InChannel(buf)) < MaxCap
                          THEN InChannel(buf) \cup {held[u]} ELSE InChannel(buf)
    <3>1. CASE Len(buf) < MaxCap
      <4>1. buf' = Append(buf, held[u])
        BY <1>8, <2>1, <3>1 DEF PutSend
      <4>2. InChannel(buf)' = InChannel(Append(buf, held[u]))
        BY <4>1 DEF InChannel
      <4> QED BY <2>1, <2>2, <3>1, <4>2, ChannelAppend
    <3>2. CASE Len(buf) = MaxCap
      <4>1. buf' = buf
        BY <1>8, <2>1, <3>2 DEF PutSend
      <4>2. ~(Cardinality(InChannel(buf)) < MaxCap)
        BY <2>2, <3>2
      <4> QED BY <4>1, <4>2 DEF InChannel
    <3> QED BY <2>2, <3>1, <3>2
  <2>4. {buf[i] : i \in DOMAIN buf}' =
          IF /\ reverseProxyChan = "chan"
             /\ Promise!Cardinality({buf[i] : i \in DOMAIN buf}) < MaxCap
          THEN {buf[i] : i \in DOMAIN buf} \cup {held[u]} ELSE {buf[i] : i \in DOMAIN buf}
    BY <2>1, <2>3, PromiseCardinality DEF InChannel
  <2>5. /\ held[u] # NoClient
        /\ held' = [held EXCEPT ![u] = NoClient]
        /\ asking' = asking
        /\ (reverseProxyChan = "chan")' = (reverseProxyChan = "chan")
    BY <1>8, <2>1 DEF PutSend
  <2>6. Promise!GiveBack(u)
    BY <2>4, <2>5, Zenon DEF Promise!GiveBack
  <2> QED BY <2>6 DEF Promise!Next
<1>9. ASSUME NEW c \in Closers, CloseTake(c)
      PROVE  Promise!Next \/ UNCHANGED Promise!promiseVars
  <2>1. asking' = asking
    BY <1>9 DEF CloseTake
  <2>2. CASE reverseProxyChan = "chan"
    <3>1. Promise!Shut
      BY <1>9, <2>1, <2>2 DEF CloseTake, Promise!Shut
    <3> QED BY <3>1 DEF Promise!Next
  <2>3. CASE reverseProxyChan = "nil"
    BY <1>9, <2>1, <2>3 DEF CloseTake, Promise!promiseVars
  <2> QED BY <2>2, <2>3
<1>10. ASSUME NEW u \in Users, GetFailed(u) PROVE UNCHANGED Promise!promiseVars
  BY <1>1, <1>10 DEF GetFailed
<1>11. ASSUME NEW u \in Users, PutCall(u) PROVE UNCHANGED Promise!promiseVars
  BY <1>1, <1>11 DEF PutCall
<1>12. ASSUME NEW u \in Users, PutRLock(u) PROVE UNCHANGED Promise!promiseVars
  BY <1>1, <1>12 DEF PutRLock
<1>13. ASSUME NEW u \in Users, PutRUnlock(u) PROVE UNCHANGED Promise!promiseVars
  BY <1>1, <1>13 DEF PutRUnlock
<1>14. ASSUME NEW c \in Closers, CloseCall(c) PROVE UNCHANGED Promise!promiseVars
  BY <1>1, <1>14 DEF CloseCall
<1>15. ASSUME NEW c \in Closers, CloseAnnounce(c) PROVE UNCHANGED Promise!promiseVars
  BY <1>1, <1>15 DEF CloseAnnounce
<1>16. ASSUME NEW c \in Closers, CloseLock(c) PROVE UNCHANGED Promise!promiseVars
  BY <1>1, <1>16 DEF CloseLock
<1>17. ASSUME NEW c \in Closers, CloseUnlock(c) PROVE UNCHANGED Promise!promiseVars
  BY <1>1, <1>17 DEF CloseUnlock
<1>18. ASSUME NEW c \in Closers, CloseChan(c) PROVE UNCHANGED Promise!promiseVars
  BY <1>1, <1>18 DEF CloseChan
<1>19. CASE UNCHANGED vars
  BY <1>19 DEF vars, Promise!promiseVars
<1> QED
  BY <1>2, <1>3, <1>4, <1>5, <1>6, <1>7, <1>8, <1>9, <1>10, <1>11,
     <1>12, <1>13, <1>14, <1>15, <1>16, <1>17, <1>18, <1>19 DEF Next, UserStep, CloserStep

\* The channel, the mutex and the races of chainpool.go together implement the lending
\* library PoolPromise, on which the model of the request handlers is built.
THEOREM Refinement == Spec => KeepsPromise
<1> QED BY InitRefines, Invariance, StepRefines, PTL DEF Spec, KeepsPromise, Promise!Spec
=============================================================================
